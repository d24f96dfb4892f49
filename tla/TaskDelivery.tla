---------------------------- MODULE TaskDelivery ----------------------------
(***************************************************************************)
(* A TaskCreated event on its way through the broker and an agent:         *)
(* RabbitMQ delivers it, EventConsumer deduplicates and dispatches it, and *)
(* BaseAgent executes the task and announces the outcome                   *)
(* (src/shared/messaging/consumer.py, idempotency.py and                   *)
(* src/agents/base/base_agent.py).                                         *)
(*                                                                         *)
(* One attempt is one call of _on_message.  Attempts of up to Prefetch     *)
(* messages run concurrently, a step being the code between two awaits.    *)
(* When the connection is lost the broker requeues what was not settled,   *)
(* while the attempts go on: a redelivery starts a second attempt of the   *)
(* same message, and the first one can no longer ack or nack it.           *)
(*                                                                         *)
(* The clock counts in units far longer than a Redis call: it stands still *)
(* between a delivery and the idempotency check of that delivery.          *)
(***************************************************************************)
EXTENDS Integers, FiniteSets

CONSTANTS
  Tasks,         \* the TaskCreated messages, each with its own event_id
  Prefetch,      \* prefetch_count: messages in the hands of the agent
  MessageTTL,    \* x-message-ttl of the queue, in clock units
  MarkerTTL,     \* ttl_seconds of the idempotency store, in clock units
  RedisForgets,  \* does Redis lose keys (allkeys-lru, restart)?
  MaxFaults,     \* bound: lost connections and crashes of the agent
  MaxTime        \* bound: the clock stops here

ASSUME BoundsAssumption ==
  /\ Prefetch \in Nat \ {0} /\ MaxFaults \in Nat /\ MaxTime \in Nat
  /\ RedisForgets \in BOOLEAN
ASSUME TTLAssumption ==
  MessageTTL \in Nat \ {0} /\ MarkerTTL \in Nat /\ MarkerTTL >= MessageTTL

\* What the body of a message turns out to be, in the order _dispatch finds out.
Bodies == {"malformed", "not_object", "other_type", "bad_event", "bad_task", "task"}
Unreadable == {"malformed", "not_object"}

Attempts == 1 .. MaxFaults + 1
Live == {"received", "executing", "announcing", "apologising"}
Never == -1

VARIABLES
  body,        \* message -> its kind of body (never changes)
  place,       \* message -> unsent, queued, unacked, acked or dead (in the DLQ)
  holder,      \* message -> the attempt whose delivery is unsettled, or 0
  deliveries,  \* message -> number of deliveries so far
  attempt,     \* message -> attempt -> where it is
  sentAt,      \* message -> when the broker accepted it, or Never
  markedAt,    \* message -> when its idempotency key was set, or Never
  executions,  \* message -> how often execute() was called
  output,      \* message -> status of the TaskOutput of execute(), or "none"
  announced,   \* message -> which of task.completed, task.failed were accepted
  now,
  faults

vars == <<body, place, holder, deliveries, attempt, sentAt, markedAt, executions,
          output, announced, now, faults>>
brokerVars == <<body, sentAt, deliveries, faults, now>>

Init ==
  /\ body \in [Tasks -> Bodies]
  /\ place = [t \in Tasks |-> "unsent"]
  /\ holder = [t \in Tasks |-> 0]
  /\ deliveries = [t \in Tasks |-> 0]
  /\ attempt = [t \in Tasks |-> [a \in Attempts |-> "none"]]
  /\ sentAt = [t \in Tasks |-> Never]
  /\ markedAt = [t \in Tasks |-> Never]
  /\ executions = [t \in Tasks |-> 0]
  /\ output = [t \in Tasks |-> "none"]
  /\ announced = [t \in Tasks |-> {}]
  /\ now = 0
  /\ faults = 0

-----------------------------------------------------------------------------
(* The broker. *)

agentVars == <<attempt, markedAt, executions, output, announced>>

Publish(t) ==
  /\ place[t] = "unsent"
  /\ place' = [place EXCEPT ![t] = "queued"]
  /\ sentAt' = [sentAt EXCEPT ![t] = now]
  /\ UNCHANGED <<body, holder, deliveries, agentVars, now, faults>>

Expired(t) == now >= sentAt[t] + MessageTTL

Deliver(t) ==
  /\ place[t] = "queued"
  /\ ~ Expired(t)
  /\ Cardinality({u \in Tasks : place[u] = "unacked"}) < Prefetch
  /\ deliveries' = [deliveries EXCEPT ![t] = @ + 1]
  /\ place' = [place EXCEPT ![t] = "unacked"]
  /\ holder' = [holder EXCEPT ![t] = deliveries[t] + 1]
  /\ attempt' = [attempt EXCEPT ![t][deliveries[t] + 1] = "received"]
  /\ UNCHANGED <<body, sentAt, markedAt, executions, output, announced, now, faults>>

\* The broker dead-letters a message that waited too long.
Expire(t) ==
  /\ place[t] = "queued"
  /\ Expired(t)
  /\ place' = [place EXCEPT ![t] = "dead"]
  /\ UNCHANGED <<body, holder, deliveries, sentAt, agentVars, now, faults>>

Requeue ==
  /\ faults < MaxFaults
  /\ faults' = faults + 1
  /\ \E t \in Tasks : place[t] = "unacked"
  /\ place' = [t \in Tasks |-> IF place[t] = "unacked" THEN "queued" ELSE place[t]]
  /\ holder' = [t \in Tasks |-> 0]

\* The connection is lost and restored (connect_robust); the attempts go on.
Disconnect ==
  /\ Requeue
  /\ UNCHANGED <<body, deliveries, sentAt, agentVars, now>>

\* The agent process dies and is started again.
Crash ==
  /\ Requeue
  /\ attempt' = [t \in Tasks |-> [a \in Attempts |->
       IF attempt[t][a] \in Live THEN "killed" ELSE attempt[t][a]]]
  /\ UNCHANGED <<body, deliveries, sentAt, markedAt, executions, output, announced, now>>

Tick ==
  /\ now < MaxTime
  /\ \A t \in Tasks, a \in Attempts : attempt[t][a] # "received"
  /\ now' = now + 1
  /\ UNCHANGED <<body, place, holder, deliveries, sentAt, agentVars, faults>>

\* Redis evicts the key, or restarts from a snapshot older than it.
Forget(t) ==
  /\ RedisForgets
  /\ markedAt[t] # Never
  /\ markedAt' = [markedAt EXCEPT ![t] = Never]
  /\ UNCHANGED <<place, holder, brokerVars, attempt, executions, output, announced>>

-----------------------------------------------------------------------------
(* EventConsumer._on_message: an attempt a at message t. *)

GoOn(t, a, next) ==
  /\ attempt' = [attempt EXCEPT ![t][a] = next]
  /\ UNCHANGED <<place, holder>>

\* Mutant: a stale ack or nack is taken for the current delivery.
Settle_Stale(t, a, how) ==
  /\ attempt' = [attempt EXCEPT ![t][a] = "ended"]
  /\ place' = [place EXCEPT ![t] = how]
  /\ UNCHANGED holder

\* Mutant: no nack, the exception leaves the message unsettled.
Settle_NoNack(t, a, how) ==
  /\ attempt' = [attempt EXCEPT ![t][a] = "ended"]
  /\ IF holder[t] = a /\ how = "acked"
     THEN /\ place' = [place EXCEPT ![t] = how]
          /\ holder' = [holder EXCEPT ![t] = 0]
     ELSE UNCHANGED <<place, holder>>

\* The end of message.process(): the ack or nack of an attempt whose delivery
\* the broker has taken back has no effect.
Settle(t, a, how) ==
  /\ attempt' = [attempt EXCEPT ![t][a] = "ended"]
  /\ IF holder[t] = a
     THEN /\ place' = [place EXCEPT ![t] = how]
          /\ holder' = [holder EXCEPT ![t] = 0]
     ELSE UNCHANGED <<place, holder>>

\* json.loads fails: _dispatch returns, and the message is acked.  A JSON value
\* that is not an object raises, and the message is nacked.
DropUnreadable(t, a) ==
  /\ attempt[t][a] = "received"
  /\ body[t] \in Unreadable
  /\ Settle(t, a, IF body[t] = "malformed" THEN "acked" ELSE "dead")
  /\ UNCHANGED <<brokerVars, markedAt, executions, output, announced>>

Seen(t) == markedAt[t] # Never /\ now < markedAt[t] + MarkerTTL

\* Mutant: is_seen for check_and_mark, the key is never set.
Mark_Never(t) == UNCHANGED markedAt

Mark(t) == markedAt' = [markedAt EXCEPT ![t] = IF Seen(t) THEN @ ELSE now]

\* check_and_mark says duplicate.
SuppressDuplicate(t, a) ==
  /\ attempt[t][a] = "received"
  /\ body[t] \notin Unreadable
  /\ Seen(t)
  /\ Settle(t, a, "acked")
  /\ UNCHANGED <<brokerVars, markedAt, executions, output, announced>>

\* check_and_mark raises; the key may have been set.
CheckRaises(t, a) ==
  /\ attempt[t][a] = "received"
  /\ body[t] \notin Unreadable
  /\ Mark(t) \/ UNCHANGED markedAt
  /\ Settle(t, a, "dead")
  /\ UNCHANGED <<brokerVars, executions, output, announced>>

\* check_and_mark says new: the handler is looked up, the event and the task
\* are validated and execute() is called without another await.
Accept(t, a) ==
  /\ attempt[t][a] = "received"
  /\ body[t] \notin Unreadable
  /\ ~ Seen(t)
  /\ Mark(t)
  /\ \/ /\ body[t] \in {"other_type", "bad_task"}
        /\ Settle(t, a, "acked")
        /\ UNCHANGED executions
     \/ /\ body[t] = "bad_event"
        /\ Settle(t, a, "dead")
        /\ UNCHANGED executions
     \/ /\ body[t] = "task"
        /\ GoOn(t, a, "executing")
        /\ executions' = [executions EXCEPT ![t] = @ + 1]
  /\ UNCHANGED <<brokerVars, output, announced>>

-----------------------------------------------------------------------------
(* BaseAgent._process_task. *)

\* execute() returns an output, with status completed or failed, or raises.
Execute(t, a) ==
  /\ attempt[t][a] = "executing"
  /\ \/ /\ GoOn(t, a, "announcing")
        /\ \E s \in {"completed", "failed"} : output' = [output EXCEPT ![t] = s]
     \/ GoOn(t, a, "apologising") /\ UNCHANGED output
  /\ UNCHANGED <<brokerVars, markedAt, executions, announced>>

Tell(t, event) == announced' = [announced EXCEPT ![t] = @ \cup {event}]

\* Whatever the status of the output, the event is task.completed.
Announce(t, a) ==
  /\ attempt[t][a] = "announcing"
  /\ Tell(t, "task.completed")
  /\ Settle(t, a, "acked")
  /\ UNCHANGED <<brokerVars, markedAt, executions, output>>

\* publish raises, before or after the broker accepted the event.
AnnounceRaises(t, a) ==
  /\ attempt[t][a] = "announcing"
  /\ Tell(t, "task.completed") \/ UNCHANGED announced
  /\ GoOn(t, a, "apologising")
  /\ UNCHANGED <<brokerVars, markedAt, executions, output>>

Apologise(t, a) ==
  /\ attempt[t][a] = "apologising"
  /\ Tell(t, "task.failed")
  /\ Settle(t, a, "acked")
  /\ UNCHANGED <<brokerVars, markedAt, executions, output>>

\* Mutant: the error of the second publish is swallowed too.
ApologiseRaises_Swallowed(t, a) ==
  /\ attempt[t][a] = "apologising"
  /\ Tell(t, "task.failed") \/ UNCHANGED announced
  /\ Settle(t, a, "acked")
  /\ UNCHANGED <<brokerVars, markedAt, executions, output>>

\* publish raises out of the handler: the message is nacked.
ApologiseRaises(t, a) ==
  /\ attempt[t][a] = "apologising"
  /\ Tell(t, "task.failed") \/ UNCHANGED announced
  /\ Settle(t, a, "dead")
  /\ UNCHANGED <<brokerVars, markedAt, executions, output>>

-----------------------------------------------------------------------------
OnMessage(t, a) ==
  DropUnreadable(t, a) \/ SuppressDuplicate(t, a) \/ CheckRaises(t, a) \/ Accept(t, a)

ProcessTask(t, a) ==
  \/ Execute(t, a) \/ Announce(t, a) \/ AnnounceRaises(t, a)
  \/ Apologise(t, a) \/ ApologiseRaises(t, a)

\* Everything settled and the clock at its bound.
Quiet ==
  /\ \A t \in Tasks : place[t] \in {"acked", "dead"}
  /\ \A t \in Tasks, a \in Attempts : attempt[t][a] \notin Live
  /\ now = MaxTime
  /\ UNCHANGED vars

Next ==
  \/ \E t \in Tasks : Publish(t) \/ Deliver(t) \/ Expire(t) \/ Forget(t)
  \/ Disconnect \/ Crash \/ Tick
  \/ \E t \in Tasks, a \in Attempts : OnMessage(t, a) \/ ProcessTask(t, a)
  \/ Quiet

Spec == Init /\ [][Next]_vars

(***************************************************************************)
(* The broker delivers or expires what it holds, the event loop runs every *)
(* attempt, and execute() ends (the agents call an LLM with a timeout).    *)
(***************************************************************************)
Fairness ==
  \A t \in Tasks :
    /\ WF_vars(Deliver(t)) /\ WF_vars(Expire(t))
    /\ \A a \in Attempts : WF_vars(OnMessage(t, a) \/ ProcessTask(t, a))

FairSpec == Spec /\ Fairness

-----------------------------------------------------------------------------
(* Properties. *)

\* Types; a message is in the agent's hands exactly when an attempt holds it.
TypeOK ==
  /\ body \in [Tasks -> Bodies]
  /\ place \in [Tasks -> {"unsent", "queued", "unacked", "acked", "dead"}]
  /\ holder \in [Tasks -> Attempts \cup {0}]
  /\ \A t \in Tasks : place[t] = "unacked" <=> holder[t] # 0
  /\ deliveries \in [Tasks -> 0 .. MaxFaults + 1]
  /\ attempt \in [Tasks -> [Attempts -> Live \cup {"none", "ended", "killed"}]]
  /\ sentAt \in [Tasks -> 0 .. MaxTime \cup {Never}]
  /\ markedAt \in [Tasks -> 0 .. MaxTime \cup {Never}]
  /\ executions \in [Tasks -> Nat]
  /\ output \in [Tasks -> {"none", "completed", "failed"}]
  /\ announced \in [Tasks -> SUBSET {"task.completed", "task.failed"}]
  /\ now \in 0 .. MaxTime
  /\ faults \in 0 .. MaxFaults

\* "Prevents duplicate event/task execution" (idempotency.py:4): lost connections,
\* crashes and redeliveries never make an agent execute a task twice.
ExecutedAtMostOnce == \A t \in Tasks : executions[t] <= 1

\* Why: the key of an executed task lives as long as the broker may still deliver
\* the message (ttl_seconds against x-message-ttl, consumer.py:85).
MarkerOutlivesMessage ==
  \A t \in Tasks :
    executions[t] > 0 /\ place[t] = "queued" /\ ~ Expired(t) => Seen(t)

\* A task that the agent got once and acked was answered with an event, whatever
\* execute() and the publishers did (base_agent.py:264-326).
AckedIsAnswered ==
  \A t \in Tasks :
    body[t] = "task" /\ deliveries[t] = 1 /\ place[t] = "acked" => announced[t] # {}

\* The TTL of the message, the key in Redis, the settling of stale deliveries and the
\* two publishes work together: the messages go through the broker as DeliveryPromise
\* says, also when Redis loses keys.
Promise == INSTANCE DeliveryPromise WITH
  KeysAreLost <- RedisForgets,
  state <- [t \in Tasks |-> IF place[t] \in {"queued", "unacked"} THEN "open" ELSE place[t]],
  real <- {t \in Tasks : body[t] = "task"},
  again <- {t \in Tasks : deliveries[t] > 1},
  claimed <- {t \in Tasks : markedAt[t] # Never},
  runs <- executions,
  told <- announced

KeepsItsPromise == Promise!Spec

\* "one bad message won't kill the consumer" (consumer.py:9): every message that
\* reached the queue is acked or dead-lettered in the end.
EveryMessageIsSettled ==
  \A t \in Tasks : place[t] = "queued" ~> place[t] \in {"acked", "dead"}

-----------------------------------------------------------------------------
(* What documentation says and the code does not do. *)

\* README.md:226 says "Failures are normal - retry, circuit breaker, DLQ,
\* fallback": a task whose agent died is not lost without an event and without a
\* dead letter.
NoSilentLoss ==
  \A t \in Tasks :
    /\ body[t] = "task"
    /\ \E a \in Attempts : attempt[t][a] = "killed"
    /\ place[t] = "acked"
    /\ \A a \in Attempts : attempt[t][a] \notin Live
    => announced[t] # {}
=============================================================================
