# Verification of the AgentOS platform

TLA+ models of the services, the messaging library and the agents of this repository,
TLC configurations that check them on small instances, and TLAPS proofs about them.
Paths are relative to the repository (`src/` in `PROJECT.json`); `main.py` alone means
the service under discussion.

## 1. The system

A client asks the **orchestrator** for a workflow. The orchestrator inserts a row
through the **workflow service**, plans a graph, and sends every node of it, wave by
wave, as a `task.created` event to an agent found in the **registry**. An **agent**
consumes its queue, executes the task and announces the outcome; the orchestrator polls
the row of the task. Reviewers answer requests at the **approval service**; the
**ingestion agent** publishes articles on a schedule of its own.

| Part | State | Operations | Interacts with |
|---|---|---|---|
| orchestrator: graph (`services/orchestrator/main.py` 254-418) | locals of `_execute_graph`: pending, completed, failed | `_execute_graph`, `_execute_node`, `_wait_for_task` | registry, workflow service (HTTP), agents (events) |
| orchestrator: API (119-252) | background tasks, gauge of active workflows | create, cancel, `_execute_workflow` | workflow service |
| planner, router | none | turn an LLM's answer into a graph; choose an agent | LLM, registry |
| workflow service | rows of `workflows` and `tasks` | create, patch, cancel | PostgreSQL |
| messaging (`shared/messaging`) | deliveries, idempotency keys in Redis | publish, consume, deduplicate | RabbitMQ, Redis |
| agent runtime (`agents/base`) | running flag, registration | register, process a task, heartbeat | registry, broker |
| news ingestion agent | `_seen_ids` | scheduled loop, `rss_fetch` | feeds, broker |
| news clustering agent | `_clusters` | cluster an article around a call of the LLM | LLM, broker |
| other agents | none | one prompt, one answer | LLM, broker |
| agent registry | `_agent_store` per worker process: status, breaker, last heartbeat | register, heartbeat, discover, deregister, breaker, monitor | agents, orchestrator |
| approval service | rows of `approval_requests`; gauge and WebSockets per worker | create, decide, expire | PostgreSQL, broker |
| policy service | rows of `policies` | evaluate, upsert | PostgreSQL |
| API gateway | rate-limit counters in Redis | authenticate, limit, proxy | all services |
| memory service | hashes in Redis, rows of `memory` | store, search, archive, delete | Redis, PostgreSQL |

What is hard in it, and the properties each part owes (the hazards in `PROJECT.json`
name the lines):

- **graph**: coroutines of a wave interleave at every await, time out while tasks still
  answer, and fail one by one; graphs may have cycles and dangling dependencies.
  Owed: dependency order, one event per node, containment of failures, sound and
  not premature verdicts, an end.
- **delivery**: redelivery while the first attempt is still running, crashes between
  marking and executing, keys that expire, publications that raise. Owed: at most one
  execution, an answer for what is acked, a settlement for every message.
- **registry**: a monitor with a period races with heartbeats, registrations and manual
  settings. Owed: discovery of the recently heard only, no shortcut out of an open
  breaker, no exclusion for ever.
- **lifecycle**: reports that are lost, late or applied after later ones, cancellations,
  repeated requests, crashes. Owed: rows that tell the truth, terminal rows, one row per
  key, an exact gauge.
- **approvals**: reading and writing in two transactions, several reviewers, a monitor
  in every worker, exceptions halfway. Owed: one final answer, its event, an expiry.
- **ingestion**: many jobs share one set across awaits. Owed: one publication per
  article, nothing held back without a reason, a loop that goes on.
- **memory**: two calls make a key and its time to live, one store after the other is
  searched while keys run out and rows change. Owed: no key without an end, nothing found
  that was gone before the search, nothing archived in an answer.
- **clustering and the other agents**: a dict is read before the await on the LLM and
  changed after it by several tasks; items are published one by one and any call may
  raise. Owed: events that show what the clusters hold, reports that fit what was
  announced, an end.
- **gateway**: two calls make a counter and its expiry, requests of one caller interleave
  between them. Owed: a bound on what passes in a window, no refusal without cause,
  counters that run out, an answer.

## 2. Modules

| Module | Models | EXTENDS or INSTANCE |
|---|---|---|
| `DagSchedule` | abstract: what executing a graph promises | |
| `GraphExecution` | execution of one graph by the orchestrator | `DagSchedule` (refinement mapping) |
| `DeliveryPromise` | abstract: what broker, consumer and agent promise about a message | |
| `TaskDelivery` | an event from the broker through consumer, deduplication and agent | `DeliveryPromise` (refinement mapping) |
| `DiscoveryPromise` | abstract: what the registry promises about an entry of its stores | |
| `AgentRegistry` | registry workers, agents' registration and heartbeats | `DiscoveryPromise` (refinement mapping) |
| `WorkflowPromise` | abstract: what orchestrator and workflow service promise about a request | |
| `WorkflowLifecycle` | requests across orchestrator and workflow service | `WorkflowPromise` (refinement mapping) |
| `ApprovalService` | approval requests, decisions, expiry, gauges | |
| `NewsIngestion` | the ingestion agent | |
| `MemoryPromise` | abstract: what storing and searching memories promises | |
| `MemoryService` | working memory in Redis, rows in PostgreSQL, searches | `MemoryPromise` (refinement mapping) |
| `NewsClustering` | the story clusters that the tasks of the clustering agent share | |
| `AgentExecution` | `execute` of the eight agents that ask an LLM | EXTENDS `NewsClustering` |
| `ApiGateway` | token, rate limit and proxied call of a request | |
| `MC...` | constants for TLC | the module |
| `...Proofs` | theorems and proofs | the module, `TLAPS` |

A step of a model is the code between two awaits, so that whatever the event loop or
another process may do in between is a behaviour of the model. `map` in `PROJECT.json`
gives the lines of every definition. Definitions marked *Mutant* are not part of a
specification: each is a plausible slip in the definition that follows it, and shows
that the property listed with it in `PROJECT.json` would notice.

**GraphExecution.** The graph is any `depends_on` function over the nodes and unknown
names, chosen in `Init`. `loop` is where `_execute_graph` is, `step[n]` where the
coroutine of a node is: discovering, publishing, waiting, returned or raised. Discovery
may find nobody, and a publication may raise before or after the broker has it. Rows of tasks have no writer in the
repository, so any client may write any status at any time. `DagSchedule` knows only
waiting, running, done and failed nodes and a verdict; a coroutine anywhere between
start and end is *running*.

**TaskDelivery.** A message is unsent, queued, unacked, acked or dead. An attempt is one
call of `_on_message`: received (up to the idempotency check), executing, announcing,
apologising (publishing `task.failed`). A lost connection requeues what is unsettled
while attempts go on; a crash kills them. Time counts in units that are long compared
to a Redis call. `DeliveryPromise` knows neither time, nor attempts, nor connections: a
message is unsent, open, acked or dead, its key is set or not, its task has run so many
times, and events were told of it. An attempt is its `Serve`, whatever part of it a step is:
taking the key and running the task, telling, settling. A queued and an unacked message
are both open, so that faults are stutters; a delivery is a stutter or `DeliverAgain`.

**AgentRegistry.** Time is in ticks of 30 s; entries are kept per worker; ages are
counted to a cap beyond which nothing distinguishes them. The agents' side is
`RegistryClient` and the heartbeat loop; any other client of the endpoints may report,
deregister and set breakers as well. In the repository's own agents the body of a
heartbeat cannot be encoded (section 6), so their `Beat` never reaches the registry.
`DiscoveryPromise` has no monitor, no period and no statuses: an entry is trusted or not, was
heard so many ticks ago, and has a breaker. Trust ends with a lease, which is threshold,
period and delay together, and not before the threshold; the promise's time may not pass over
a lease, and that the monitors see to it is what the refinement shows.

**WorkflowLifecycle.** HTTP requests between the services are messages, applied while
the orchestrator waits, refused, lost, or applied after it stopped waiting. The
execution of the graph is one choice of verdict here. GraphExecution starts where
`Execute` stands. `WorkflowPromise` has no messages: a workflow has a row, a course (none,
asked, running, reporting, over or stopped) and a verdict, and one `Turn` may change its row
and answer who waits for the change, because the row is written and the answer taken in
one step of the service. `Course` maps the stages of the orchestrator, a crash is `Stop`. The
promise says when a row may read what, and not that a cancellation lasts, because later
reports overwrite it (section 6).

**ApprovalService.** A call of `decide` reads the row (`Check`), writes it in a second
transaction (`Write`), lowers its worker's gauge and publishes. The monitors' UPDATE is
one step; each row it returned is lowered in a step of its own, and a broadcast that
raises skips the rest. Either UPDATE may be committed and still raise, its answer lost
(`WriteRaises`, `ExpireRaises`): rows have moved, and no gauge will. A decision is any status the table accepts, as the schema does
not restrict it; `amiss` records the writes that did not take a row from pending to an
answer, and `skewed` that an error or a crash left a gauge wrong; both are read by
properties only, and `GaugesAddUp` holds as long as neither happened. Building the event may raise as well: the
row's UUIDs are given to string fields.

**NewsIngestion.** A job is one call of `_fetch_feed`, belonging to the loop or to a
task. `sending` is the article it awaits the publication of. `times` and `spoilt` record
publications and failures since the start, and are read by properties only.

**MemoryService.** A call that stores working memory is before HSET, between HSET and
EXPIRE, *late* once a tick fell between the two, or over; `ttl` and `hash` are the keys
of Redis with its own rules for the two commands. A search scans key by key, selects,
counts accesses and falls back, one step per await; which candidates match is a choice.
`lost` and `stowed` record what was gone or archived when the search began, and are read
by properties only. `MemoryPromise` knows neither stores nor keys: memories are absent,
kept or gone, and a search finds what was kept at some time since it began. The mapping
is `LifeOf`; a step of the service that ends the life of several memories at once
(a tick) is one step of the promise.

**NewsClustering, AgentExecution.** A process is one agent, chosen in `Init`, with
concurrent tasks; a task is idle, asking the LLM, publishing or ended, and `out` is how:
a `TaskOutput` completed or failed, or an exception. Each agent has its `...Refusal` (how
it may end before it asks) and `...Outcome` (how each kind of answer ends it); research
and claims build and publish items, one step per publication, and clustering changes
`NewsClustering`. A cluster is named by the task that made it. The answer may name any
cluster there is when it is looked up, shown in the prompt or not. An addition is whole
(`AddTo`), or stops between the append and the publication when the entry cannot be
built (`AddHalfway`). `Announce` takes the
payload when `publish` is called, so that events show the cluster as it was then.
`spoilt`, `halfway` and `announced` are read by properties only. `TaskDelivery` starts where `out`
ends: what it calls executing is one task here.

**ApiGateway.** A handler takes one request after another; `count` and `ttl` are the
caller's key in Redis with the rules of INCR and EXPIRE; `recent` counts what passed in
the last n ticks, for every n up to a window and its delay, and is read by properties
only. Its definitions carry the module's name where those of another module have the same,
so that both can be proved about in one place.

## 3. Runs and bounds

| Run | Instance | Shows |
|---|---|---|
| `graph` | every graph over 3 nodes and 1 dangling name | order, containment, completed is sound, refinement of `DagSchedule`, termination |
| `delivery_safety` | 2 tasks, prefetch 2, both TTLs 2, clock to 3, 1 fault, durable Redis | at most one execution |
| `delivery_liveness` | 2 tasks, prefetch 1, 1 fault, Redis forgets | refinement of `DeliveryPromise`, every message is settled |
| `delivery_silent_loss` | 1 task, 1 fault | *violated*: no silent loss |
| `registry` | 1 agent, 1 worker, the code's thresholds | refinement of `DiscoveryPromise`, return to discovery |
| `lifecycle` | 2 requests, 1 key, 1 lost or late message, 1 crash | truthful and terminal rows, refinement of `WorkflowPromise`, an end |
| `approval` | 2 requests, 2 workers, 2 decisions on one request, 1 crash | one final answer, gauges add up, expiry |
| `approval_decided` | 1 request, 2 decisions | *violated*: only pending requests move |
| `ingestion` | 2 feeds, 2 articles, the loop and a task, 1 failure, 1 restart | one publication, nothing held back, no double count, the loop meets every article |
| `memory` | 2 working memories under 1 key, 1 row, 1 search, TTL 2, 2 faults | no key without an end, archived found by text only, refinement of `MemoryPromise` |
| `agents` | each of 8 agents, 3 tasks with 2 articles, 2 items, 1 failure | reports fit announcements, clusters announced in full, one timeline entry per article, an end |
| `gateway` | 2 handlers of 1 caller, limit 2, window 2, counter to 4, 1 fault | at most two limits in a window, refusals have a cause, counters run out, an answer |

Why these are enough. Three nodes make chains, forks, joins, self-loops, two- and
three-cycles and transitive failure. Two messages are needed for one to occupy the
prefetch slot of another; one fault makes a second attempt while the first runs, and
TTLs of two units make keys and messages expire at different moments. Breaker and
recency are per entry of one worker, so that one entry with the real thresholds shows
more than several with small ones. Two requests share or do not share a key. Two
decisions on one request, and the monitors, are the race; the second request is there
for the monitor's loop. Two jobs of one article are the race of ingestion, the second
article makes a job fail halfway. Two calls under one key are the race of HSET and EXPIRE;
TTLs and windows of two ticks leave room for a tick between the two calls and one after.
Three tasks, two of them with one article, make one cluster that two of them change, or
two clusters for the third to choose from, and a cluster that has the article already;
two items make an answer that is sound in part. Two requests of one caller overlap
between INCR and EXPIRE and a third is beyond the limit. Most of the safety properties
are proved without bounds (section 5).

Deadlock is checked where a behaviour goes on for ever; `lifecycle`, `approval`,
`approval_decided`, `memory` and `agents` have behaviours that simply end and say so.

## 4. Fairness

Only what the event loop and the brokers justify is weakly fair:

- `graph`: the loop and every coroutine. Nothing is assumed of task rows: the deadline
  of 120 s ends the waiting.
- `delivery`: delivery, expiry and every attempt. Faults are not fair.
- `registry`: time, the monitor and heartbeats of clients that send them.
- `lifecycle`: background tasks, the application of messages and of cancellations found.
- `approval`: the monitor of each worker (`while True`, exceptions caught, restarted with
  its worker). Reviewers and creators are not fair.
- `ingestion`: startup, the loop, and the jobs; tasks and the feeds are not fair.
- `agents`: a task that has begun goes on, because the HTTP client of the LLM has a
  timeout (`mistral_provider.py:25`) and the publisher returns or raises.
- `gateway`: handlers, whose client has a timeout of 30 s, and time; the services behind
  owe no answer. Two things are assumed that no timeout of the code enforces: a call of
  Redis returns or raises, and the body of a request arrives (`await request.body()`,
  `api-gateway/main.py:285`, lies before the timeout of the proxied call).
- `memory`: none, its properties are safety.

Failures and crashes are bounded by `MaxFaults`, `MaxCrashes`, `MaxRestarts`, manual
settings of breakers by `MaxManual`, the clock of deliveries by `MaxTime`, a counter of
the gateway by `MaxCount`, items by `MaxItems`, the life of a row by `MaxLeft`. A liveness
property therefore says: when the faults are over, it happens.

## 5. Proofs

All theorems hold for any values of the constants that satisfy the named assumptions of
the module, which state the constants' types and, for `TaskDelivery`, that the key lives
at least as long as the message, as the code's two values of 86400 s do.

| Module | Theorems | Inductive invariant and why |
|---|---|---|
| `GatewayAndGraphProofs` (graph) | `TypeCorrect`, `DispatchOrder`, `FailureIsContained`, `CompletedIsSound`, `VerdictIsMaximal`, `OutcomesFinal`, `Refinement` | Nodes are partitioned by pending, wave, completed and failed, which decides `step`; what was started has its dependencies completed. Containment needs an argument about sets closed under dependents, soundness one about well-foundedness. `Refinement` maps every step to a step or a stutter of `DagSchedule`. |
| `GatewayAndGraphProofs` (gateway) | `GatewayTypes`, `GatewayBounded`, `GatewayRefusesForCause` | Bound (`WindowInv`): without a fault what a key has let through is its count, cut off at the limit, all of it in the ticks that its ttl says have gone; within a window's length there is at most the window before it as well, which let through one limit. Cause (`KeyInv`): a key without an expiry has a request on its way to set one, and what the window of a key let through is still in sight, of a window and the delay of one EXPIRE. |
| `TaskDeliveryProofs` | `TypeCorrect`, `AtMostOnce`, `MarkerOutlives`, `AcksAreAnswers`, `KeptIsSeen`, `Refinement`, `PromiseIsWorth` | A message just delivered has been in the queue for less than its TTL, and its key was set no earlier than the message was sent: so the key of an executed task is still there at a delivery. Those two assume `~RedisForgets`. `AcksAreAnswers` does not: no key is set before the first attempt accepts its message, so that attempt is never taken for a duplicate, and it acks only after it told of the task. Nor does `Refinement`: a key is set while its message is in hand (`MarkedFromHere`), so a key that was kept is valid in every delivery that is in time (`KeptIsSeen`), and who works on a task has run it (`WorkIsRun`). Each step of an attempt is split into what it does to the key, to the events and to the message. |
| `AgentRegistryProofs` | `TypeCorrect`, `DiscoveryIsRecent`, `BreakerPath`, `Refinement`, `PromiseIsWorth` | Between two passes an entry that is healthy or degraded was heard at most the threshold plus the time since the last pass ago; a pass re-establishes it. `Refinement` maps a pass to `Review` of the worker's silent and half-opened entries and a tick to `Pass`, which the invariant of the state after it allows. |
| `WorkflowLifecycleProofs` | `TypeCorrect`, `GaugeExact`, `RowIsTruthful`, `KeyIsUnique`, `EndedIsTold`, `Refinement`, `PromiseIsWorth` | What a message on its way says is what its sender knows, and a stage that waits has its message on its way unless a fault took it; rows follow from the messages applied. For `Refinement` what is sent is due also after the orchestrator went on: an INSERT on its way has no row yet, and a report of the graph was sent by an accepted workflow and, without a fault, before its verdict (`MessagesAreDue`), and nobody has a row before it asked (`NewIsBlank`). |
| `ApprovalServiceProofs` | `TypeCorrect`, `OneAnswer`, `AnsweredForGood`, `GaugesBalance` | Published calls have written; a call that has not written is not counted as such; a write that was not amiss left pending. A second write to a request found an answer and is amiss itself. The gauges are a sum over workers, and no induction over the set of workers is available: the lemma `TotalEquation` (the sum over a set with one more member) is shown by a least counterexample among the cardinalities of its subsets, and with it each action is an exchange of one between a gauge, the pending rows and the calls on their way (`TallyInv`). |
| `NewsIngestionProofs` | `TypeCorrect`, `OneJobPerArticle` | An article being published is marked, not published and not spoilt, and only one job has it; whatever was published is marked. |
| `MemoryServiceProofs` | `TypeCorrect`, `KeysRunOut`, `ArchivedStaysOut`, `Refinement` | Without a fault a key loses its call that is about to set an expiry only to that expiry. What is kept was stored (`StoredInv`), a row that is gone or archived never comes back, and what a search has selected or found was not gone when it began (`SearchInv`). `Refinement` maps steps of the stores to `Turn`, of a search to `Begin`, `Find` or a stutter. |
| `AgentExecutionProofs` | `TypeCorrect`, `TimelineMatchesArticles`, `ArticlesAreAnnounced`, `ReportsFit` | A step either is one of five that touch the clusters or leaves them alone. A payload under way holds its article and is shown, or spoilt by a task that has ended, and a task that raised halfway has ended with its cluster, so that neither witness is lost; an addition counts one article more and, in the same step, one entry or one such task; published items are among the sound ones. |

The three theorems `PromiseIsWorth` are about the abstract specifications alone: they say
that whatever implements `DeliveryPromise` answers what it acks after one delivery and, if no key is
lost, runs no task twice; that whatever implements `DiscoveryPromise` hands out only who was
heard within the lease; and that whatever implements `WorkflowPromise` keeps rows
truthful, unique for their key, and terminal without a fault. The promises are thereby shown to
be worth as much as the invariants that are proved of the detailed modules directly.

Every safety invariant, action property and refinement that a passing run checks is also
proved. Proved and not part of a run (TLC would only repeat it): `VerdictIsNotEarly` and
`OutcomesAreFinal` of the graph, `MarkerOutlivesMessage` and `AckedIsAnswered` of the
delivery, `DiscoverableIsRecent` and `NoShortcutToClosed` of the registry, `GaugeIsExact`,
`RunIsRecorded` and `OneRowPerKey` of the lifecycle.

Only model-checked: the nine liveness properties (`Terminates`, `EveryMessageIsSettled`,
`ComesBack`, `AcceptedEnds`, `OverdueExpires`, `EveryArticleIsMet`, `EveryTaskEnds`,
`CountsRunOut`, `EveryRequestIsAnswered`), since the prover has no reasoning about
fairness and ENABLED. The two properties of the runs that expect a violation
are false of the code (section 6).

## 6. Where code and documentation disagree

Shown by a run:

- `delivery_silent_loss`: the key is set before the work; the agent dies while it executes
  the task, and the redelivery is a duplicate, acked and never executed
  (`consumer.py:135`).
- `approval_decided`: a request that expired between the two transactions of a decision
  is overwritten by the decision (`approval-service/main.py:225`).

Met while modelling, without a run of their own:

- With a cycle or a dangling dependency the loop stops and marks the workflow completed,
  although nodes never ran (`orchestrator/main.py:276`); `CompletedMeansAllRan` holds on
  graphs without either only.
- The body of a heartbeat holds a `datetime` that JSON cannot encode, and the exception
  is swallowed (`registry_client.py:74-78`): a running agent is never heard again.
- Cancelling writes a row and stops nothing; later reports overwrite it
  (`orchestrator/main.py:177`), against "Cancel a running workflow" (`:175`).
- Storing working memory over an old key keeps that key's time to live until EXPIRE: when
  it runs out between the two calls, what was just stored is gone
  (`memory-service/main.py:147`), against "Store in Redis with TTL" (`:137`). When EXPIRE
  fails the key stays for ever.
- `delete_memory` answers "deleted" whatever it found, and never removes working memory
  (`:396-404`). The text search ignores `archived` and `min_score` (`:359-368`). A failed
  count of accesses drops the rows already selected (`:350`). A search without types never
  looks at working memory (`:208`). The tenant "default" is no UUID, as the table wants.
- The clusters shown to the LLM as "recent" are the first ten ever made
  (`news-clustering-agent/agent.py:88`, `:101`); a later one gets an article only if the
  LLM names an id it was not shown, which `:144` accepts. No property is stated of it.
- An article is appended to its cluster before its timeline entry is built (`:147-156`):
  an entry that raises leaves it there, unannounced and without an entry, and the next
  task with it reports "added_to_existing" and announces nothing. A publication that
  raises leaves the change too (`:158`).
- The research agent has announced evidence when a later item fails its task
  (`research-agent/agent.py:164-182`).
- One failed EXPIRE at the gateway, and the caller is refused for ever once it reached
  the limit (`api-gateway/main.py:142`), against "Redis failure → allow request" (`:151`).
  `POST /workflows` and the other paths without a second segment match no route of the
  gateway but its redirect; `/evaluate` of the policy service is not reachable through it.
- The policy service decides by priority only, against "1. Exact action match, 2. Pattern
  match" (`policy-service/main.py:7`).
- A task row with status failed or dead completes its node (`orchestrator/main.py:380`);
  `max_retries` of a node is never used (`:342`), against "Handle failures, retries,
  fallbacks" (`:10`).
- Malformed JSON is acked, where the comment says "goes to DLQ" (`consumer.py:128`); a
  TaskOutput with status FAILED is announced as `task.completed` (`base_agent.py:269`);
  queues `tasks.<agent_id>` are not in `definitions.json`, as `consumer.py:87` says.
- Redis evicts any key (`docker-compose.yml`, allkeys-lru), those against duplicates too.
- The registry's store is in memory, one per worker, and images start two workers; a
  breaker half-opens at the first pass after an agent is heard, not "after 2 minutes"
  (`agent-registry/main.py:336`); the planner's list of capabilities ignores breakers.
- A repeated idempotency key makes no row, but is answered with a new id and executed
  again (`workflow-service/main.py:88`).
- SQL such as `:graph::jsonb` or `:metadata::jsonb` in `text()` may not be taken for a
  bind parameter, in which case those INSERTs fail; a failed INSERT is an outcome of the models.
- A decision may be any status: "pending" reopens a request, and is announced as
  `human.rejected`. No part of the repository consumes `human.*`, so nothing resumes
  (`approval-service/main.py:241`). Each worker tells only its own WebSockets.
- `_seen_ids` is "backed by Redis in production" only in a comment (`news-ingestion-agent/agent.py:79`).
- The rate limiter is a fixed window, called sliding (`api-gateway/main.py:132`).
- `max_retries` counts attempts, documented as one more (`retry.py:97`); no part uses
  `retry_with_policy` (`retry.py:4` names two).
- The planner's system prompt goes through `str.format` with unescaped braces
  (`planner.py:111`), outside the `try`: with an agent registered, planning raises.
- Creating a policy again does not update its roles and priority.

## 7. What is not modelled, and why

- Payloads, scores, prompts, ranking, header and body encoding: data no property reads.
- Login (cryptography over a table that nothing in `src/` writes), the gateway's WebSocket
  proxy, embeddings, the LLM itself: external calls that answer or raise where it matters.
- Rows of tasks as a history: `create_task` and `update_task` have no caller.
- WebSockets of the approval service: a broadcast is only whether it raises.
- The planner: all code after its `str.format` is unreachable when there is an agent to
  plan for (section 6), and without one its answer is a constant chain of three nodes.
  `GraphExecution` takes every graph.
- The policy service: one query and a pass over its rows, or one upsert; nothing in it
  interleaves, and no other part asks it.
- Services and agents that are named in `docker-compose.yml` and have no source
  (evidence, verification, evaluation, notification; document, data, finance and others).
- The frontend reads and displays.

## 8. What could come next

1. Composition of `TaskDelivery` with `GraphExecution`: an abstract task channel that the
   delivery implements and the graph uses, once some service writes task rows.
2. The policy service as an operator: first match by priority against a declarative
   definition, and what an upsert leaves behind.
3. The planner with `GraphExecution`, once its prompt can be formatted: no dangling
   dependency leaves it, so that completed is sound for graphs without cycles.
4. Abstract promises of the approvals and the ingestion, whose properties are stated and
   proved of the detailed modules only.
