---------------------------- MODULE AgentRegistry ----------------------------
(***************************************************************************)
(* The agent registry: who is registered, who is alive, whose circuit      *)
(* breaker is open, and whom discovery hands out                           *)
(* (src/services/agent-registry/main.py), together with the side of the    *)
(* agents that talks to it (src/agents/base/registry_client.py and         *)
(* base_agent.py).                                                         *)
(*                                                                         *)
(* Every worker process of the service keeps a store of its own; a request *)
(* reaches any of them.  Handlers and the monitor's pass contain no await  *)
(* and are atomic.  Time passes in ticks; ages are capped at AgeCap, above *)
(* which no comparison tells them apart.  The row of table agents, which   *)
(* no code reads, is left out, and so are latency and reliability, which   *)
(* only order the answer of discovery.                                     *)
(***************************************************************************)
EXTENDS Integers, FiniteSets

CONSTANTS
  Agents,
  Workers,        \* uvicorn worker processes of the registry
  Threshold,      \* UNHEALTHY_THRESHOLD_SECONDS, in ticks
  Window,         \* the 120 seconds of the monitor, in ticks
  Period,         \* the monitor's sleep, in ticks
  Slack,          \* how late the event loop may run the monitor, in ticks
  Interval,       \* agent_heartbeat_interval, in ticks
  RegisterTries,  \* attempts of RegistryClient.register
  MaxManual       \* bound: manual settings of a circuit breaker

ASSUME TimeAssumption ==
  /\ Threshold \in Nat /\ Window \in Nat /\ Slack \in Nat
  /\ Period \in Nat \ {0} /\ Interval \in Nat \ {0}
ASSUME LimitAssumption ==
  RegisterTries \in Nat \ {0} /\ MaxManual \in Nat

Entries == Workers \X Agents
Statuses == {"healthy", "degraded", "unhealthy", "offline"}
Breakers == {"CLOSED", "OPEN", "HALF_OPEN"}
Longest == Threshold + Period + Slack
AgeCap == Longest + Window + 1

VARIABLES
  known,      \* the entries of the workers' stores
  status,     \* entry -> status
  breaker,    \* entry -> circuit_breaker_state
  age,        \* entry -> ticks since last_heartbeat
  slept,      \* worker -> ticks since the monitor's last pass
  process,    \* agent -> down, registering or running
  tries,      \* agent -> failed attempts to register
  idle,       \* agent -> ticks since the heartbeat loop's last round
  manual      \* number of manual settings (bound)

storeVars == <<known, status, breaker, age>>
agentVars == <<process, tries, idle>>
vars == <<storeVars, slept, agentVars, manual>>

Init ==
  /\ known = {}
  /\ status = [k \in Entries |-> "offline"]
  /\ breaker = [k \in Entries |-> "CLOSED"]
  /\ age = [k \in Entries |-> 0]
  /\ slept = [w \in Workers |-> 0]
  /\ process = [a \in Agents |-> "down"]
  /\ tries = [a \in Agents |-> 0]
  /\ idle = [a \in Agents |-> 0]
  /\ manual = 0

-----------------------------------------------------------------------------
(* The endpoints, for worker w and agent a. *)

\* Mutant: a registration starts with a fresh circuit breaker.
Register_ResetsBreaker(w, a) ==
  LET k == <<w, a>> IN
  /\ known' = known \cup {k}
  /\ status' = [status EXCEPT ![k] = "healthy"]
  /\ age' = [age EXCEPT ![k] = 0]
  /\ breaker' = [breaker EXCEPT ![k] = "CLOSED"]

\* POST /agents/register: a known agent keeps its circuit breaker.
Register(w, a) ==
  LET k == <<w, a>> IN
  /\ known' = known \cup {k}
  /\ status' = [status EXCEPT ![k] = "healthy"]
  /\ age' = [age EXCEPT ![k] = 0]
  /\ UNCHANGED breaker

\* Entries ks leave the store; one outside it looks like a new one.
Erase(ks) ==
  /\ known' = known \ ks
  /\ status' = [k \in Entries |-> IF k \in ks THEN "offline" ELSE status[k]]
  /\ breaker' = [k \in Entries |-> IF k \in ks THEN "CLOSED" ELSE breaker[k]]
  /\ age' = [k \in Entries |-> IF k \in ks THEN 0 ELSE age[k]]

\* DELETE /agents/{agent_id}; no agent calls it.
Deregister(w, a) ==
  /\ <<w, a>> \in known
  /\ Erase({<<w, a>>})
  /\ UNCHANGED <<slept, agentVars, manual>>

\* Mutant: no 404 for an agent that is not registered.
Heartbeat_AnyAgent(w, a, s) ==
  LET k == <<w, a>> IN
  /\ status' = [status EXCEPT ![k] = s]
  /\ age' = [age EXCEPT ![k] = 0]
  /\ UNCHANGED <<known, breaker>>

\* POST /agents/{agent_id}/heartbeat with status s; 404 leaves all as it is.
Heartbeat(w, a, s) ==
  LET k == <<w, a>> IN
  IF k \notin known THEN UNCHANGED storeVars
  ELSE /\ status' = [status EXCEPT ![k] = s]
       /\ age' = [age EXCEPT ![k] = 0]
       /\ breaker' = [breaker EXCEPT ![k] =
            IF @ = "HALF_OPEN" /\ s = "healthy" THEN "CLOSED" ELSE @]
       /\ UNCHANGED known

\* POST /agents/{agent_id}/circuit-breaker/{state}
SetBreaker(w, a, b) ==
  /\ manual < MaxManual
  /\ <<w, a>> \in known
  /\ manual' = manual + 1
  /\ breaker' = [breaker EXCEPT ![<<w, a>>] = b]
  /\ UNCHANGED <<known, status, age, slept, agentVars>>

\* An entry in the answer of GET /agents/discover/{capability}.
Discoverable(k) ==
  k \in known /\ status[k] \in {"healthy", "degraded"} /\ breaker[k] # "OPEN"

-----------------------------------------------------------------------------
(* _health_monitor_loop. *)

Stale(k) == k \in known /\ age[k] > Threshold
Opens(k) == Stale(k) /\ status[k] # "offline" /\ breaker[k] = "CLOSED"

\* Mutant: the branch taken only after 2 minutes, as its comment says.
HalfOpens_AfterWindow(k) ==
  k \in known /\ ~ Stale(k) /\ breaker[k] = "OPEN" /\ age[k] >= Window

HalfOpens(k) ==
  k \in known /\ ~ Stale(k) /\ breaker[k] = "OPEN" /\ age[k] < Window

\* Mutant: an agent that reported itself degraded is left alone.
Silenced_HealthyOnly(k) == Stale(k) /\ status[k] = "healthy"

Silenced(k) == Stale(k) /\ status[k] # "offline"

\* One pass of worker w over its store.
MonitorPass(w) ==
  LET mine(k) == k[1] = w IN
  /\ slept[w] >= Period
  /\ slept' = [slept EXCEPT ![w] = 0]
  /\ status' = [k \in Entries |->
       IF mine(k) /\ Silenced(k) THEN "unhealthy" ELSE status[k]]
  /\ breaker' = [k \in Entries |->
       IF mine(k) /\ Opens(k) THEN "OPEN"
       ELSE IF mine(k) /\ HalfOpens(k) THEN "HALF_OPEN" ELSE breaker[k]]
  /\ UNCHANGED <<known, age, agentVars, manual>>

\* A worker process dies and is started again, with an empty store.
Restart(w) ==
  /\ Erase({w} \X Agents)
  /\ slept' = [slept EXCEPT ![w] = 0]
  /\ UNCHANGED <<agentVars, manual>>

-----------------------------------------------------------------------------
(* The agents. *)

\* A health report, as far as it matters for sending it: the loop of BaseAgent
\* hands over a datetime, which the JSON encoder of the HTTP client refuses.
LoopReport == [status |-> "healthy", timestamp |-> "datetime"]
Encodable(report) == report.timestamp # "datetime"

StartAgent(a) ==
  /\ process[a] = "down"
  /\ process' = [process EXCEPT ![a] = "registering"]
  /\ tries' = [tries EXCEPT ![a] = 0]
  /\ UNCHANGED <<storeVars, slept, idle, manual>>

\* The request reached a worker and its answer came back.
RegisterSucceeds(a) ==
  /\ process[a] = "registering"
  /\ \E w \in Workers : Register(w, a)
  /\ process' = [process EXCEPT ![a] = "running"]
  /\ idle' = [idle EXCEPT ![a] = 0]
  /\ UNCHANGED <<slept, tries, manual>>

\* The request or its answer was lost; after the last try the agent gives up.
RegisterFails(a) ==
  /\ process[a] = "registering"
  /\ UNCHANGED storeVars \/ \E w \in Workers : Register(w, a)
  /\ IF tries[a] + 1 < RegisterTries
     THEN tries' = [tries EXCEPT ![a] = @ + 1] /\ UNCHANGED process
     ELSE process' = [process EXCEPT ![a] = "down"] /\ UNCHANGED tries
  /\ UNCHANGED <<slept, idle, manual>>

\* One round of _heartbeat_loop; every exception of the client is swallowed.
Beat(a) ==
  /\ process[a] = "running"
  /\ idle[a] = Interval
  /\ idle' = [idle EXCEPT ![a] = 0]
  /\ \/ Encodable(LoopReport) /\ \E w \in Workers : Heartbeat(w, a, LoopReport.status)
     \/ UNCHANGED storeVars   \* not encodable, or lost on its way
  /\ UNCHANGED <<slept, process, tries, manual>>

\* shutdown does not deregister.
StopAgent(a) ==
  /\ process[a] # "down"
  /\ process' = [process EXCEPT ![a] = "down"]
  /\ idle' = [idle EXCEPT ![a] = 0]
  /\ UNCHANGED <<storeVars, slept, tries, manual>>

\* A report from any other client of the endpoint.
OtherBeat(w, a, s) ==
  /\ Heartbeat(w, a, s)
  /\ UNCHANGED <<slept, agentVars, manual>>

-----------------------------------------------------------------------------
OneOlder(k) == IF k \in known /\ age[k] < AgeCap THEN age[k] + 1 ELSE age[k]

\* Time waits for no request, but monitors are at most Slack late and the
\* heartbeat loops are on time.
Tick ==
  /\ \A w \in Workers : slept[w] < Period + Slack
  /\ \A a \in Agents : process[a] = "running" => idle[a] < Interval
  /\ age' = [k \in Entries |-> OneOlder(k)]
  /\ slept' = [w \in Workers |-> slept[w] + 1]
  /\ idle' = [a \in Agents |-> IF process[a] = "running" THEN idle[a] + 1 ELSE idle[a]]
  /\ UNCHANGED <<known, status, breaker, process, tries, manual>>

Request(w, a) ==
  \/ Deregister(w, a)
  \/ \E s \in Statuses : OtherBeat(w, a, s)
  \/ \E b \in Breakers : SetBreaker(w, a, b)

Next ==
  \/ \E w \in Workers, a \in Agents : Request(w, a)
  \/ \E w \in Workers : MonitorPass(w) \/ Restart(w)
  \/ \E a \in Agents : StartAgent(a) \/ RegisterSucceeds(a) \/ RegisterFails(a)
                       \/ Beat(a) \/ StopAgent(a)
  \/ Tick

Spec == Init /\ [][Next]_vars

\* Time goes on, and the event loops of registry and agents run their timers.
Fairness ==
  /\ WF_vars(Tick)
  /\ \A w \in Workers : WF_vars(MonitorPass(w))
  /\ \A a \in Agents : WF_vars(Beat(a))

FairSpec == Spec /\ Fairness

-----------------------------------------------------------------------------
(* Properties. *)

\* Types; an agent without an entry has no history at this worker.
TypeOK ==
  /\ known \subseteq Entries
  /\ status \in [Entries -> Statuses]
  /\ breaker \in [Entries -> Breakers]
  /\ age \in [Entries -> 0 .. AgeCap]
  /\ slept \in [Workers -> 0 .. Period + Slack]
  /\ process \in [Agents -> {"down", "registering", "running"}]
  /\ tries \in [Agents -> 0 .. RegisterTries]
  /\ idle \in [Agents -> 0 .. Interval]
  /\ manual \in 0 .. MaxManual
  /\ \A k \in Entries \ known :
       status[k] = "offline" /\ breaker[k] = "CLOSED" /\ age[k] = 0

\* Discovery hands out only agents heard within the threshold, one period of the
\* monitor and its delay, whatever was reported or set by hand in between.
DiscoverableIsRecent == \A k \in Entries : Discoverable(k) => age[k] <= Longest

\* An open breaker is closed by hand or by way of HALF_OPEN, never by an agent
\* that registers again or reports itself healthy.
NoShortcutToClosed ==
  [][\A w \in Workers, a \in Agents :
       LET k == <<w, a>> IN
       k \in known \cap known' /\ breaker[k] = "OPEN" /\ breaker'[k] = "CLOSED"
         => SetBreaker(w, a, "CLOSED")]_vars

\* Requests, reports, passes and restarts in any order: trust ends with the lease of
\* threshold, period and delay, and not before the threshold (main.py:315-342), and an
\* open breaker is left by hand or by way of HALF_OPEN (main.py:288).
Promise == INSTANCE DiscoveryPromise WITH
  Lease <- Longest,
  Grace <- Threshold,
  trusted <- {k \in known : status[k] \in {"healthy", "degraded"}},
  heard <- [k \in Entries |-> IF age[k] <= Longest THEN age[k] ELSE Longest + 1]

KeepsItsPromise == Promise!Spec

InTouch(k) == k \in known /\ age[k] <= Threshold /\ status[k] = "healthy"

\* An agent that stays in touch does not stay excluded by its breaker: discovery
\* hands it out again and again.
ComesBack == \A k \in Entries : <>[]InTouch(k) => []<>Discoverable(k)
=============================================================================
