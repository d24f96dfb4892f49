------------------------- MODULE GatewayAndGraphProofs -------------------------
(***************************************************************************)
(* Machine-checked proofs about the two ends of POST /workflows: about     *)
(* GraphExecution, for every set of nodes, every graph over it and every   *)
(* use the clients make of the task rows, and about ApiGateway, for any    *)
(* handlers, callers, limit, window and number of faults. Neither part     *)
(* uses the other.                                                         *)
(***************************************************************************)
EXTENDS GraphExecution, ApiGateway, TLAPS

\* Every node is in exactly one of the four sets of the loop, and the
\* coroutine of a node is where that set says.
Partitioned ==
  /\ Nodes = pending \cup wave \cup completed \cup failed
  /\ \A n \in pending : step[n] = "idle"
  /\ \A n \in Nodes : step[n] = "idle" => n \in pending
  /\ \A n \in completed : step[n] = "returned"
  /\ \A n \in failed : step[n] = "raised"
  /\ wave \cap (completed \cup failed) = {}
  /\ loop # "gather" => wave = {}

\* A node that was started has only succeeded dependencies.
StartedInOrder ==
  \A n \in Nodes : step[n] # "idle" => dependsOn[n] \subseteq completed

\* Nothing is published before the publish step, and once at most.
DispatchCount ==
  \A n \in Nodes :
    /\ step[n] \in {"idle", "discover", "publish"} => dispatched[n] = 0
    /\ dispatched[n] <= 1

\* What the verdict says about the loop that has ended.
VerdictJustified ==
  /\ verdict # "none" <=> loop \in {"mark", "returned"}
  /\ verdict = "completed" => failed = {}
  /\ verdict # "none" => Ready = {}

\* The inductive invariant.
IInv == TypeOK /\ Partitioned /\ StartedInOrder /\ DispatchCount /\ VerdictJustified

-----------------------------------------------------------------------------
LEMMA InitIInv == Init => IInv
  BY DEF Init, IInv, TypeOK, Partitioned, StartedInOrder, DispatchCount,
         VerdictJustified

LEMMA StepIInv == IInv /\ [Next]_vars => IInv'
<1> SUFFICES ASSUME IInv, [Next]_vars PROVE IInv'
  OBVIOUS
<1> USE DEF IInv, TypeOK, Partitioned, StartedInOrder, DispatchCount, VerdictJustified
<1>1. CASE StartWave
  BY <1>1 DEF StartWave, Ready
<1>2. CASE JoinWave
  BY <1>2 DEF JoinWave, Ended, nodeVars
<1>3. CASE Decide
  BY <1>3 DEF Decide, nodeVars, Ready
<1>4. CASE Mark
  BY <1>4 DEF Mark, nodeVars, Ready
<1>5. ASSUME NEW n \in Nodes, FindAgent(n) PROVE IInv'
  BY <1>5 DEF FindAgent, Move, loopVars, Ready
<1>6. ASSUME NEW n \in Nodes, PublishTask(n) PROVE IInv'
  BY <1>6 DEF PublishTask, Move, loopVars, Ready
<1>7. ASSUME NEW n \in Nodes, PublishRaises(n) PROVE IInv'
  BY <1>7 DEF PublishRaises, Move, loopVars, Ready
<1>8. ASSUME NEW n \in Nodes, PollTerminal(n) PROVE IInv'
  BY <1>8 DEF PollTerminal, Move, loopVars, Ready, Terminal
<1>9. ASSUME NEW n \in Nodes, TimeOut(n) PROVE IInv'
  BY <1>9 DEF TimeOut, Move, loopVars, Ready
<1>10. ASSUME NEW n \in Nodes, WriteTaskRow(n) PROVE IInv'
  BY <1>10 DEF WriteTaskRow, loopVars, nodeVars, Ready
<1>11. CASE UNCHANGED vars
  BY <1>11 DEF vars, Ready
<1>12. QED
  BY <1>1, <1>2, <1>3, <1>4, <1>5, <1>6, <1>7, <1>8, <1>9, <1>10, <1>11
  DEF Next, ExecuteGraph, ExecuteNode, Returned

LEMMA AlwaysIInv == Spec => []IInv
  BY InitIInv, StepIInv, PTL DEF Spec

-----------------------------------------------------------------------------
\* The variables keep their types: in particular the status that a node's
\* coroutine returns is a terminal one (main.py:380-381).
THEOREM TypeCorrect == Spec => []TypeOK
<1>1. IInv => TypeOK
  BY DEF IInv
<1>2. QED
  BY <1>1, AlwaysIInv, PTL

\* No TaskCreated event precedes the success of a dependency, and none is sent
\* twice, on any graph.
THEOREM DispatchOrder == Spec => []DispatchInOrder
<1>1. IInv => DispatchInOrder
  <2> SUFFICES ASSUME IInv, NEW n \in Nodes
               PROVE  /\ dispatched[n] > 0 => dependsOn[n] \subseteq completed
                      /\ dispatched[n] <= 1
    BY DEF DispatchInOrder
  <2>1. step[n] = "idle" => dispatched[n] = 0
    BY DEF IInv, DispatchCount
  <2>2. step[n] # "idle" => dependsOn[n] \subseteq completed
    BY DEF IInv, StartedInOrder
  <2>3. QED
    BY <2>1, <2>2 DEF IInv, DispatchCount
<1>2. QED
  BY <1>1, AlwaysIInv, PTL

\* If m was started, the started nodes other than f are closed downwards, so the
\* set of f and the nodes never started is closed under dependents: it would have
\* to contain m, were m downstream of f.
LEMMA BlockedBelowFailure == IInv => NothingRunsBelowAFailure
<1> SUFFICES ASSUME IInv, NEW f \in failed, NEW m \in DependentsOf(f) \ {f}
             PROVE  step[m] = "idle" /\ dispatched[m] = 0
  BY DEF NothingRunsBelowAFailure
<1> USE DEF IInv, TypeOK, Partitioned
<1> DEFINE S == {f} \cup {k \in Nodes : step[k] = "idle"}
<1>1. S \in SUBSET Nodes /\ f \in S /\ m \in Nodes
  BY DEF DependentsOf
<1>2. ASSUME NEW k \in Nodes, dependsOn[k] \cap S # {}
      PROVE  k \in S
  <2>1. SUFFICES ASSUME step[k] # "idle" PROVE FALSE
    OBVIOUS
  <2>2. dependsOn[k] \subseteq completed
    BY <2>1 DEF StartedInOrder
  <2>3. PICK d \in dependsOn[k] \cap S : TRUE
    BY <1>2
  <2>4. step[d] = "returned" /\ d # f
    BY <2>2, <2>3
  <2>5. QED
    BY <2>3, <2>4
<1>3. m \in S
  BY <1>1, <1>2 DEF DependentsOf
<1>4. step[m] = "idle"
  BY <1>3
<1>5. QED
  BY <1>1, <1>4 DEF DispatchCount

\* Nothing downstream of a failed node is ever sent to an agent.
THEOREM FailureIsContained == Spec => []NothingRunsBelowAFailure
  BY BlockedBelowFailure, AlwaysIInv, PTL

\* When the loop has ended with nothing failed, the nodes still pending each
\* wait for another pending one, which no well-formed graph allows.
LEMMA AllRanIfCompleted == IInv => CompletedMeansAllRan
<1> SUFFICES ASSUME IInv, WellFormed, verdict = "completed"
             PROVE  completed = Nodes
  BY DEF CompletedMeansAllRan
<1> USE DEF IInv, TypeOK, Partitioned, VerdictJustified
<1>1. failed = {} /\ wave = {} /\ Ready = {}
  OBVIOUS
<1>2. pending = {}
  <2>1. SUFFICES ASSUME pending # {} PROVE FALSE
    OBVIOUS
  <2>2. PICK n \in pending : dependsOn[n] \cap pending = {}
    BY <2>1 DEF WellFormed
  <2>3. dependsOn[n] \subseteq completed
    BY <1>1, <2>2 DEF WellFormed
  <2>4. n \in Ready
    BY <1>1, <2>3 DEF Ready
  <2>5. QED
    BY <1>1, <2>4
<1>3. QED
  BY <1>1, <1>2

\* On a graph without cycles and dangling dependencies, a workflow is marked
\* completed only when every node has run.
THEOREM CompletedIsSound == Spec => []CompletedMeansAllRan
  BY AllRanIfCompleted, AlwaysIInv, PTL

\* A verdict leaves no startable node behind.
THEOREM VerdictIsMaximal == Spec => []VerdictIsNotEarly
<1>1. IInv => VerdictIsNotEarly
  BY DEF IInv, TypeOK, Partitioned, VerdictJustified, VerdictIsNotEarly, Ready
<1>2. QED
  BY <1>1, AlwaysIInv, PTL

\* A node that timed out stays failed, whatever its task answers later.
THEOREM OutcomesFinal == Spec => OutcomesAreFinal
<1>1. IInv /\ [Next]_vars => [/\ completed \subseteq completed'
                              /\ failed \subseteq failed'
                              /\ completed' \cap failed' = {}]_vars
  <2> SUFFICES ASSUME IInv, [Next]_vars
               PROVE  /\ completed \subseteq completed'
                      /\ failed \subseteq failed'
                      /\ completed' \cap failed' = {}
    OBVIOUS
  <2>1. IInv'
    BY StepIInv
  <2>2. completed' \cap failed' = {}
    BY <2>1 DEF IInv, Partitioned
  <2>3. completed \subseteq completed' /\ failed \subseteq failed'
    BY DEF Next, ExecuteGraph, ExecuteNode, StartWave, JoinWave, Decide, Mark,
           FindAgent, PublishTask, PublishRaises, PollTerminal, TimeOut, Move,
           WriteTaskRow, Returned, loopVars, nodeVars, vars
  <2>4. QED
    BY <2>2, <2>3
<1>2. QED
  BY <1>1, AlwaysIInv, PTL DEF Spec, OutcomesAreFinal

-----------------------------------------------------------------------------
(* GraphExecution implements DagSchedule. *)

outcomes == [n \in Nodes |-> Outcome(n)]

LEMMA InitRefines == Init => Schedule!Init
  BY DEF Init, Schedule!Init, Outcome

\* The two ends of a coroutine, and the steps in between that stay "running".
LEMMA MoveRefines ==
  ASSUME TypeOK, NEW n \in Nodes, NEW from, NEW to, Move(n, from, to),
         from \in {"discover", "publish", "waiting"},
         to \in {"publish", "waiting", "returned", "raised"}
  PROVE  [Schedule!Next]_(Schedule!vars)
<1> USE DEF TypeOK, Move, loopVars
<1>1. /\ step[n] = from
      /\ step' = [step EXCEPT ![n] = to]
      /\ dependsOn' = dependsOn /\ verdict' = verdict
  OBVIOUS
<1>2. CASE to \in {"publish", "waiting"}
  <2>1. \A k \in Nodes : Outcome(k)' = Outcome(k)
    BY <1>1, <1>2 DEF Outcome
  <2>2. outcomes' = outcomes
    BY <2>1 DEF outcomes
  <2>3. QED
    BY <1>1, <2>2 DEF Schedule!vars, outcomes
<1>3. CASE to \in {"returned", "raised"}
  <2> DEFINE result == IF to = "returned" THEN "done" ELSE "failed"
  <2>1. Outcome(n) = "running"
    BY <1>1 DEF Outcome
  <2>2. \A k \in Nodes : Outcome(k)' = IF k = n THEN result ELSE Outcome(k)
    BY <1>1, <1>3 DEF Outcome
  <2>3. outcomes' = [outcomes EXCEPT ![n] = result]
    BY <2>2 DEF outcomes
  <2>4. Schedule!Finish(n)
    BY <1>1, <2>1, <2>3 DEF Schedule!Finish, outcomes
  <2>5. QED
    BY <2>4 DEF Schedule!Next
<1>4. QED
  BY <1>2, <1>3

LEMMA StartWaveRefines == IInv /\ StartWave => Schedule!Next
<1> SUFFICES ASSUME IInv, StartWave PROVE Schedule!Next
  OBVIOUS
<1> USE DEF IInv, TypeOK, Partitioned
<1>1. verdict = "none" /\ verdict' = verdict /\ dependsOn' = dependsOn
  BY DEF StartWave, VerdictJustified
<1>2. Ready \in SUBSET Nodes
  BY DEF Ready
<1>3. ASSUME NEW n \in Ready PROVE Schedule!Startable(n)
  <2>1. step[n] = "idle" /\ dependsOn[n] \subseteq completed
    BY DEF Ready
  <2>2. Outcome(n) = "waiting"
    BY <2>1 DEF Outcome
  <2>3. \A d \in dependsOn[n] : d \in Nodes /\ Outcome(d) = "done"
    BY <2>1 DEF Outcome
  <2>4. QED
    BY <1>2, <2>2, <2>3 DEF Schedule!Startable
<1>4. \A n \in Nodes : Outcome(n)' = IF n \in Ready THEN "running" ELSE Outcome(n)
  BY <1>2 DEF StartWave, Outcome
<1>5. outcomes' = [n \in Nodes |-> IF n \in Ready THEN "running" ELSE outcomes[n]]
  BY <1>4 DEF outcomes
<1>6. Schedule!Start(Ready)
  BY <1>1, <1>3, <1>5 DEF Schedule!Start, outcomes
<1>7. QED
  BY <1>2, <1>6 DEF Schedule!Next

LEMMA DecideRefines == IInv /\ Decide => Schedule!Next
<1> SUFFICES ASSUME IInv, Decide PROVE Schedule!Next
  OBVIOUS
<1> USE DEF IInv, TypeOK, Partitioned
<1>1. verdict = "none" /\ wave = {} /\ Ready = {} /\ UNCHANGED <<dependsOn, step>>
  BY DEF Decide, VerdictJustified, nodeVars
<1>2. \A n \in Nodes : /\ Outcome(n) \in {"waiting", "done", "failed"}
                       /\ Outcome(n) = "waiting" <=> n \in pending
                       /\ Outcome(n) = "done" <=> n \in completed
                       /\ Outcome(n) = "failed" <=> n \in failed
  BY <1>1 DEF Outcome
<1>3. ASSUME NEW n \in Nodes PROVE ~ Schedule!Startable(n)
  <2>1. SUFFICES ASSUME Schedule!Startable(n) PROVE FALSE
    OBVIOUS
  <2>2. n \in pending /\ dependsOn[n] \subseteq completed
    BY <1>2, <2>1 DEF Schedule!Startable
  <2>3. completed \cap failed = {}
    BY <1>2
  <2>4. QED
    BY <1>1, <2>2, <2>3 DEF Ready
<1>4. verdict' = IF \E n \in Nodes : Outcome(n) = "failed" THEN "failed" ELSE "completed"
  BY <1>2 DEF Decide
<1>5. outcomes' = outcomes
  BY <1>1 DEF outcomes, Outcome
<1>6. Schedule!Conclude
  BY <1>1, <1>2, <1>3, <1>4, <1>5 DEF Schedule!Conclude, outcomes
<1>7. QED
  BY <1>6 DEF Schedule!Next

LEMMA StepRefines == IInv /\ [Next]_vars => [Schedule!Next]_(Schedule!vars)
<1> SUFFICES ASSUME IInv, [Next]_vars PROVE [Schedule!Next]_(Schedule!vars)
  OBVIOUS
<1>1. TypeOK
  BY DEF IInv
<1>2. CASE UNCHANGED <<dependsOn, step, verdict>>
  <2>1. outcomes' = outcomes
    BY <1>2 DEF outcomes, Outcome
  <2>2. QED
    BY <1>2, <2>1 DEF Schedule!vars, outcomes
<1>3. CASE StartWave
  BY <1>3, StartWaveRefines
<1>4. CASE Decide
  BY <1>4, DecideRefines
<1>5. CASE JoinWave \/ Mark
  BY <1>2, <1>5 DEF JoinWave, Mark, nodeVars
<1>6. ASSUME NEW n \in Nodes, ExecuteNode(n)
      PROVE  [Schedule!Next]_(Schedule!vars)
  <2>1. \E from \in {"discover", "publish", "waiting"},
           to \in {"publish", "waiting", "returned", "raised"} : Move(n, from, to)
    BY <1>6 DEF ExecuteNode, FindAgent, PublishTask, PublishRaises, PollTerminal, TimeOut
  <2>2. QED
    BY <1>1, <2>1, MoveRefines
<1>7. ASSUME NEW n \in Nodes, WriteTaskRow(n)
      PROVE  [Schedule!Next]_(Schedule!vars)
  BY <1>2, <1>7 DEF WriteTaskRow, loopVars, nodeVars
<1>8. CASE UNCHANGED vars
  BY <1>2, <1>8 DEF vars
<1>9. QED
  BY <1>3, <1>4, <1>5, <1>6, <1>7, <1>8 DEF Next, ExecuteGraph, Returned

\* The waves of _execute_graph are an implementation of the abstract schedule.
THEOREM Refinement == Spec => ImplementsSchedule
  BY InitRefines, StepRefines, AlwaysIInv, PTL DEF Spec, ImplementsSchedule, Schedule!Spec

-----------------------------------------------------------------------------
(* The gateway: types.                                                            *)

\* Every variable of the gateway stays in its range, and a counter is there exactly
\* as long as its key.
THEOREM GatewayTypes == GatewaySpec => []GatewayTypeOK
<1> USE LimitAssumption, BoundsAssumption, CallerAssumption
    DEF Spans, Never, Stages, Answers, Goes, Fault
<1>1. GatewayInit => GatewayTypeOK
  BY DEF GatewayInit, GatewayTypeOK
<1>2. GatewayTypeOK /\ [GatewayNext]_gatewayVars => GatewayTypeOK'
  <2> SUFFICES ASSUME GatewayTypeOK, [GatewayNext]_gatewayVars PROVE GatewayTypeOK'
    OBVIOUS
  <2> USE DEF GatewayTypeOK
  <2>1. ASSUME NEW h \in Handlers, Arrive(h) PROVE GatewayTypeOK'
    BY <2>1 DEF Arrive
  <2>2. ASSUME NEW c \in Callers, Incr(c)
        PROVE  /\ count' \in [Callers -> Nat]
               /\ ttl' \in [Callers -> -1 .. Window]
               /\ \A d \in Callers : ttl'[d] = 0 <=> count'[d] = 0
    BY <2>2 DEF Incr
  <2>3. ASSUME NEW c \in Callers, Expires(c)
        PROVE  /\ ttl' \in [Callers -> -1 .. Window]
               /\ \A d \in Callers : ttl'[d] = 0 <=> count[d] = 0
    BY <2>3 DEF Expires
  <2>4. ASSUME NEW c \in Callers, Admits(c) PROVE recent' \in [Callers -> [Spans -> Nat]]
    BY <2>4 DEF Admits
  <2>5. ASSUME NEW h \in Handlers, Count(h) PROVE GatewayTypeOK'
    <3>1. callerOf[h] \in Callers /\ Incr(callerOf[h])
      BY <2>5 DEF Count
    <3>2. recent' \in [Callers -> [Spans -> Nat]] /\ stage' \in [Handlers -> Stages]
      BY <2>4, <2>5, <3>1 DEF Count
    <3> QED  BY <2>2, <2>5, <3>1, <3>2 DEF Count
  <2>6. ASSUME NEW h \in Handlers, Expire(h) PROVE GatewayTypeOK'
    <3>1. callerOf[h] \in Callers /\ Expires(callerOf[h])
      BY <2>6 DEF Expire
    <3> QED  BY <2>3, <2>6, <3>1 DEF Expire
  <2>7. ASSUME NEW h \in Handlers, RedisFails(h) PROVE GatewayTypeOK'
    <3> DEFINE c == callerOf[h]
    <3>1. c \in Callers /\ stage' \in [Handlers -> Stages] /\ faults' \in 0 .. MaxFaults
      BY <2>7 DEF RedisFails
    <3>2. CASE Admits(c) /\ Incr(c)
      BY <2>2, <2>4, <3>1, <3>2
    <3>3. CASE Admits(c) /\ UNCHANGED <<count, ttl>>
      BY <2>4, <3>1, <3>3
    <3>4. CASE (Expires(c) \/ UNCHANGED ttl) /\ UNCHANGED <<count, recent>>
      BY <2>3, <3>1, <3>4
    <3> QED  BY <2>7, <3>2, <3>3, <3>4 DEF RedisFails
  <2>8. ASSUME NEW h \in Handlers, Forward(h) \/ Respond(h) \/ TimesOut(h)
        PROVE  GatewayTypeOK'
    BY <2>8 DEF Forward, Respond, TimesOut
  <2>9. ASSUME NEW c \in Callers, Evict(c) PROVE GatewayTypeOK'
    BY <2>9 DEF Evict
  <2>10. CASE Tick
    <3>1. recent' \in [Callers -> [Spans -> Nat]]
      BY <2>10 DEF Tick
    <3>2. stage' \in [Handlers -> Stages]
      BY <2>10 DEF Tick
    <3>3. /\ ttl' \in [Callers -> -1 .. Window] /\ count' \in [Callers -> Nat]
          /\ \A c \in Callers : ttl'[c] = 0 <=> count'[c] = 0
      <4>1. /\ ttl' = [c \in Callers |-> IF ttl[c] > 0 THEN ttl[c] - 1 ELSE ttl[c]]
            /\ count' = [c \in Callers |-> IF ttl[c] = 1 THEN 0 ELSE count[c]]
        BY <2>10 DEF Tick
      <4>2. ASSUME NEW c \in Callers
            PROVE  /\ ttl'[c] \in -1 .. Window /\ count'[c] \in Nat
                   /\ ttl'[c] = 0 <=> count'[c] = 0
        BY <4>1
      <4> QED  BY <4>1, <4>2
    <3> QED  BY <2>10, <3>1, <3>2, <3>3 DEF Tick
  <2>11. CASE UNCHANGED gatewayVars
    BY <2>11 DEF gatewayVars
  <2> QED  BY <2>1, <2>5, <2>6, <2>7, <2>8, <2>9, <2>10, <2>11 DEF GatewayNext
<1> QED  BY <1>1, <1>2, PTL DEF GatewaySpec


-----------------------------------------------------------------------------
(* The gateway: what gets through. The counter of a key says how many requests    *)
(* its window let through, and its ttl how long ago that window began, up to the  *)
(* tick that may fall between INCR and EXPIRE.                                    *)

\* Requests that the window of the key has let through.
Through(c) == IF count[c] < Limit THEN count[c] ELSE Limit

\* Ticks that the window of the key has lasted at least.
Lasted(c) == IF ttl[c] = Never THEN 0 ELSE Window - ttl[c]

\* Whoever looks further back sees no less.
Growing == \A c \in Callers : \A m, n \in Spans : m <= n => recent[c][m] <= recent[c][n]

\* The past holds the window of the key and, within a window's length, at most the
\* one before it, which is over since the key is there.
TwoWindows(c) ==
  /\ count[c] = 0 => recent[c][0] = 0 /\ recent[c][Window - 1] <= Limit
  /\ count[c] > 0 => /\ recent[c][Window - 1] <= Limit + Through(c)
                     /\ \A n \in 0 .. Lasted(c) : recent[c][n] <= Through(c)

WindowInv == Growing /\ (faults = 0 => \A c \in Callers : TwoWindows(c))

\* A step that leaves time as it is keeps Growing.
LEMMA AdmitsGrows ==
  ASSUME GatewayTypeOK, Growing,
         UNCHANGED recent \/ \E c \in Callers : Admits(c)
  PROVE  Growing'
<1>1. CASE UNCHANGED recent
  BY <1>1 DEF Growing
<1>2. ASSUME NEW c \in Callers, Admits(c) PROVE Growing'
  BY <1>2 DEF Admits, Growing, GatewayTypeOK
<1> QED  BY <1>1, <1>2

\* What a window lets through is kept by every step.
THEOREM GatewayWindows == GatewaySpec => []WindowInv
<1> USE LimitAssumption, CallerAssumption DEF Spans, Never
<1>1. GatewayInit => WindowInv
  <2> SUFFICES ASSUME GatewayInit PROVE WindowInv
    OBVIOUS
  <2>1. \A c \in Callers : count[c] = 0 /\ \A n \in Spans : recent[c][n] = 0
    BY DEF GatewayInit
  <2> QED  BY <2>1 DEF WindowInv, Growing, TwoWindows
<1>2. GatewayTypeOK /\ WindowInv /\ [GatewayNext]_gatewayVars => WindowInv'
  <2> SUFFICES ASSUME GatewayTypeOK, WindowInv, [GatewayNext]_gatewayVars PROVE WindowInv'
    OBVIOUS
  <2>0. Growing
    BY DEF WindowInv
  <2>1. ASSUME UNCHANGED <<count, ttl, recent, faults>> PROVE WindowInv'
    BY <2>1 DEF WindowInv, Growing, TwoWindows, Through, Lasted
  <2>2. ASSUME Fault, Growing' PROVE WindowInv'
    BY <2>2 DEF Fault, WindowInv, GatewayTypeOK
  <2>3. ASSUME NEW h \in Handlers, Count(h) PROVE WindowInv'
    <3> DEFINE c == callerOf[h]
    <3>1. c \in Callers /\ Incr(c) /\ UNCHANGED faults
      BY <2>3 DEF Count
    <3>2. \/ count[c] < Limit /\ Admits(c)
          \/ count[c] >= Limit /\ UNCHANGED recent
      BY <2>3 DEF Count, GatewayTypeOK
    <3>3. Growing'
      BY <2>0, <3>1, <3>2, AdmitsGrows
    <3> HIDE DEF c
    <3>4. ASSUME faults = 0, NEW d \in Callers PROVE TwoWindows(d)'
      <4>1. TwoWindows(d)
        BY <3>4 DEF WindowInv
      <4>2. CASE d # c
        <5>1. count'[d] = count[d] /\ ttl'[d] = ttl[d] /\ recent'[d] = recent[d]
          BY <3>1, <3>2, <4>2 DEF Incr, Admits, GatewayTypeOK
        <5> QED  BY <4>1, <5>1 DEF TwoWindows, Through, Lasted
      <4>3. CASE d = c
        <5>1. /\ count'[c] = count[c] + 1 /\ count[c] \in Nat
              /\ ttl'[c] = IF count[c] = 0 THEN -1 ELSE ttl[c]
              /\ ttl[c] \in -1 .. Window /\ recent[c] \in [Spans -> Nat]
          BY <3>1 DEF Incr, GatewayTypeOK
        <5>2. CASE count[c] < Limit /\ Admits(c)
          <6>1. \A n \in Spans : recent'[c][n] = recent[c][n] + 1
            BY <3>1, <5>2 DEF Admits, GatewayTypeOK
          <6>2. Through(c)' = Through(c) + 1
            BY <5>1, <5>2 DEF Through
          <6>0. /\ 0 \in Spans /\ Window - 1 \in Spans /\ Through(c) \in Nat
                /\ \A n \in Spans : recent[c][n] \in Nat
            BY <5>1 DEF Through
          <6>3. CASE count[c] = 0
            <7>1. /\ Through(c) = 0 /\ Lasted(c)' = 0 /\ count'[c] > 0
                  /\ recent[c][0] = 0 /\ recent[c][Window - 1] <= Limit
              BY <4>1, <4>3, <5>1, <6>3 DEF TwoWindows, Through, Lasted
            <7>2. recent'[c][0] = 1 /\ recent'[c][Window - 1] <= Limit + 1
              BY <6>0, <6>1, <7>1
            <7> QED  BY <4>3, <6>2, <7>1, <7>2 DEF TwoWindows
          <6>4. CASE count[c] > 0
            <7>1. Lasted(c)' = Lasted(c) /\ 0 .. Lasted(c) \subseteq Spans
              <8>1. ttl'[c] = ttl[c]
                BY <5>1, <6>4
              <8>2. ttl[c] \in 0 .. Window => Window - ttl[c] \in 0 .. Window
                BY <5>1
              <8>3. Lasted(c) \in 0 .. Window
                BY <5>1, <8>2 DEF Lasted
              <8> QED  BY <8>1, <8>3 DEF Lasted
            <7>2. /\ recent[c][Window - 1] <= Limit + Through(c)
                  /\ \A n \in 0 .. Lasted(c) : recent[c][n] <= Through(c)
              BY <4>1, <4>3, <6>4 DEF TwoWindows
            <7>3. recent'[c][Window - 1] <= Limit + Through(c)'
              BY <6>0, <6>1, <6>2, <7>2
            <7>4. \A n \in 0 .. Lasted(c)' : recent'[c][n] <= Through(c)'
              BY <6>0, <6>1, <6>2, <7>1, <7>2
            <7> QED  BY <4>3, <5>1, <6>4, <7>3, <7>4 DEF TwoWindows
          <6> QED  BY <5>1, <6>3, <6>4
        <5>3. CASE count[c] >= Limit /\ UNCHANGED recent
          <6>1. Through(c)' = Through(c) /\ Lasted(c)' = Lasted(c)
            BY <5>1, <5>3 DEF Through, Lasted
          <6> QED  BY <4>1, <4>3, <5>1, <5>3, <6>1 DEF TwoWindows
        <5> QED  BY <3>2, <5>2, <5>3
      <4> QED  BY <4>2, <4>3
    <3> QED  BY <3>1, <3>3, <3>4 DEF WindowInv
  <2>4. ASSUME NEW h \in Handlers, Expire(h) PROVE WindowInv'
    <3> DEFINE c == callerOf[h]
    <3>1. c \in Callers /\ Expires(c) /\ UNCHANGED <<count, recent, faults>>
      BY <2>4 DEF Expire
    <3>2. Growing'
      BY <2>0, <3>1, AdmitsGrows
    <3> HIDE DEF c
    <3>3. ASSUME faults = 0, NEW d \in Callers PROVE TwoWindows(d)'
      <4>1. TwoWindows(d)
        BY <3>3 DEF WindowInv
      <4>2. count[d] > 0 => Lasted(d)' <= Lasted(d) /\ Lasted(d)' \in Int /\ Lasted(d) \in Int
        <5>1. /\ ttl[d] \in -1 .. Window
              /\ ttl' = [ttl EXCEPT ![c] = IF count[c] = 0 THEN 0 ELSE Window]
              /\ ttl \in [Callers -> -1 .. Window]
          BY <3>1 DEF Expires, GatewayTypeOK
        <5>2. Lasted(d) \in Nat
          BY <5>1 DEF Lasted
        <5>3. CASE d # c
          BY <3>1, <5>1, <5>2, <5>3 DEF Lasted
        <5>4. CASE d = c
          BY <3>1, <5>1, <5>2, <5>4 DEF Lasted
        <5> QED  BY <5>3, <5>4
      <4> QED  BY <3>1, <4>1, <4>2 DEF TwoWindows, Through
    <3> QED  BY <3>1, <3>2, <3>3 DEF WindowInv
  <2>5. ASSUME NEW h \in Handlers, RedisFails(h) PROVE WindowInv'
    <3>1. Growing'
      BY <2>0, <2>5, AdmitsGrows DEF RedisFails
    <3> QED  BY <2>2, <2>5, <3>1 DEF RedisFails
  <2>6. ASSUME NEW c \in Callers, Evict(c) PROVE WindowInv'
    <3>1. Growing'
      BY <2>0, <2>6, AdmitsGrows DEF Evict
    <3> QED  BY <2>2, <2>6, <3>1 DEF Evict
  <2>7. CASE Tick
    <3>1. /\ recent' = [c \in Callers |-> [n \in Spans |-> IF n = 0 THEN 0 ELSE recent[c][n - 1]]]
          /\ ttl' = [c \in Callers |-> IF ttl[c] > 0 THEN ttl[c] - 1 ELSE ttl[c]]
          /\ count' = [c \in Callers |-> IF ttl[c] = 1 THEN 0 ELSE count[c]]
          /\ UNCHANGED faults
      BY <2>7 DEF Tick
    <3>2. ASSUME NEW c \in Callers
          PROVE  /\ recent'[c][0] = 0
                 /\ \A n \in Spans \ {0} : n - 1 \in Spans /\ recent'[c][n] = recent[c][n - 1]
                 /\ \A n \in Spans : recent[c][n] \in Nat
      BY <3>1 DEF GatewayTypeOK
    <3>3. Growing'
      <4> SUFFICES ASSUME NEW c \in Callers, NEW m \in Spans, NEW n \in Spans, m <= n
                   PROVE  recent'[c][m] <= recent'[c][n]
        BY DEF Growing
      <4>1. CASE m = 0
        <5>1. recent'[c][n] \in Nat
          BY <3>1 DEF GatewayTypeOK
        <5> QED  BY <3>2, <4>1, <5>1
      <4>2. CASE m # 0
        <5>1. n # 0 /\ m - 1 <= n - 1
          BY <4>2
        <5> QED  BY <2>0, <3>2, <4>2, <5>1 DEF Growing
      <4> QED  BY <4>1, <4>2
    <3>4. ASSUME faults = 0, NEW c \in Callers PROVE TwoWindows(c)'
      <4>1. TwoWindows(c) /\ count[c] \in Nat /\ ttl[c] \in -1 .. Window
        BY <3>4 DEF WindowInv, GatewayTypeOK
      <4>2. /\ recent'[c][Window - 1] <= recent[c][Window - 1]
            /\ recent'[c][Window - 1] \in Nat /\ recent[c][Window - 1] \in Nat
        <5>1. Window - 1 \in Spans
          OBVIOUS
        <5>2. CASE Window = 1
          BY <3>2, <5>1, <5>2
        <5>3. CASE Window # 1
          BY <2>0, <3>2, <5>1, <5>3 DEF Growing
        <5> QED  BY <5>2, <5>3
      <4>3. CASE count[c] = 0
        <5>1. ttl[c] = 0 /\ count'[c] = 0
          BY <3>1, <4>3 DEF GatewayTypeOK
        <5> QED  BY <3>2, <4>1, <4>2, <4>3, <5>1 DEF TwoWindows
      <4>4. CASE count[c] > 0 /\ ttl[c] = 1
        <5>1. count'[c] = 0 /\ Lasted(c) = Window - 1
          BY <3>1, <4>4 DEF Lasted
        <5>2. Through(c) <= Limit /\ Through(c) \in Nat
          BY <4>1 DEF Through
        <5>3. recent[c][Window - 1] <= Through(c)
          BY <4>1, <4>4, <5>1 DEF TwoWindows
        <5>4. recent'[c][Window - 1] <= Limit
          BY <4>2, <5>2, <5>3
        <5> QED  BY <3>2, <5>1, <5>4 DEF TwoWindows
      <4>5. CASE count[c] > 0 /\ ttl[c] # 1
        <5>1. count'[c] = count[c] /\ Through(c)' = Through(c)
          BY <3>1, <4>5 DEF Through
        <5>2. ttl[c] # 0
          BY <4>5 DEF GatewayTypeOK
        <5>3. Lasted(c) \in 0 .. Window /\ Lasted(c)' \in 0 .. Lasted(c) + 1 /\ Lasted(c)' <= Window
          BY <3>1, <4>1, <5>2, <4>5 DEF Lasted
        <5>4. Through(c) \in Nat
          BY <4>1 DEF Through
        <5>5. \A n \in 0 .. Lasted(c)' : recent'[c][n] <= Through(c)'
          <6> SUFFICES ASSUME NEW n \in 0 .. Lasted(c)' PROVE recent'[c][n] <= Through(c)
            BY <5>1
          <6>1. CASE n = 0
            BY <3>2, <5>4, <6>1
          <6>2. CASE n # 0
            <7>1. n \in Spans \ {0} /\ n - 1 \in 0 .. Lasted(c)
              BY <5>3, <6>2
            <7> QED  BY <3>2, <4>1, <4>5, <7>1 DEF TwoWindows
          <6> QED  BY <6>1, <6>2
        <5>6. recent'[c][Window - 1] <= Limit + Through(c)'
          BY <4>1, <4>2, <4>5, <5>1, <5>4 DEF TwoWindows
        <5> QED  BY <4>5, <5>1, <5>5, <5>6 DEF TwoWindows
      <4> QED  BY <4>1, <4>3, <4>4, <4>5
    <3> QED  BY <3>1, <3>3, <3>4 DEF WindowInv
  <2>8. ASSUME NEW h \in Handlers, Arrive(h) \/ Forward(h) \/ Respond(h) \/ TimesOut(h)
        PROVE  WindowInv'
    BY <2>1, <2>8 DEF Arrive, Forward, Respond, TimesOut
  <2>9. CASE UNCHANGED gatewayVars
    BY <2>1, <2>9 DEF gatewayVars
  <2> QED  BY <2>3, <2>4, <2>5, <2>6, <2>7, <2>8, <2>9 DEF GatewayNext
<1> QED  BY <1>1, <1>2, GatewayTypes, PTL DEF GatewaySpec

\* "The window is fixed" (main.py:132): while Redis does not fail, no more than two
\* limits of a caller get through within the length of a window.
THEOREM GatewayBounded == GatewaySpec => []AdmittedIsBounded
<1> USE LimitAssumption DEF Spans
<1>1. GatewayTypeOK /\ WindowInv => AdmittedIsBounded
  <2> SUFFICES ASSUME GatewayTypeOK, WindowInv, faults = 0, NEW c \in Callers
               PROVE  recent[c][Window - 1] <= 2 * Limit
    BY DEF AdmittedIsBounded
  <2>1. TwoWindows(c) /\ count[c] \in Nat /\ recent[c][Window - 1] \in Nat
    BY DEF WindowInv, GatewayTypeOK
  <2>2. Through(c) <= Limit /\ Through(c) \in Nat
    BY <2>1 DEF Through
  <2> QED  BY <2>1, <2>2 DEF TwoWindows
<1> QED  BY <1>1, GatewayTypes, GatewayWindows, PTL


-----------------------------------------------------------------------------
(* The gateway: who is refused. As long as Redis does not fail, a key without     *)
(* expiry has one request on its way from INCR to EXPIRE, so the window of a key  *)
(* has begun no longer ago than its ttl and one tick say.                         *)

Between(h) == stage[h] \in {"expiring", "late"}

OnItsWay ==
  /\ \A h \in Handlers : Between(h) => ttl[callerOf[h]] = Never
  /\ \A h, k \in Handlers : Between(h) /\ Between(k) /\ callerOf[h] = callerOf[k] => h = k
  /\ \A c \in Callers : ttl[c] = Never => \E h \in Handlers : Between(h) /\ callerOf[h] = c

\* What the window of a key let through is still in sight.
InSight ==
  /\ \A h \in Handlers :
       /\ stage[h] = "expiring" => recent[callerOf[h]][0] >= Through(callerOf[h])
       /\ stage[h] = "late" => recent[callerOf[h]][1] >= Through(callerOf[h])
  /\ \A c \in Callers : ttl[c] > 0 => recent[c][Window - ttl[c] + 1] >= Through(c)

KeyInv == faults = 0 => OnItsWay /\ InSight

\* A step of a handler that is not on its way from INCR to EXPIRE, before or after it,
\* and that leaves the counters alone, keeps it.
LEMMA ElsewhereKeeps ==
  ASSUME GatewayTypeOK, KeyInv, UNCHANGED <<count, ttl, recent, faults>>,
         \A h \in Handlers : stage'[h] = stage[h] \/ (~ Between(h) /\ ~ Between(h)')
  PROVE  KeyInv'
<1>1. \A h \in Handlers : /\ Between(h)' <=> Between(h)
                          /\ Between(h) => stage'[h] = stage[h]
                          /\ Between(h)' <=> stage'[h] \in {"expiring", "late"}
  BY DEF Between
<1>2. ASSUME OnItsWay PROVE OnItsWay'
  BY <1>1, <1>2 DEF OnItsWay
<1>3. ASSUME InSight PROVE InSight'
  BY <1>1, <1>3 DEF InSight, Through, Between
<1> QED  BY <1>2, <1>3 DEF KeyInv

\* INCR counts for its caller what it lets through.
LEMMA CountKeeps ==
  ASSUME GatewayTypeOK, KeyInv, NEW h \in Handlers, Count(h)
  PROVE  KeyInv'
<1> USE LimitAssumption, CallerAssumption DEF Spans, Never
<1> DEFINE c == callerOf[h]
<1>1. /\ c \in Callers /\ stage[h] = "counting" /\ UNCHANGED faults
      /\ count' = [count EXCEPT ![c] = @ + 1]
      /\ ttl' = [ttl EXCEPT ![c] = IF count[c] = 0 THEN -1 ELSE @]
  BY DEF Count, Incr
<1>2. \/ /\ count[c] = 0 /\ stage' = [stage EXCEPT ![h] = "expiring"]
         /\ Admits(c)
      \/ /\ count[c] \in 1 .. Limit - 1 /\ stage' = [stage EXCEPT ![h] = "forwarding"]
         /\ Admits(c)
      \/ /\ count[c] >= Limit /\ stage' = [stage EXCEPT ![h] = "refused"]
         /\ UNCHANGED recent
  BY DEF Count, Goes
<1>3. \A d \in Callers \ {c} : /\ count'[d] = count[d] /\ ttl'[d] = ttl[d]
                               /\ recent'[d] = recent[d] /\ Through(d)' = Through(d)
  BY <1>1, <1>2 DEF Admits, GatewayTypeOK, Through
<1>4. \A k \in Handlers : /\ k # h => stage'[k] = stage[k]
                          /\ callerOf[k] \in Callers
  BY <1>1, <1>2 DEF GatewayTypeOK
<1>5. count[c] \in Nat /\ ttl[c] \in -1 .. Window /\ \A n \in Spans : recent[c][n] \in Nat
  BY <1>1 DEF GatewayTypeOK
<1>6. ttl[c] = 0 <=> count[c] = 0
  BY <1>1 DEF GatewayTypeOK
<1>7. Admits(c) => \A n \in Spans : recent'[c][n] = recent[c][n] + 1
  BY <1>1 DEF Admits, GatewayTypeOK
<1>8. ~ Between(h)
  BY <1>1 DEF Between
<1>9. count'[c] = count[c] + 1 /\ ttl'[c] = IF count[c] = 0 THEN -1 ELSE ttl[c]
  BY <1>1 DEF GatewayTypeOK
<1> HIDE DEF c
<1> SUFFICES ASSUME faults = 0, OnItsWay, InSight PROVE OnItsWay' /\ InSight'
  BY <1>1 DEF KeyInv
<1>10. CASE count[c] = 0 /\ stage' = [stage EXCEPT ![h] = "expiring"] /\ Admits(c)
  <2>1. \A k \in Handlers : Between(k) => callerOf[k] # c
    BY <1>6, <1>10 DEF OnItsWay
  <2>2. \A k \in Handlers : Between(k)' <=> Between(k) \/ k = h
    BY <1>4, <1>10 DEF Between, GatewayTypeOK
  <2>3. callerOf[h] = c /\ stage'[h] = "expiring" /\ ttl'[c] = -1
    BY <1>9, <1>10 DEF c, GatewayTypeOK
  <2>4. OnItsWay'
    <3>1. \A k \in Handlers : Between(k)' => ttl'[callerOf[k]] = -1
      BY <1>3, <1>4, <2>1, <2>2, <2>3 DEF OnItsWay
    <3>2. \A j, k \in Handlers : Between(j)' /\ Between(k)' /\ callerOf[j] = callerOf[k] => j = k
      BY <2>1, <2>2, <2>3 DEF OnItsWay
    <3>3. \A d \in Callers : ttl'[d] = -1 => \E k \in Handlers : Between(k)' /\ callerOf[k] = d
      BY <1>3, <2>2, <2>3 DEF OnItsWay
    <3> QED  BY <3>1, <3>2, <3>3 DEF OnItsWay
  <2>5. recent'[c][0] >= Through(c)'
    BY <1>5, <1>7, <1>9, <1>10 DEF Through
  <2>6. InSight'
    <3>1. ASSUME NEW k \in Handlers
          PROVE  /\ stage'[k] = "expiring" => recent'[callerOf[k]][0] >= Through(callerOf[k])'
                 /\ stage'[k] = "late" => recent'[callerOf[k]][1] >= Through(callerOf[k])'
      <4>1. CASE k = h
        BY <2>3, <2>5, <4>1
      <4>2. CASE k # h
        <5>1. stage'[k] = stage[k]
          BY <1>4, <4>2
        <5>2. CASE Between(k)
          BY <1>3, <1>4, <2>1, <5>1, <5>2 DEF InSight
        <5>3. CASE ~ Between(k)
          BY <5>1, <5>3 DEF Between
        <5> QED  BY <5>2, <5>3
      <4> QED  BY <4>1, <4>2
    <3>2. \A d \in Callers : ttl'[d] > 0 => recent'[d][Window - ttl'[d] + 1] >= Through(d)'
      BY <1>3, <2>3 DEF InSight
    <3> QED  BY <3>1, <3>2 DEF InSight
  <2> QED  BY <2>4, <2>6
<1>11. ASSUME count[c] > 0, stage'[h] \in {"forwarding", "refused"},
              \A n \in Spans : recent'[c][n] - recent[c][n] = Through(c)' - Through(c),
              \A n \in Spans : recent'[c][n] \in Nat
       PROVE  OnItsWay' /\ InSight'
  <2>1. \A k \in Handlers : /\ Between(k)' <=> Between(k)
                            /\ Between(k) => stage'[k] = stage[k]
    BY <1>4, <1>8, <1>11 DEF Between
  <2>2. \A d \in Callers : ttl'[d] = ttl[d]
    BY <1>3, <1>9, <1>11
  <2>3. OnItsWay'
    BY <1>4, <2>1, <2>2 DEF OnItsWay
  <2>4. Through(c) \in Nat /\ Through(c)' \in Nat
    BY <1>5, <1>9 DEF Through
  <2>5. \A d \in Callers : \A n \in Spans :
          recent[d][n] >= Through(d) => recent'[d][n] >= Through(d)'
    BY <1>3, <1>5, <1>11, <2>4
  <2>6. InSight'
    <3>1. ASSUME NEW k \in Handlers
          PROVE  /\ stage'[k] = "expiring" => recent'[callerOf[k]][0] >= Through(callerOf[k])'
                 /\ stage'[k] = "late" => recent'[callerOf[k]][1] >= Through(callerOf[k])'
      <4>1. 0 \in Spans /\ 1 \in Spans
        OBVIOUS
      <4> QED  BY <1>4, <2>1, <2>5, <4>1 DEF InSight, Between
    <3>2. ASSUME NEW d \in Callers, ttl'[d] > 0
          PROVE  recent'[d][Window - ttl'[d] + 1] >= Through(d)'
      <4>1. Window - ttl[d] + 1 \in Spans
        <5>1. ttl[d] \in -1 .. Window /\ ttl[d] > 0
          BY <2>2, <3>2 DEF GatewayTypeOK
        <5> QED  BY <5>1
      <4> QED  BY <2>2, <2>5, <3>2, <4>1 DEF InSight
    <3> QED  BY <3>1, <3>2 DEF InSight
  <2> QED  BY <2>3, <2>6
<1>12. CASE count[c] \in 1 .. Limit - 1 /\ stage' = [stage EXCEPT ![h] = "forwarding"] /\ Admits(c)
  <2>1. Through(c)' = Through(c) + 1 /\ Through(c) \in Nat
    BY <1>5, <1>9, <1>12 DEF Through
  <2>2. \A n \in Spans : /\ recent'[c][n] - recent[c][n] = Through(c)' - Through(c)
                         /\ recent'[c][n] \in Nat
    BY <1>5, <1>7, <1>12, <2>1
  <2>3. stage'[h] = "forwarding" /\ count[c] > 0
    BY <1>12 DEF GatewayTypeOK
  <2> QED  BY <1>11, <2>2, <2>3
<1>13. CASE count[c] >= Limit /\ stage' = [stage EXCEPT ![h] = "refused"] /\ UNCHANGED recent
  <2>1. Through(c)' = Through(c) /\ Through(c) \in Nat
    BY <1>5, <1>9, <1>13 DEF Through
  <2>2. \A n \in Spans : /\ recent'[c][n] - recent[c][n] = Through(c)' - Through(c)
                         /\ recent'[c][n] \in Nat
    BY <1>5, <1>13, <2>1
  <2>3. stage'[h] = "refused" /\ count[c] > 0
    BY <1>5, <1>13 DEF GatewayTypeOK
  <2> QED  BY <1>11, <2>2, <2>3
<1> QED  BY <1>2, <1>10, <1>12, <1>13 DEF c


\* EXPIRE starts the ttl of the one key it is for, a tick after INCR at most.
LEMMA ExpireKeeps ==
  ASSUME GatewayTypeOK, Growing, KeyInv, NEW h \in Handlers, Expire(h)
  PROVE  KeyInv'
<1> USE LimitAssumption, CallerAssumption DEF Spans, Never
<1> DEFINE c == callerOf[h]
<1>1. /\ c \in Callers /\ Between(h) /\ UNCHANGED <<count, recent, faults>>
      /\ ttl' = [ttl EXCEPT ![c] = IF count[c] = 0 THEN 0 ELSE Window]
      /\ stage' = [stage EXCEPT ![h] = "forwarding"]
  BY DEF Expire, Expires, Goes, Between
<1> HIDE DEF c
<1> SUFFICES ASSUME faults = 0, OnItsWay, InSight PROVE OnItsWay' /\ InSight'
  BY <1>1 DEF KeyInv
<1>2. ttl[c] = -1 /\ count[c] # 0
  BY <1>1 DEF OnItsWay, GatewayTypeOK, c
<1>3. ttl'[c] = Window /\ \A d \in Callers \ {c} : ttl'[d] = ttl[d]
  BY <1>1, <1>2 DEF GatewayTypeOK
<1>4. \A k \in Handlers : /\ Between(k)' <=> Between(k) /\ k # h
                          /\ Between(k)' => stage'[k] = stage[k] /\ callerOf[k] # c
  <2>1. \A k \in Handlers : Between(k) /\ callerOf[k] = c => k = h
    BY <1>1 DEF OnItsWay, c
  <2> QED  BY <1>1, <2>1 DEF Between, GatewayTypeOK
<1>5. OnItsWay'
  BY <1>1, <1>3, <1>4 DEF OnItsWay, c
<1>6. \A d \in Callers : Through(d)' = Through(d)
  BY <1>1 DEF Through
<1>7. InSight'
  <2>1. ASSUME NEW k \in Handlers
        PROVE  /\ stage'[k] = "expiring" => recent'[callerOf[k]][0] >= Through(callerOf[k])'
               /\ stage'[k] = "late" => recent'[callerOf[k]][1] >= Through(callerOf[k])'
    BY <1>1, <1>4, <1>6 DEF InSight, Between
  <2>2. ASSUME NEW d \in Callers, ttl'[d] > 0
        PROVE  recent'[d][Window - ttl'[d] + 1] >= Through(d)'
    <3>1. CASE d # c
      BY <1>1, <1>3, <1>6, <2>2, <3>1 DEF InSight
    <3>2. CASE d = c
      <4>1. recent[c][0] >= Through(c) \/ recent[c][1] >= Through(c)
        BY <1>1 DEF InSight, Between, c
      <4>2. recent[c][0] <= recent[c][1]
        BY <1>1 DEF Growing
      <4>3. recent[c][0] \in Nat /\ recent[c][1] \in Nat /\ Through(c) \in Nat
        BY <1>1 DEF GatewayTypeOK, Through
      <4> QED  BY <1>1, <1>3, <1>6, <3>2, <4>1, <4>2, <4>3
    <3> QED  BY <3>1, <3>2
  <2> QED  BY <2>1, <2>2 DEF InSight
<1> QED  BY <1>5, <1>7


\* A tick takes a request from INCR to late, and a key and its past one tick further.
LEMMA TickKeeps ==
  ASSUME GatewayTypeOK, KeyInv, Tick
  PROVE  KeyInv'
<1> USE LimitAssumption, CallerAssumption DEF Spans, Never
<1>1. /\ \A h \in Handlers : stage[h] # "late"
      /\ recent' = [c \in Callers |-> [n \in Spans |-> IF n = 0 THEN 0 ELSE recent[c][n - 1]]]
      /\ ttl' = [c \in Callers |-> IF ttl[c] > 0 THEN ttl[c] - 1 ELSE ttl[c]]
      /\ count' = [c \in Callers |-> IF ttl[c] = 1 THEN 0 ELSE count[c]]
      /\ stage' = [h \in Handlers |-> IF stage[h] = "expiring" THEN "late" ELSE stage[h]]
      /\ UNCHANGED faults
  BY DEF Tick
<1> SUFFICES ASSUME faults = 0, OnItsWay, InSight PROVE OnItsWay' /\ InSight'
  BY <1>1 DEF KeyInv
<1>2. \A h \in Handlers : /\ Between(h)' <=> Between(h)
                          /\ Between(h) => stage[h] = "expiring" /\ stage'[h] = "late"
  BY <1>1 DEF Between
<1>3. \A c \in Callers : ttl'[c] = -1 <=> ttl[c] = -1
  BY <1>1 DEF GatewayTypeOK
<1>4. OnItsWay'
  BY <1>2, <1>3 DEF OnItsWay
<1>5. \A c \in Callers : ttl[c] # 1 => Through(c)' = Through(c)
  BY <1>1 DEF Through
<1>6. InSight'
  <2>1. ASSUME NEW h \in Handlers
        PROVE  /\ stage'[h] = "expiring" => recent'[callerOf[h]][0] >= Through(callerOf[h])'
               /\ stage'[h] = "late" => recent'[callerOf[h]][1] >= Through(callerOf[h])'
    <3>1. stage'[h] # "expiring"
      BY <1>1
    <3>2. ASSUME stage'[h] = "late"
          PROVE  recent'[callerOf[h]][1] >= Through(callerOf[h])'
      <4>1. stage[h] = "expiring" /\ callerOf[h] \in Callers
        BY <1>1, <3>2
      <4>2. ttl[callerOf[h]] = -1
        BY <4>1 DEF OnItsWay, Between
      <4>3. recent'[callerOf[h]][1] = recent[callerOf[h]][0]
        BY <1>1, <4>1
      <4> QED  BY <1>5, <4>1, <4>2, <4>3 DEF InSight
    <3> QED  BY <3>1, <3>2
  <2>2. ASSUME NEW c \in Callers, ttl'[c] > 0
        PROVE  recent'[c][Window - ttl'[c] + 1] >= Through(c)'
    <3>1. ttl[c] \in 2 .. Window /\ ttl'[c] = ttl[c] - 1
      BY <1>1, <2>2 DEF GatewayTypeOK
    <3> DEFINE n == Window - ttl'[c] + 1
    <3>2. n \in 1 .. Window /\ n - 1 = Window - ttl[c] + 1
      BY <3>1
    <3>3. recent'[c][n] = recent[c][n - 1]
      BY <1>1, <3>2
    <3>4. recent[c][Window - ttl[c] + 1] >= Through(c)
      BY <3>1 DEF InSight
    <3>5. Through(c)' = Through(c)
      BY <1>5, <3>1
    <3> QED  BY <3>2, <3>3, <3>4, <3>5
  <2> QED  BY <2>1, <2>2 DEF InSight
<1> QED  BY <1>4, <1>6

\* "Rate limit exceeded: ... req/min" (main.py:147): while Redis does not fail, whoever
\* is refused has had a limit of requests let through within a window and one tick.
THEOREM GatewayRefusesForCause == GatewaySpec => RefusedForCause
<1> USE LimitAssumption, CallerAssumption DEF Spans, Never
<1>1. GatewayInit => KeyInv
  BY DEF GatewayInit, KeyInv, OnItsWay, InSight, Between
<1>2. GatewayTypeOK /\ WindowInv /\ KeyInv /\ [GatewayNext]_gatewayVars => KeyInv'
  <2> SUFFICES ASSUME GatewayTypeOK, WindowInv, KeyInv, [GatewayNext]_gatewayVars PROVE KeyInv'
    OBVIOUS
  <2>1. ASSUME NEW h \in Handlers, Count(h) PROVE KeyInv'
    BY <2>1, CountKeeps
  <2>2. ASSUME NEW h \in Handlers, Expire(h) PROVE KeyInv'
    BY <2>2, ExpireKeeps DEF WindowInv
  <2>3. ASSUME Fault PROVE KeyInv'
    BY <2>3 DEF Fault, KeyInv, GatewayTypeOK
  <2>4. ASSUME NEW h \in Handlers, Arrive(h) PROVE KeyInv'
    BY <2>4, ElsewhereKeeps DEF Arrive, Goes, Between, GatewayTypeOK, Answers
  <2>5. ASSUME NEW h \in Handlers, Forward(h) \/ Respond(h) \/ TimesOut(h) PROVE KeyInv'
    BY <2>5, ElsewhereKeeps DEF Forward, Respond, TimesOut, Goes, Between, GatewayTypeOK
  <2>6. CASE Tick
    BY <2>6, TickKeeps
  <2>7. CASE UNCHANGED gatewayVars
    BY <2>7, ElsewhereKeeps DEF gatewayVars
  <2> QED
    BY <2>1, <2>2, <2>3, <2>4, <2>5, <2>6, <2>7 DEF GatewayNext, RedisFails, Evict
<1>3. GatewayTypeOK /\ WindowInv /\ KeyInv /\ [GatewayNext]_gatewayVars
        => \A h \in Handlers :
             stage[h] = "counting" /\ stage'[h] = "refused" /\ faults = 0
               => recent[callerOf[h]][Window + 1] >= Limit
  <2> SUFFICES ASSUME GatewayTypeOK, WindowInv, KeyInv, [GatewayNext]_gatewayVars,
                      NEW h \in Handlers,
                      stage[h] = "counting", stage'[h] = "refused", faults = 0
               PROVE  recent[callerOf[h]][Window + 1] >= Limit
    OBVIOUS
  <2> DEFINE c == callerOf[h]
  <2>1. count[c] >= Limit /\ c \in Callers
    <3>1. ASSUME NEW k \in Handlers, Count(k) PROVE count[c] >= Limit
      BY <3>1 DEF Count, Goes, GatewayTypeOK
    <3>2. ASSUME NEW k \in Handlers,
                 Arrive(k) \/ Expire(k) \/ RedisFails(k) \/ Forward(k) \/ Respond(k) \/ TimesOut(k)
          PROVE  FALSE
      BY <3>2 DEF Arrive, Expire, RedisFails, Forward, Respond, TimesOut, Goes, GatewayTypeOK
    <3>3. ASSUME \/ \E d \in Callers : Evict(d)
                 \/ Tick
                 \/ UNCHANGED gatewayVars
          PROVE  FALSE
      BY <3>3 DEF Evict, Tick, gatewayVars
    <3> QED  BY <3>1, <3>2, <3>3 DEF GatewayNext
  <2> HIDE DEF c
  <2>2. Through(c) = Limit
    BY <2>1 DEF Through, GatewayTypeOK
  <2>3. \E n \in Spans : recent[c][n] >= Limit
    <3>1. ttl[c] \in -1 .. Window /\ ttl[c] # 0
      BY <2>1 DEF GatewayTypeOK
    <3>2. CASE ttl[c] = -1
      <4>1. PICK k \in Handlers : Between(k) /\ callerOf[k] = c
        BY <2>1, <3>2 DEF KeyInv, OnItsWay
      <4>2. recent[c][0] >= Limit \/ recent[c][1] >= Limit
        BY <2>2, <4>1 DEF KeyInv, InSight, Between
      <4> QED  BY <4>2
    <3>3. CASE ttl[c] > 0
      <4>1. Window - ttl[c] + 1 \in Spans
        BY <3>1, <3>3
      <4>2. recent[c][Window - ttl[c] + 1] >= Limit
        BY <2>1, <2>2, <3>3 DEF KeyInv, InSight
      <4> QED  BY <4>1, <4>2
    <3> QED  BY <3>1, <3>2, <3>3
  <2>4. PICK n \in Spans : recent[c][n] >= Limit
    BY <2>3
  <2>5. Window + 1 \in Spans /\ n <= Window + 1
    OBVIOUS
  <2>6. recent[c][n] <= recent[c][Window + 1]
    BY <2>1, <2>5 DEF WindowInv, Growing
  <2>7. recent[c][n] \in Nat /\ recent[c][Window + 1] \in Nat
    BY <2>1, <2>5 DEF GatewayTypeOK
  <2> QED  BY <2>4, <2>6, <2>7 DEF c
<1> QED  BY <1>1, <1>2, <1>3, GatewayTypes, GatewayWindows, PTL DEF GatewaySpec, RefusedForCause

=============================================================================
