------------------------ MODULE AgentRegistryProofs ------------------------
(***************************************************************************)
(* Machine-checked proofs about AgentRegistry, for any number of agents    *)
(* and workers and any thresholds and periods.                             *)
(***************************************************************************)
EXTENDS AgentRegistry, TLAPS

\* Between two passes an entry that discovery may hand out was heard after the
\* threshold of the last pass.
HeardSincePass ==
  \A w \in Workers, a \in Agents :
    <<w, a>> \in known /\ status[<<w, a>>] \in {"healthy", "degraded"} =>
      age[<<w, a>>] <= Threshold + slept[w]

IInv == TypeOK /\ HeardSincePass

\* What a step does to one worker's store, whoever takes it: entries are heard
\* or erased, or keep status and age.
StoreStep ==
  /\ known' \subseteq Entries
  /\ status' \in [Entries -> Statuses]
  /\ age' \in [Entries -> 0 .. AgeCap]
  /\ \A k \in Entries : \/ age'[k] = 0
                        \/ age'[k] = age[k] /\ status'[k] = status[k]
                           /\ (k \in known' <=> k \in known)

LEMMA RegisterStep ==
  ASSUME TypeOK, NEW w \in Workers, NEW a \in Agents, Register(w, a)
  PROVE  StoreStep /\ UNCHANGED breaker /\ known \subseteq known'
<1>1. <<w, a>> \in Entries /\ 0 \in 0 .. AgeCap /\ "healthy" \in Statuses
  BY TimeAssumption DEF Entries, AgeCap, Longest, Statuses
<1>2. QED
  BY <1>1 DEF Register, StoreStep, TypeOK

LEMMA HeartbeatStep ==
  ASSUME TypeOK, NEW w \in Workers, NEW a \in Agents, NEW s \in Statuses,
         Heartbeat(w, a, s)
  PROVE  /\ StoreStep /\ UNCHANGED known
         /\ breaker' \in [Entries -> Breakers]
         /\ \A k \in Entries : breaker'[k] # breaker[k] => breaker[k] = "HALF_OPEN"
         /\ \A k \in Entries : k \in known \/ (status'[k] = status[k]
                                 /\ breaker'[k] = breaker[k] /\ age'[k] = age[k])
<1>1. <<w, a>> \in Entries /\ 0 \in 0 .. AgeCap
  BY TimeAssumption DEF Entries, AgeCap, Longest
<1>2. CASE <<w, a>> \notin known
  BY <1>2 DEF Heartbeat, StoreStep, storeVars, TypeOK
<1>3. CASE <<w, a>> \in known
  <2>1. /\ status' = [status EXCEPT ![<<w, a>>] = s]
        /\ age' = [age EXCEPT ![<<w, a>>] = 0]
        /\ breaker' = [breaker EXCEPT ![<<w, a>>] =
             IF breaker[<<w, a>>] = "HALF_OPEN" /\ s = "healthy"
             THEN "CLOSED" ELSE breaker[<<w, a>>]]
        /\ UNCHANGED known
    BY <1>3 DEF Heartbeat
  <2>2. StoreStep
    BY <1>1, <2>1 DEF StoreStep, TypeOK
  <2>3. /\ breaker' \in [Entries -> Breakers]
        /\ \A k \in Entries : breaker'[k] # breaker[k] => breaker[k] = "HALF_OPEN"
    BY <1>1, <2>1 DEF TypeOK, Breakers
  <2>4. QED
    BY <1>1, <1>3, <2>1, <2>2, <2>3 DEF TypeOK
<1>4. QED
  BY <1>2, <1>3

LEMMA EraseStep ==
  ASSUME TypeOK, NEW ks \in SUBSET Entries, Erase(ks)
  PROVE  /\ StoreStep /\ breaker' \in [Entries -> Breakers]
         /\ \A k \in Entries \ known' :
              status'[k] = "offline" /\ breaker'[k] = "CLOSED" /\ age'[k] = 0
         /\ \A k \in known' : breaker'[k] = breaker[k] /\ k \notin ks
  BY TimeAssumption DEF Erase, StoreStep, TypeOK, AgeCap, Longest, Statuses, Breakers

LEMMA StoreStepHeard ==
  ASSUME IInv, StoreStep, NEW ws \in SUBSET Workers,
         slept' \in [Workers -> 0 .. Period + Slack],
         \A w \in Workers \ ws : slept'[w] = slept[w],
         \A w \in ws, a \in Agents : <<w, a>> \notin known'
  PROVE  HeardSincePass'
  BY TimeAssumption DEF IInv, StoreStep, HeardSincePass, TypeOK, Entries

-----------------------------------------------------------------------------
LEMMA InitIInv == Init => IInv
  BY TimeAssumption, LimitAssumption
  DEF Init, IInv, TypeOK, HeardSincePass, AgeCap, Longest, Statuses, Breakers

LEMMA StepIInv == IInv /\ [Next]_vars => IInv'
<1> SUFFICES ASSUME IInv, [Next]_vars PROVE IInv'
  OBVIOUS
<1> USE TimeAssumption, LimitAssumption DEF IInv
<1>a. 0 \in 0 .. AgeCap /\ 0 \in 0 .. Period + Slack
  BY DEF AgeCap, Longest
<1>1. ASSUME NEW w \in Workers, NEW a \in Agents, Deregister(w, a) PROVE IInv'
  <2>1. StoreStep /\ TypeOK'
    BY <1>1, EraseStep DEF Deregister, agentVars, TypeOK, StoreStep, Entries
  <2>2. HeardSincePass'
    BY <1>1, <2>1, StoreStepHeard, {} \in SUBSET Workers DEF Deregister, TypeOK
  <2>3. QED
    BY <2>1, <2>2
<1>2. ASSUME NEW w \in Workers, NEW a \in Agents, NEW s \in Statuses, OtherBeat(w, a, s)
      PROVE  IInv'
  <2>1. StoreStep /\ TypeOK'
    BY <1>2, HeartbeatStep DEF OtherBeat, agentVars, TypeOK, StoreStep
  <2>2. HeardSincePass'
    BY <1>2, <2>1, StoreStepHeard, {} \in SUBSET Workers DEF OtherBeat, TypeOK
  <2>3. QED
    BY <2>1, <2>2
<1>3. ASSUME NEW w \in Workers, NEW a \in Agents, NEW b \in Breakers, SetBreaker(w, a, b)
      PROVE  IInv'
  <2>1. TypeOK'
    BY <1>3, <1>a DEF SetBreaker, agentVars, TypeOK
  <2>2. HeardSincePass'
    BY <1>3 DEF SetBreaker, HeardSincePass
  <2>3. QED
    BY <2>1, <2>2
<1>4. ASSUME NEW w \in Workers, MonitorPass(w) PROVE IInv'
  <2>1. TypeOK'
    <3>1. /\ status' \in [Entries -> Statuses] /\ breaker' \in [Entries -> Breakers]
           /\ slept' \in [Workers -> 0 .. Period + Slack]
      BY <1>4, <1>a DEF MonitorPass, TypeOK, Statuses, Breakers
    <3>2. \A k \in Entries \ known : status'[k] = status[k] /\ breaker'[k] = breaker[k]
      BY <1>4 DEF MonitorPass, Silenced, Opens, HalfOpens, Stale
    <3>3. QED
      BY <1>4, <3>1, <3>2 DEF MonitorPass, agentVars, TypeOK
  <2>2. HeardSincePass'
    <3> SUFFICES ASSUME NEW v \in Workers, NEW a \in Agents, <<v, a>> \in known',
                        status'[<<v, a>>] \in {"healthy", "degraded"}
                 PROVE  age'[<<v, a>>] <= Threshold + slept'[v]
      BY DEF HeardSincePass
    <3>1. <<v, a>> \in Entries /\ <<v, a>>[1] = v
      BY DEF Entries
    <3>2. UNCHANGED <<known, age>>
      BY <1>4 DEF MonitorPass
    <3>3. CASE v = w
      <4>1. status'[<<v, a>>] = IF Silenced(<<v, a>>) THEN "unhealthy"
                                ELSE status[<<v, a>>]
        BY <1>4, <3>1, <3>3 DEF MonitorPass
      <4>2. ~ Stale(<<v, a>>)
        BY <4>1 DEF Silenced
      <4>3. slept'[v] = 0
        BY <1>4, <3>3 DEF MonitorPass, TypeOK
      <4>4. QED
        BY <3>1, <3>2, <4>2, <4>3 DEF Stale, TypeOK
    <3>4. CASE v # w
      <4>1. status'[<<v, a>>] = status[<<v, a>>] /\ slept'[v] = slept[v]
        BY <1>4, <3>1, <3>4 DEF MonitorPass, TypeOK
      <4>2. QED
        BY <3>2, <4>1 DEF HeardSincePass
    <3>5. QED
      BY <3>3, <3>4
  <2>3. QED
    BY <2>1, <2>2
<1>5. ASSUME NEW w \in Workers, Restart(w) PROVE IInv'
  <2>1. {w} \X Agents \in SUBSET Entries
    BY DEF Entries
  <2>2. /\ StoreStep /\ breaker' \in [Entries -> Breakers]
        /\ \A k \in Entries \ known' :
             status'[k] = "offline" /\ breaker'[k] = "CLOSED" /\ age'[k] = 0
        /\ \A k \in known' : k \notin {w} \X Agents
    BY <1>5, <2>1, EraseStep DEF Restart
  <2>3. TypeOK'
    BY <1>5, <1>a, <2>2 DEF Restart, agentVars, TypeOK, StoreStep
  <2>4. HeardSincePass'
    <3>1. {w} \in SUBSET Workers /\ \A v \in Workers \ {w} : slept'[v] = slept[v]
      BY <1>5 DEF Restart, TypeOK
    <3>2. \A v \in {w}, a \in Agents : <<v, a>> \notin known'
      BY <2>2
    <3>3. slept' \in [Workers -> 0 .. Period + Slack]
      BY <2>3 DEF TypeOK
    <3>4. QED
      BY <2>2, <3>1, <3>2, <3>3, StoreStepHeard
  <2>5. QED
    BY <2>3, <2>4
<1>6. ASSUME NEW a \in Agents, StartAgent(a) PROVE IInv'
  BY <1>6 DEF StartAgent, storeVars, TypeOK, HeardSincePass
<1>b. ASSUME NEW a \in Agents, NEW w \in Workers, Register(w, a), UNCHANGED slept
      PROVE  StoreStep /\ HeardSincePass'
  <2>1. StoreStep
    BY <1>b, RegisterStep
  <2>2. QED
    BY <1>b, <2>1, StoreStepHeard, {} \in SUBSET Workers DEF TypeOK
<1>7. ASSUME NEW a \in Agents, RegisterSucceeds(a) PROVE IInv'
  <2>1. PICK w \in Workers : Register(w, a)
    BY <1>7 DEF RegisterSucceeds
  <2>2. UNCHANGED slept
    BY <1>7 DEF RegisterSucceeds
  <2>3. TypeOK'
    <3>1. StoreStep /\ UNCHANGED breaker
      BY <2>1, RegisterStep
    <3>2. \A k \in Entries \ known' :
            status'[k] = "offline" /\ breaker'[k] = "CLOSED" /\ age'[k] = 0
      BY <2>1 DEF Register, TypeOK
    <3>3. QED
      BY <1>7, <3>1, <3>2 DEF RegisterSucceeds, TypeOK, StoreStep
  <2>4. QED
    BY <1>b, <2>1, <2>2, <2>3
<1>8. ASSUME NEW a \in Agents, RegisterFails(a) PROVE IInv'
  <2>1. /\ process' \in [Agents -> {"down", "registering", "running"}]
        /\ tries' \in [Agents -> 0 .. RegisterTries]
        /\ UNCHANGED <<slept, idle, manual>>
    BY <1>8 DEF RegisterFails, TypeOK
  <2>2. CASE UNCHANGED storeVars
    BY <2>1, <2>2 DEF storeVars, TypeOK, HeardSincePass
  <2>3. ASSUME NEW w \in Workers, Register(w, a) PROVE IInv'
    <3>1. StoreStep /\ UNCHANGED breaker
      BY <2>3, RegisterStep
    <3>2. \A k \in Entries \ known' :
            status'[k] = "offline" /\ breaker'[k] = "CLOSED" /\ age'[k] = 0
      BY <2>3 DEF Register, TypeOK
    <3>3. TypeOK'
      BY <2>1, <3>1, <3>2 DEF TypeOK, StoreStep
    <3>4. QED
      BY <1>b, <2>1, <2>3, <3>3
  <2>4. QED
    BY <1>8, <2>2, <2>3 DEF RegisterFails
<1>9. ASSUME NEW a \in Agents, Beat(a) PROVE IInv'
  <2>1. UNCHANGED storeVars
    BY <1>9 DEF Beat, Encodable, LoopReport
  <2>2. QED
    BY <1>9, <2>1 DEF Beat, storeVars, TypeOK, HeardSincePass
<1>10. ASSUME NEW a \in Agents, StopAgent(a) PROVE IInv'
  BY <1>10 DEF StopAgent, storeVars, TypeOK, HeardSincePass
<1>11. CASE Tick
  <2>1. \A k \in Entries : age'[k] = OneOlder(k) /\ OneOlder(k) \in 0 .. AgeCap
                           /\ OneOlder(k) <= age[k] + 1
                           /\ (k \notin known => OneOlder(k) = age[k])
    BY <1>11 DEF Tick, OneOlder, TypeOK, AgeCap, Longest
  <2>2. /\ age' \in [Entries -> 0 .. AgeCap]
        /\ slept' \in [Workers -> 0 .. Period + Slack]
        /\ idle' \in [Agents -> 0 .. Interval]
    <3>1. age' \in [Entries -> 0 .. AgeCap]
      BY <1>11, <2>1 DEF Tick
    <3>2. slept' \in [Workers -> 0 .. Period + Slack] /\ idle' \in [Agents -> 0 .. Interval]
      BY <1>11 DEF Tick, TypeOK
    <3>3. QED
      BY <3>1, <3>2
  <2>3. TypeOK'
    BY <1>11, <2>1, <2>2 DEF Tick, TypeOK
  <2>4. HeardSincePass'
    <3>1. \A w \in Workers : slept'[w] = slept[w] + 1
      BY <1>11 DEF Tick
    <3>2. QED
      BY <1>11, <2>1, <3>1 DEF Tick, HeardSincePass, TypeOK, Entries
  <2>5. QED
    BY <2>3, <2>4
<1>12. CASE UNCHANGED vars
  BY <1>12 DEF vars, storeVars, agentVars, TypeOK, HeardSincePass
<1>13. QED
  BY <1>1, <1>2, <1>3, <1>4, <1>5, <1>6, <1>7, <1>8, <1>9, <1>10, <1>11, <1>12
  DEF Next, Request

LEMMA AlwaysIInv == Spec => []IInv
  BY InitIInv, StepIInv, PTL DEF Spec

-----------------------------------------------------------------------------
\* The variables keep their types; an agent without an entry has no history.
THEOREM TypeCorrect == Spec => []TypeOK
<1>1. IInv => TypeOK
  BY DEF IInv
<1>2. QED
  BY <1>1, AlwaysIInv, PTL

\* Discovery never hands out an agent that was silent for longer than threshold,
\* period and delay of the monitor together.
THEOREM DiscoveryIsRecent == Spec => []DiscoverableIsRecent
<1>1. IInv => DiscoverableIsRecent
  <2> SUFFICES ASSUME IInv, NEW k \in Entries, Discoverable(k)
               PROVE  age[k] <= Longest
    BY DEF DiscoverableIsRecent
  <2>1. PICK w \in Workers, a \in Agents : k = <<w, a>>
    BY DEF Entries
  <2>2. age[k] <= Threshold + slept[w]
    BY <2>1 DEF IInv, HeardSincePass, Discoverable
  <2>3. slept[w] \in 0 .. Period + Slack /\ age[k] \in Int
    BY TimeAssumption DEF IInv, TypeOK, AgeCap, Longest
  <2>4. QED
    BY <2>2, <2>3, TimeAssumption DEF Longest
<1>2. QED
  BY <1>1, AlwaysIInv, PTL

\* No registration, report, tick or pass of the monitor closes an open breaker.
THEOREM BreakerPath == Spec => NoShortcutToClosed
<1> DEFINE Shortcut ==
      \A w \in Workers, a \in Agents :
        LET k == <<w, a>> IN
        k \in known \cap known' /\ breaker[k] = "OPEN" /\ breaker'[k] = "CLOSED"
          => SetBreaker(w, a, "CLOSED")
<1>1. IInv /\ [Next]_vars => [Shortcut]_vars
  <2> SUFFICES ASSUME IInv, Next, NEW w \in Workers, NEW a \in Agents,
                      <<w, a>> \in known, <<w, a>> \in known',
                      breaker[<<w, a>>] = "OPEN", breaker'[<<w, a>>] = "CLOSED"
               PROVE  SetBreaker(w, a, "CLOSED")
    OBVIOUS
  <2> DEFINE k == <<w, a>>
  <2>0. k \in Entries /\ TypeOK
    BY DEF Entries, IInv
  <2>1. ASSUME NEW v \in Workers, NEW b \in Agents, NEW s \in Breakers, SetBreaker(v, b, s)
        PROVE  SetBreaker(w, a, "CLOSED")
    <3>1. breaker' = [breaker EXCEPT ![<<v, b>>] = s]
      BY <2>1 DEF SetBreaker
    <3>2. <<v, b>> = <<w, a>>
      BY <2>0, <3>1 DEF TypeOK
    <3>3. v = w /\ b = a /\ s = "CLOSED"
      BY <2>0, <3>1, <3>2 DEF TypeOK
    <3>4. QED
      BY <2>1, <3>3
  <2>2. ASSUME NEW v \in Workers, NEW b \in Agents, NEW s \in Statuses, Heartbeat(v, b, s)
        PROVE  FALSE
    BY <2>0, <2>2, HeartbeatStep
  <2>3. ASSUME NEW v \in Workers, NEW b \in Agents, Deregister(v, b) PROVE FALSE
    BY <2>0, <2>3 DEF Deregister, Erase
  <2>4. ASSUME NEW v \in Workers, Restart(v) PROVE FALSE
    BY <2>0, <2>4 DEF Restart, Erase
  <2>5. ASSUME NEW v \in Workers, MonitorPass(v) PROVE FALSE
    BY <2>0, <2>5 DEF MonitorPass, Opens
  <2>6. ASSUME NEW b \in Agents,
               StartAgent(b) \/ RegisterSucceeds(b) \/ RegisterFails(b) \/ StopAgent(b)
        PROVE  FALSE
    BY <2>6 DEF StartAgent, RegisterSucceeds, RegisterFails, StopAgent, Register, storeVars
  <2>7. ASSUME NEW b \in Agents, Beat(b) PROVE FALSE
    BY <2>7 DEF Beat, Encodable, LoopReport, storeVars
  <2>8. ASSUME Tick PROVE FALSE
    BY <2>8 DEF Tick
  <2>9. QED
    BY <2>1, <2>2, <2>3, <2>4, <2>5, <2>6, <2>7, <2>8 DEF Next, Request, OtherBeat
<1>2. QED
  BY <1>1, AlwaysIInv, PTL DEF Spec, NoShortcutToClosed

-----------------------------------------------------------------------------
(* The refinement. The promise sees who is trusted, and how long ago an entry was   *)
(* heard as long as that matters.                                                   *)

Trusted == {k \in known : status[k] \in {"healthy", "degraded"}}
Heard == [k \in Entries |-> IF age[k] <= Longest THEN age[k] ELSE Longest + 1]

\* Numbers of the promise are those of the registry up to the end of a lease, so that
\* both tell alike who is silent.
LEMMA HeardTells ==
  ASSUME TypeOK, NEW k \in Entries
  PROVE  /\ age[k] \in Nat /\ Longest \in Nat /\ Heard[k] \in Nat
         /\ Heard[k] > Threshold <=> age[k] > Threshold
         /\ Heard[k] <= Longest <=> age[k] <= Longest
         /\ age[k] <= Longest => Heard[k] = age[k]
  BY TimeAssumption DEF TypeOK, AgeCap, Longest, Heard

\* Whom one worker hears is heard, and nobody else is.
LEMMA HeardAlone ==
  ASSUME TypeOK, NEW k \in Entries, age' = [age EXCEPT ![k] = 0]
  PROVE  Heard' = [Heard EXCEPT ![k] = 0]
<1>1. \A j \in Entries : Heard'[j] = IF j = k THEN 0 ELSE Heard[j]
  BY TimeAssumption DEF TypeOK, Heard, Longest
<1> QED
  BY <1>1 DEF Heard

LEMMA InitPromises == Init => Promise!Init
<1> SUFFICES ASSUME Init PROVE Promise!Init
  OBVIOUS
<1>1. Heard = [k \in Entries |-> 0]
  BY TimeAssumption DEF Init, Heard, Longest
<1> QED
  BY <1>1 DEF Init, Promise!Init, Heard

\* A registration is heard.
LEMMA RegisterPromises ==
  ASSUME TypeOK, NEW w \in Workers, NEW a \in Agents, Register(w, a)
  PROVE  Promise!Hear(<<w, a>>)
<1> DEFINE k == <<w, a>>
<1>1. k \in Entries
  BY DEF Entries
<1>2. /\ known' = known \cup {k} /\ UNCHANGED breaker
      /\ status' = [status EXCEPT ![k] = "healthy"] /\ age' = [age EXCEPT ![k] = 0]
  BY DEF Register
<1>3. Heard' = [Heard EXCEPT ![k] = 0]
  BY <1>1, <1>2, HeardAlone
<1>4. Trusted' = Trusted \cup {k}
  BY <1>1, <1>2 DEF Trusted, TypeOK
<1> QED
  BY <1>2, <1>3, <1>4 DEF Promise!Hear, Trusted, Heard

\* So is a report of a known entry; another one changes nothing.
LEMMA HeartbeatPromises ==
  ASSUME TypeOK, NEW w \in Workers, NEW a \in Agents, NEW s \in Statuses, Heartbeat(w, a, s)
  PROVE  Promise!Hear(<<w, a>>) \/ UNCHANGED storeVars
<1> DEFINE k == <<w, a>>
<1>1. k \in Entries
  BY DEF Entries
<1>2. CASE k \notin known
  BY <1>2 DEF Heartbeat
<1>3. CASE k \in known
  <2>1. /\ status' = [status EXCEPT ![k] = s] /\ age' = [age EXCEPT ![k] = 0]
        /\ breaker' = [breaker EXCEPT ![k] =
             IF breaker[k] = "HALF_OPEN" /\ s = "healthy" THEN "CLOSED" ELSE breaker[k]]
        /\ UNCHANGED known
    BY <1>3 DEF Heartbeat
  <2>2. Heard' = [Heard EXCEPT ![k] = 0]
    BY <1>1, <2>1, HeardAlone
  <2>3. /\ Trusted' \in {Trusted \cup {k}, Trusted \ {k}}
        /\ s = "healthy" => k \in Trusted'
    <3>1. \A j \in Entries : status'[j] = IF j = k THEN s ELSE status[j]
      BY <1>1, <2>1 DEF TypeOK
    <3>2. known \subseteq Entries
      BY DEF TypeOK
    <3>3. CASE s \in {"healthy", "degraded"}
      <4>1. Trusted' = Trusted \cup {k} /\ k \in Trusted'
        BY <1>3, <2>1, <3>1, <3>2, <3>3 DEF Trusted
      <4> QED
        BY <4>1
    <3>4. CASE s \notin {"healthy", "degraded"}
      <4>1. Trusted' = Trusted \ {k}
        BY <1>3, <2>1, <3>1, <3>2, <3>4 DEF Trusted
      <4> QED
        BY <3>4, <4>1
    <3> QED
      BY <3>3, <3>4
  <2>4. \/ UNCHANGED breaker
        \/ /\ breaker[k] = "HALF_OPEN" /\ k \in Trusted'
           /\ breaker' = [breaker EXCEPT ![k] = "CLOSED"]
    BY <1>1, <2>1, <2>3 DEF TypeOK
  <2>5. known' = known \cup {k}
    BY <1>3, <2>1
  <2> QED
    BY <2>2, <2>3, <2>4, <2>5 DEF Promise!Hear, Trusted, Heard
<1> QED
  BY <1>2, <1>3

\* What is erased has left.
LEMMA ErasePromises ==
  ASSUME TypeOK, NEW ks \in SUBSET Entries, Erase(ks)
  PROVE  Promise!Leave(ks)
<1>1. \A k \in Entries :
        /\ status'[k] = IF k \in ks THEN "offline" ELSE status[k]
        /\ age'[k] = IF k \in ks THEN 0 ELSE age[k]
  BY DEF Erase
<1>2. Trusted' = Trusted \ ks
  BY <1>1 DEF Erase, Trusted, TypeOK
<1>3. Heard' = [k \in Entries |-> IF k \in ks THEN 0 ELSE Heard[k]]
  BY <1>1, TimeAssumption DEF Heard, Longest
<1> QED
  BY <1>2, <1>3 DEF Erase, Promise!Leave, Trusted, Heard

\* A pass reviews the entries of its worker: the silent ones, and those that it
\* half-opens.
LEMMA PassPromises ==
  ASSUME TypeOK, NEW w \in Workers, MonitorPass(w)
  PROVE  \E S, T \in SUBSET Entries : Promise!Review(S, T)
<1> DEFINE S == {k \in Entries : k[1] = w /\ Silenced(k)}
           T == {k \in Entries : k[1] = w /\ HalfOpens(k)}
<1>1. S \in SUBSET Entries /\ T \in SUBSET Entries
  OBVIOUS
<1>2. \A k \in S : k \in known /\ Heard[k] > Threshold
  BY HeardTells DEF Silenced, Stale
<1>3. \A k \in T : k \in known /\ Heard[k] <= Threshold /\ breaker[k] = "OPEN"
  BY HeardTells, TimeAssumption DEF HalfOpens, Stale
<1>4. Trusted' = Trusted \ S
  <2>1. /\ known' = known /\ known \subseteq Entries
        /\ \A k \in Entries : status'[k] = IF k \in S THEN "unhealthy" ELSE status[k]
    BY DEF MonitorPass, TypeOK
  <2> QED
    BY <2>1 DEF Trusted
<1>5. breaker' = [k \in Entries |-> IF k \in S /\ breaker[k] = "CLOSED" THEN "OPEN"
                                    ELSE IF k \in T THEN "HALF_OPEN" ELSE breaker[k]]
  <2>1. \A k \in Entries : k[1] = w /\ Opens(k) <=> k \in S /\ breaker[k] = "CLOSED"
    BY DEF Opens, Silenced
  <2>2. \A k \in Entries : k[1] = w /\ HalfOpens(k) <=> k \in T
    OBVIOUS
  <2>3. breaker' = [k \in Entries |->
          IF k[1] = w /\ Opens(k) THEN "OPEN"
          ELSE IF k[1] = w /\ HalfOpens(k) THEN "HALF_OPEN" ELSE breaker[k]]
    BY DEF MonitorPass
  <2> HIDE DEF S, T
  <2> QED
    BY <2>1, <2>2, <2>3
<1>6. UNCHANGED <<known, Heard>>
  BY DEF MonitorPass, Heard
<1> HIDE DEF S, T
<1> SUFFICES Promise!Review(S, T)
  BY <1>1 DEF Promise!Review
<1> QED
  BY <1>2, <1>3, <1>4, <1>5, <1>6 DEF Promise!Review, Trusted, Heard

\* Time passes: the monitors have withdrawn the trust that would outlive its lease.
LEMMA TickPromises ==
  ASSUME IInv, IInv', Tick
  PROVE  Promise!Pass
<1>1. \A k \in Entries :
        Heard'[k] = IF k \in known /\ Heard[k] <= Longest THEN Heard[k] + 1 ELSE Heard[k]
  <2> SUFFICES ASSUME NEW k \in Entries
               PROVE  Heard'[k] = IF k \in known /\ Heard[k] <= Longest
                                  THEN Heard[k] + 1 ELSE Heard[k]
    OBVIOUS
  <2>1. /\ age[k] \in Nat /\ age[k] <= AgeCap /\ Longest \in Nat /\ AgeCap > Longest
        /\ AgeCap \in Nat
    BY TimeAssumption DEF IInv, TypeOK, AgeCap, Longest
  <2>2. age'[k] = IF k \in known /\ age[k] < AgeCap THEN age[k] + 1 ELSE age[k]
    BY DEF Tick, OneOlder
  <2>3. /\ Heard[k] = IF age[k] <= Longest THEN age[k] ELSE Longest + 1
        /\ Heard'[k] = IF age'[k] <= Longest THEN age'[k] ELSE Longest + 1
    BY DEF Heard, Longest
  <2> QED
    BY <2>1, <2>2, <2>3
<1>2. \A k \in Trusted : Heard'[k] <= Longest
  <2> SUFFICES ASSUME NEW k \in Trusted PROVE Heard'[k] <= Longest
    OBVIOUS
  <2>1. PICK w \in Workers, a \in Agents : k = <<w, a>> /\ k \in Entries
    BY DEF Trusted, IInv, TypeOK, Entries
  <2>2. k \in Trusted'
    BY DEF Tick, Trusted
  <2>3. age'[k] <= Threshold + slept'[w] /\ slept'[w] \in 0 .. Period + Slack /\ age'[k] \in Int
    BY <2>1, <2>2, TimeAssumption DEF IInv, HeardSincePass, Trusted, TypeOK, AgeCap, Longest
  <2>4. age'[k] <= Longest
    BY <2>3, TimeAssumption DEF Longest
  <2> QED
    BY <2>1, <2>4 DEF Heard, Longest
<1>3. UNCHANGED <<known, Trusted, breaker>>
  BY DEF Tick, Trusted
<1>4. Heard' = [k \in Entries |->
                  IF k \in known /\ Heard[k] <= Longest THEN Heard[k] + 1 ELSE Heard[k]]
  BY <1>1 DEF Heard
<1> QED
  BY <1>2, <1>3, <1>4 DEF Promise!Pass, Trusted, Heard

\* Every step is a step of the promise, or changes nothing of what it speaks of.
LEMMA StepPromises == IInv /\ IInv' /\ [Next]_vars => [Promise!Next]_(Promise!vars)
<1> SUFFICES ASSUME IInv, IInv', [Next]_vars PROVE [Promise!Next]_(Promise!vars)
  OBVIOUS
<1>0. TypeOK
  BY DEF IInv
<1>a. UNCHANGED storeVars => UNCHANGED Promise!vars
  BY DEF storeVars, Promise!vars
<1>b. \A w \in Workers, a \in Agents : <<w, a>> \in Entries
  BY DEF Entries
<1>1. ASSUME NEW w \in Workers, NEW a \in Agents, Deregister(w, a) PROVE Promise!Next
  BY <1>0, <1>1, <1>b, ErasePromises DEF Deregister, Promise!Next
<1>2. ASSUME NEW w \in Workers, NEW a \in Agents, NEW s \in Statuses, OtherBeat(w, a, s)
      PROVE  [Promise!Next]_(Promise!vars)
  BY <1>0, <1>2, <1>a, <1>b, HeartbeatPromises DEF OtherBeat, Promise!Next
<1>3. ASSUME NEW w \in Workers, NEW a \in Agents, NEW b \in Breakers, SetBreaker(w, a, b)
      PROVE  Promise!Next
  <2>1. /\ <<w, a>> \in known /\ breaker' = [breaker EXCEPT ![<<w, a>>] = b]
        /\ UNCHANGED <<known, Trusted, Heard>>
    BY <1>3 DEF SetBreaker, Trusted, Heard
  <2>2. Promise!Override(<<w, a>>)
    BY <2>1 DEF Promise!Override, Promise!Breakers, Breakers, Trusted, Heard
  <2> QED
    BY <1>b, <2>2 DEF Promise!Next
<1>4. ASSUME NEW w \in Workers, MonitorPass(w) PROVE Promise!Next
  BY <1>0, <1>4, PassPromises DEF Promise!Next
<1>5. ASSUME NEW w \in Workers, Restart(w) PROVE Promise!Next
  <2>1. {w} \X Agents \in SUBSET Entries
    BY DEF Entries
  <2>2. Promise!Leave({w} \X Agents)
    BY <1>0, <1>5, <2>1, ErasePromises DEF Restart
  <2> QED
    BY <2>1, <2>2 DEF Promise!Next
<1>6. ASSUME NEW a \in Agents, RegisterSucceeds(a) \/ RegisterFails(a)
      PROVE  [Promise!Next]_(Promise!vars)
  <2>1. UNCHANGED storeVars \/ \E w \in Workers : Register(w, a)
    BY <1>6 DEF RegisterSucceeds, RegisterFails
  <2> QED
    BY <1>0, <1>a, <1>b, <2>1, RegisterPromises DEF Promise!Next
<1>7. ASSUME NEW a \in Agents, StartAgent(a) \/ Beat(a) \/ StopAgent(a)
      PROVE  UNCHANGED Promise!vars
  BY <1>7, <1>a DEF StartAgent, Beat, StopAgent, Encodable, LoopReport
<1>8. CASE Tick
  BY <1>8, TickPromises DEF Promise!Next
<1>9. CASE UNCHANGED vars
  BY <1>9, <1>a DEF vars, storeVars
<1> QED
  BY <1>1, <1>2, <1>3, <1>4, <1>5, <1>6, <1>7, <1>8, <1>9 DEF Next, Request

\* In whatever order agents register, report, fall silent and stop, workers restart and
\* breakers are set: trust lasts a lease and at least the threshold, and breakers are
\* left in order (agent-registry/main.py:122-342).
THEOREM Refinement == Spec => KeepsItsPromise
  BY InitPromises, StepPromises, AlwaysIInv, PTL DEF Spec, KeepsItsPromise, Promise!Spec

-----------------------------------------------------------------------------
(* What the promise is worth by itself. *)

WorthInv ==
  /\ known \subseteq Entries /\ Trusted \subseteq known
  /\ Heard \in [Entries -> Nat]
  /\ \A k \in Trusted : Heard[k] <= Longest

\* The promise alone, whatever implements it, implies that discovery hands out only who
\* was heard within the lease.
THEOREM PromiseIsWorth == Promise!Spec => []DiscoverableIsRecent
<1>0. Longest \in Nat
  BY TimeAssumption DEF Longest
<1>1. Promise!Init => WorthInv
  <2> SUFFICES ASSUME Promise!Init PROVE WorthInv
    OBVIOUS
  <2>1. known = {} /\ Trusted = {} /\ Heard = [k \in Entries |-> 0]
    BY DEF Promise!Init, Trusted, Heard
  <2> QED
    BY <2>1 DEF WorthInv
<1>2. WorthInv /\ [Promise!Next]_(Promise!vars) => WorthInv'
  <2> SUFFICES ASSUME WorthInv, [Promise!Next]_(Promise!vars) PROVE WorthInv'
    OBVIOUS
  <2>1. ASSUME NEW k \in Entries, Promise!Hear(k) PROVE WorthInv'
    <3>1. /\ known' = known \cup {k} /\ Trusted' \subseteq Trusted \cup {k}
          /\ Heard' = [Heard EXCEPT ![k] = 0]
      BY <2>1 DEF Promise!Hear, Trusted, Heard
    <3> QED
      BY <1>0, <3>1 DEF WorthInv
  <2>2. ASSUME NEW k \in Entries, Promise!Override(k) PROVE WorthInv'
    <3>1. UNCHANGED <<known, Trusted, Heard>>
      BY <2>2 DEF Promise!Override, Trusted, Heard
    <3> QED
      BY <3>1 DEF WorthInv
  <2>3. ASSUME NEW S \in SUBSET Entries, Promise!Leave(S) PROVE WorthInv'
    <3>1. /\ known' = known \ S /\ Trusted' = Trusted \ S
          /\ Heard' = [k \in Entries |-> IF k \in S THEN 0 ELSE Heard[k]]
      BY <2>3 DEF Promise!Leave, Trusted, Heard
    <3> QED
      BY <3>1 DEF WorthInv
  <2>4. ASSUME NEW S \in SUBSET Entries, NEW T \in SUBSET Entries, Promise!Review(S, T)
        PROVE  WorthInv'
    <3>1. Trusted' = Trusted \ S /\ UNCHANGED <<known, Heard>>
      BY <2>4 DEF Promise!Review, Trusted, Heard
    <3> QED
      BY <3>1 DEF WorthInv
  <2>5. CASE Promise!Pass
    <3>1. /\ Heard' = [k \in Entries |->
                         IF k \in known /\ Heard[k] <= Longest THEN Heard[k] + 1 ELSE Heard[k]]
          /\ \A k \in Trusted : Heard'[k] <= Longest
          /\ UNCHANGED <<known, Trusted>>
      BY <2>5 DEF Promise!Pass, Trusted, Heard
    <3> QED
      BY <1>0, <3>1 DEF WorthInv
  <2>6. CASE UNCHANGED Promise!vars
    <3>1. UNCHANGED <<known, Trusted, Heard>>
      BY <2>6 DEF Promise!vars, Trusted, Heard
    <3> QED
      BY <3>1 DEF WorthInv
  <2> QED
    BY <2>1, <2>2, <2>3, <2>4, <2>5, <2>6 DEF Promise!Next
<1>3. WorthInv => DiscoverableIsRecent
  <2> SUFFICES ASSUME WorthInv, NEW k \in Entries, Discoverable(k) PROVE age[k] <= Longest
    BY DEF DiscoverableIsRecent
  <2>1. Heard[k] <= Longest
    BY DEF WorthInv, Discoverable, Trusted
  <2> QED
    BY <1>0, <2>1 DEF Heard
<1> QED
  BY <1>1, <1>2, <1>3, PTL DEF Promise!Spec
=============================================================================
