---------------------- MODULE WorkflowLifecycleProofs ----------------------
(***************************************************************************)
(* Machine-checked proofs about WorkflowLifecycle, for any finite set of   *)
(* requests, any keys and any number of faults and crashes.                *)
(***************************************************************************)
EXTENDS WorkflowLifecycle, FiniteSetTheorems, TLAPS

Stages == Busy \cup {"none", "refused", "ended", "crashed"}

\* The types without the gauge, which is an integer as long as nothing else is
\* known about it.
Types ==
  /\ key \in [Workflows -> Keys \cup {NoKey}]
  /\ row \in [Workflows -> Rows]
  /\ exec \in [Workflows -> Stages]
  /\ verdict \in [Workflows -> Verdicts \cup {"none"}]
  /\ sent \subseteq Messages
  /\ cancelling \subseteq Workflows
  /\ started \subseteq Workflows
  /\ active \in Int
  /\ faults \in 0 .. MaxFaults
  /\ crashes \in 0 .. MaxCrashes

\* Whoever reports a verdict reports the one there is, and there is none before.
VerdictOnce ==
  /\ \A m \in sent : m.what \in Verdicts => verdict[m.wf] = m.what
  /\ \A w \in Workflows :
       verdict[w] # "none" => exec[w] \in {"marking", "ended", "crashed"}

\* Without a fault, somebody waits for every message, or died waiting.
AllWaited ==
  faults = 0 => \A m \in sent : Waited(m) \/ exec[m.wf] = "crashed"

\* A cancellation that found a row still finds it.
CancelFound == \A w \in cancelling : row[w] # "none"

IInv ==
  /\ CancelFound /\ Types /\ GaugeIsExact /\ VerdictOnce /\ RowTellsVerdict /\ OneRowPerKey
  /\ RunIsRecorded /\ AllWaited /\ EndedRowIsTerminal

-----------------------------------------------------------------------------
(* Lemmas about the operators. *)

LEMMA MessageFields ==
  ASSUME NEW m \in Messages
  PROVE  /\ m.wf \in Workflows /\ m.what \in {"pending", "running"} \cup Verdicts
         /\ m = [wf |-> m.wf, what |-> m.what]
  BY DEF Messages

LEMMA RowsStay ==
  ASSUME Types, NEW m \in Messages, Effect(m)
  PROVE  /\ row' \in [Workflows -> Rows]
         /\ \A w \in Workflows : w # m.wf => row'[w] = row[w]
         /\ \A w \in Workflows : row[w] # "none" => row'[w] # "none"
         /\ m.what # "pending" =>
              row'[m.wf] = IF row[m.wf] = "none" THEN "none" ELSE m.what
         /\ m.what = "pending" =>
              row'[m.wf] = IF KeyTaken(m.wf) THEN row[m.wf] ELSE "pending"
<1>1. m.wf \in Workflows /\ m.what \in {"pending", "running"} \cup Verdicts
  BY MessageFields
<1>2. CASE m.what = "pending"
  BY <1>1, <1>2 DEF Effect, Types, Rows
<1>3. CASE m.what # "pending"
  BY <1>1, <1>3 DEF Effect, Types, Rows, Terminal, Verdicts
<1>4. QED
  BY <1>2, <1>3

\* Recorded workflows stay recorded when no row is lost.
LEMMA RecordsStay ==
  ASSUME Types, UNCHANGED key, NEW w \in Workflows,
         \A v \in Workflows : row[v] # "none" => row'[v] # "none",
         row[w] # "none" \/ KeyTaken(w)
  PROVE  row'[w] # "none" \/ KeyTaken(w)'
  BY DEF KeyTaken

\* The gauge follows when at most one workflow begins or ends to run.
LEMMA GaugeFollows ==
  ASSUME GaugeIsExact, NEW w \in Workflows, NEW s,
         exec \in [Workflows -> Stages],
         exec' = [exec EXCEPT ![w] = s],
         active' = CASE w \notin Running /\ w \in Running' -> active + 1
                     [] w \in Running /\ w \notin Running' -> active - 1
                     [] OTHER -> active
  PROVE  GaugeIsExact'
<1>1. IsFiniteSet(Running)
  BY WorkflowsAssumption, FS_Subset DEF Running
<1>2. \A v \in Workflows : v # w => (v \in Running' <=> v \in Running)
  BY DEF Running
<1>3. Running \subseteq Workflows /\ Running' \subseteq Workflows
  BY DEF Running
<1>4. CASE w \notin Running /\ w \in Running'
  <2>1. Running' = Running \cup {w}
    BY <1>2, <1>3, <1>4
  <2>2. Cardinality(Running \cup {w}) = Cardinality(Running) + 1
    BY <1>1, <1>4, FS_AddElement
  <2>3. QED
    BY <1>4, <2>1, <2>2 DEF GaugeIsExact
<1>5. CASE w \in Running /\ w \notin Running'
  <2>1. Running' = Running \ {w}
    BY <1>2, <1>3, <1>5
  <2>2. Cardinality(Running \ {w}) = Cardinality(Running) - 1
    BY <1>1, <1>5, FS_RemoveElement
  <2>3. QED
    BY <1>5, <2>1, <2>2 DEF GaugeIsExact
<1>6. CASE w \in Running <=> w \in Running'
  <2>1. Running' = Running
    BY <1>2, <1>3, <1>6
  <2>2. active' = active
    BY <1>6
  <2>3. QED
    BY <2>1, <2>2 DEF GaugeIsExact
<1>7. QED
  BY <1>4, <1>5, <1>6

\* An answer moves one workflow and keeps the gauge exact.
LEMMA AnsweredStep ==
  ASSUME Types, GaugeIsExact, NEW m \in Messages, NEW ok \in BOOLEAN,
         Waited(m), Answered(m, ok)
  PROVE  /\ exec' \in [Workflows -> Stages] /\ active' \in Int /\ GaugeIsExact'
         /\ \A w \in Workflows : exec'[w] = IF w = m.wf THEN GoesOn(m, ok) ELSE exec[w]
<1> DEFINE w == m.wf
           s == GoesOn(m, ok)
<1>1. w \in Workflows /\ m.what \in {"pending", "running"} \cup Verdicts
  BY MessageFields
<1>2. /\ exec' = [exec EXCEPT ![w] = s]
      /\ s \in {"accepted", "refused", "publishing", "ended"}
  BY <1>1 DEF Answered, GoesOn, Verdicts
<1>3. /\ exec' \in [Workflows -> Stages]
      /\ \A v \in Workflows : exec'[v] = IF v = w THEN s ELSE exec[v]
  BY <1>1, <1>2 DEF Types, Stages, Busy
<1>4. active' = CASE w \notin Running /\ w \in Running' -> active + 1
                  [] w \in Running /\ w \notin Running' -> active - 1
                  [] OTHER -> active
  <2>1. CASE m.what = "pending"
    BY <1>1, <1>3, <2>1 DEF Waited, Waiting, Answered, GoesOn, Running
  <2>2. CASE m.what = "running"
    BY <1>1, <1>3, <2>2 DEF Waited, Waiting, Answered, GoesOn, Running
  <2>3. CASE m.what \in Verdicts
    BY <1>1, <1>3, <2>3 DEF Waited, Waiting, Answered, GoesOn, Running, Verdicts
  <2>4. QED
    BY <1>1, <2>1, <2>2, <2>3
<1>5. active' \in Int
  BY <1>1 DEF Answered, Types, Verdicts
<1>6. GaugeIsExact'
  <2> HIDE DEF s
  <2>1. QED
    BY <1>1, <1>2, <1>4, GaugeFollows DEF Types
<1>7. QED
  BY <1>3, <1>5, <1>6

-----------------------------------------------------------------------------
(* Steps of the workflow service: a message leaves, with or without effect,  *)
(* and with or without an answer.                                            *)

Consumed(m, ok) ==
  /\ sent' = sent \ {m}
  /\ Effect(m) \/ (~ ok /\ UNCHANGED row)
  /\ IF Waited(m) THEN Answered(m, ok) ELSE UNCHANGED <<exec, active>>
  /\ UNCHANGED unsaid
  /\ IF ok THEN UNCHANGED faults ELSE faults < MaxFaults /\ faults' = faults + 1

LEMMA ConsumedInv ==
  ASSUME IInv, NEW m \in sent, NEW ok \in BOOLEAN, Consumed(m, ok)
  PROVE  IInv'
<1> USE BoundsAssumption DEF IInv
<1>1. m \in Messages
  BY DEF Types
<1>2. m.wf \in Workflows /\ m.what \in {"pending", "running"} \cup Verdicts
  BY <1>1, MessageFields
<1>3. UNCHANGED <<key, verdict, cancelling, started, crashes>> /\ sent' = sent \ {m}
  BY DEF Consumed, unsaid
<1>4. /\ row' \in [Workflows -> Rows]
      /\ \A w \in Workflows : w # m.wf => row'[w] = row[w]
      /\ \A w \in Workflows : row[w] # "none" => row'[w] # "none"
      /\ row'[m.wf] \in {row[m.wf], m.what}
  <2>1. CASE UNCHANGED row
    BY <2>1 DEF Types
  <2>2. CASE Effect(m)
    BY <1>1, <1>2, <2>2, RowsStay
  <2>3. QED
    BY <2>1, <2>2 DEF Consumed
<1>5. /\ exec' \in [Workflows -> Stages] /\ active' \in Int /\ GaugeIsExact'
      /\ \A w \in Workflows :
           exec'[w] = IF w = m.wf /\ Waited(m) THEN GoesOn(m, ok) ELSE exec[w]
  <2>1. CASE Waited(m)
    BY <1>1, <1>2, <2>1, AnsweredStep DEF Consumed
  <2>2. CASE ~ Waited(m)
    BY <2>2 DEF Consumed, Types, GaugeIsExact, Running
  <2>3. QED
    BY <2>1, <2>2
<1>6. Types'
  BY <1>3, <1>4, <1>5 DEF Consumed, Types
<1>7. VerdictOnce'
  <2>1. Waited(m) => (verdict[m.wf] # "none" => GoesOn(m, ok) = "ended")
    BY <1>2 DEF VerdictOnce, Waited, Waiting, GoesOn, Verdicts
  <2>2. QED
    BY <1>2, <1>3, <1>5, <2>1 DEF VerdictOnce
<1>8. RowTellsVerdict'
  BY <1>2, <1>3, <1>4 DEF RowTellsVerdict, VerdictOnce
<1>9. OneRowPerKey'
  <2> SUFFICES ASSUME NEW v \in Workflows, NEW w \in Workflows, row'[v] # "none",
                      row'[w] # "none", key[v] = key[w], key[v] # NoKey
               PROVE  v = w
    BY <1>3 DEF OneRowPerKey
  <2>1. row[v] # "none" \/ (v = m.wf /\ ~ KeyTaken(v))
    BY <1>1, <1>2, <1>4, RowsStay DEF Consumed, Types, Rows
  <2>2. row[w] # "none" \/ (w = m.wf /\ ~ KeyTaken(w))
    BY <1>1, <1>2, <1>4, RowsStay DEF Consumed, Types, Rows
  <2>3. QED
    BY <2>1, <2>2 DEF OneRowPerKey, KeyTaken
<1>10. RunIsRecorded'
  <2> SUFFICES ASSUME NEW w \in (Running \cup started)'
               PROVE  row'[w] # "none" \/ KeyTaken(w)'
    BY DEF RunIsRecorded
  <2>1. w \in Workflows
    BY <1>6 DEF Running, Types
  <2>2. CASE w \in Running \cup started
    BY <1>3, <1>4, <2>1, <2>2, RecordsStay DEF RunIsRecorded
  <2>3. CASE w \notin Running \cup started
    <3>1. w = m.wf /\ Waited(m) /\ m.what = "pending" /\ ok
      BY <1>2, <1>3, <1>5, <2>1, <2>3
      DEF Running, GoesOn, Waited, Waiting, Verdicts
    <3>2. row'[w] # "none" \/ KeyTaken(w)
      BY <1>1, <3>1, RowsStay DEF Consumed
    <3>3. QED
      BY <1>3, <1>4, <2>1, <3>2, RecordsStay DEF KeyTaken
  <2>4. QED
    BY <2>2, <2>3
<1>11. faults = 0 => \A n \in sent \ {m} : n.wf = m.wf => exec[m.wf] = "crashed"
  <2> SUFFICES ASSUME faults = 0, NEW n \in sent, n # m, n.wf = m.wf,
                      exec[m.wf] # "crashed"
               PROVE  FALSE
    OBVIOUS
  <2>1. Waited(m) /\ Waited(n) /\ n \in Messages
    BY DEF AllWaited, Types
  <2>2. n.what = m.what
    BY <1>2, <2>1, MessageFields DEF Waited, Waiting, VerdictOnce, Verdicts
  <2>3. QED
    BY <1>1, <2>1, <2>2, MessageFields
<1>12. AllWaited'
  <2> SUFFICES ASSUME faults' = 0, NEW n \in sent \ {m}
               PROVE  Waited(n)' \/ exec'[n.wf] = "crashed"
    BY <1>3 DEF AllWaited
  <2>1. faults = 0 /\ n.wf \in Workflows
    BY MessageFields DEF Consumed, Types
  <2>2. Waited(n) \/ exec[n.wf] = "crashed"
    BY <2>1 DEF AllWaited
  <2>3. exec'[n.wf] = exec[n.wf]
    BY <1>2, <1>5, <1>11, <2>1 DEF Waited, Waiting
  <2>4. QED
    BY <2>2, <2>3 DEF Waited, Waiting
<1>13. EndedRowIsTerminal'
  <2> SUFFICES ASSUME NEW w \in Workflows, faults' = 0, exec'[w] = "ended",
                      row'[w] # "none"
               PROVE  row'[w] \in Terminal
    BY DEF EndedRowIsTerminal
  <2>1. faults = 0 /\ ok
    BY DEF Consumed, Types
  <2>2. CASE exec[w] = "ended"
    <3>1. w # m.wf
      BY <1>2, <2>1, <2>2 DEF AllWaited, Waited, Waiting
    <3>2. QED
      BY <1>4, <2>1, <2>2, <3>1 DEF EndedRowIsTerminal
  <2>3. CASE exec[w] # "ended"
    <3>1. w = m.wf /\ m.what \in Verdicts
      BY <1>2, <1>5, <2>3 DEF GoesOn
    <3>2. Effect(m)
      BY <2>1 DEF Consumed
    <3>3. row'[w] = "none" \/ row'[w] = m.what
      BY <1>1, <3>1, <3>2, RowsStay DEF Verdicts
    <3>4. QED
      BY <3>1, <3>3 DEF Terminal, Verdicts
  <2>4. QED
    BY <2>2, <2>3
<1>14. CancelFound'
  BY <1>3, <1>4 DEF CancelFound, Types
<1>15. QED
  BY <1>5, <1>6, <1>7, <1>8, <1>9, <1>10, <1>12, <1>13, <1>14

-----------------------------------------------------------------------------
(* Steps of the orchestrator within one workflow that keeps its place in the *)
(* gauge.                                                                    *)

Moves(w, s) ==
  /\ exec' = [exec EXCEPT ![w] = s]
  /\ exec[w] \in {"none", "accepted", "publishing", "executing"}
  /\ s \in Stages \ {"ended", "crashed", "accepted"}
  /\ exec[w] = "none" => s = "posting"
  /\ exec[w] \in {"accepted", "publishing", "executing"} <=>
       s \in {"accepted", "preparing", "publishing", "executing", "marking"}
  /\ UNCHANGED <<key, row, cancelling, active, faults, crashes>>
  /\ \/ s \notin {"posting", "preparing", "marking"} /\ UNCHANGED <<verdict, sent>>
     \/ \E m \in Messages :
          /\ m.wf = w /\ Waiting(m) = s /\ sent' = sent \cup {m}
          /\ IF m.what \in Verdicts
             THEN verdict' = [verdict EXCEPT ![w] = m.what]
             ELSE UNCHANGED verdict
  /\ started' \in {started, started \cup (IF exec[w] = "publishing" THEN {w} ELSE {})}

LEMMA MovesInv ==
  ASSUME IInv, NEW w \in Workflows, NEW s, Moves(w, s)
  PROVE  IInv'
<1> USE DEF IInv
<1>1. /\ exec' \in [Workflows -> Stages]
      /\ \A v \in Workflows : exec'[v] = IF v = w THEN s ELSE exec[v]
  BY DEF Moves, Types
<1>2. UNCHANGED <<key, row, cancelling, active, faults, crashes>>
  BY DEF Moves
<1>3. w \in Running <=> w \in Running'
  BY <1>1 DEF Moves, Running
<1>4. Running' = Running
  BY <1>1, <1>3 DEF Running
<1>5. started \subseteq started' /\ started' \subseteq started \cup Running
  BY DEF Moves, Running
<1>6. verdict[w] = "none"
  BY DEF Moves, VerdictOnce, Types
<1>7. /\ sent' \subseteq Messages
      /\ verdict' \in [Workflows -> Verdicts \cup {"none"}]
      /\ \A v \in Workflows : v # w => verdict'[v] = verdict[v]
      /\ verdict'[w] # "none" => s = "marking"
  BY <1>6 DEF Moves, Types, Waiting, Verdicts
<1>8. Types'
  BY <1>1, <1>2, <1>5, <1>7 DEF Types, Running
<1>9. GaugeIsExact'
  BY <1>2, <1>4 DEF GaugeIsExact
<1>10. VerdictOnce'
  <2>1. \A m \in sent : m.wf \in Workflows /\ (m.what \in Verdicts => m.wf # w)
    BY <1>6, MessageFields DEF VerdictOnce, Types, Verdicts
  <2>2. \A m \in sent' : m.what \in Verdicts => verdict'[m.wf] = m.what
    <3>1. CASE UNCHANGED <<verdict, sent>>
      BY <3>1 DEF VerdictOnce
    <3>2. ASSUME NEW m \in Messages, m.wf = w, sent' = sent \cup {m},
                 IF m.what \in Verdicts THEN verdict' = [verdict EXCEPT ![w] = m.what]
                 ELSE UNCHANGED verdict
          PROVE  \A n \in sent' : n.what \in Verdicts => verdict'[n.wf] = n.what
      BY <1>7, <2>1, <3>2 DEF VerdictOnce, Types
    <3>3. QED
      BY <3>1, <3>2 DEF Moves
  <2>3. QED
    BY <1>1, <1>7, <2>2 DEF VerdictOnce
<1>11. RowTellsVerdict'
  BY <1>2, <1>6, <1>7 DEF RowTellsVerdict, Verdicts
<1>12. OneRowPerKey'
  BY <1>2 DEF OneRowPerKey
<1>13. RunIsRecorded'
  BY <1>2, <1>4, <1>5 DEF RunIsRecorded, KeyTaken
<1>14. AllWaited'
  <2> SUFFICES ASSUME faults = 0, NEW n \in sent'
               PROVE  Waited(n)' \/ exec'[n.wf] = "crashed"
    BY <1>2 DEF AllWaited
  <2>1. n \in Messages /\ n.wf \in Workflows
    BY <1>7, MessageFields
  <2>2. CASE n \in sent
    <3>1. Waited(n) \/ exec[n.wf] = "crashed"
      BY <2>2 DEF AllWaited
    <3>2. n.wf # w
      BY <3>1, MessageFields, <2>1 DEF Moves, Waited, Waiting, Verdicts
    <3>3. QED
      BY <1>1, <2>1, <3>1, <3>2 DEF Waited, Waiting
  <2>3. CASE n \notin sent
    <3>1. n.wf = w /\ Waiting(n) = s
      BY <2>3 DEF Moves
    <3>2. QED
      BY <1>1, <3>1 DEF Waited, Waiting
  <2>4. QED
    BY <2>2, <2>3
<1>15. EndedRowIsTerminal'
  BY <1>1, <1>2 DEF EndedRowIsTerminal, Moves
<1>16. CancelFound'
  BY <1>2 DEF CancelFound
<1>17. QED
  BY <1>8, <1>9, <1>10, <1>11, <1>12, <1>13, <1>14, <1>15, <1>16

LEMMA ConcludeMoves ==
  ASSUME IInv, NEW w \in Workflows, NEW v \in Verdicts, Conclude(w, v),
         exec[w] \in {"accepted", "publishing", "executing"},
         UNCHANGED <<key, row, cancelling, active, faults, crashes>>,
         started' \in {started, started \cup (IF exec[w] = "publishing" THEN {w} ELSE {})}
  PROVE  Moves(w, "marking")
<1>1. /\ Patch(w, v) \in Messages /\ Patch(w, v).wf = w /\ Patch(w, v).what = v
      /\ Waiting(Patch(w, v)) = "marking"
  BY DEF Patch, Messages, Waiting, Verdicts
<1>2. QED
  BY <1>1 DEF Conclude, Send, Moves, Stages, Busy

\* Every step of the orchestrator is one of those.
LEMMA OrchestratorMoves ==
  ASSUME IInv, NEW w \in Workflows, Create(w) \/ Run(w)
  PROVE  \E s \in Stages : Moves(w, s)
<1>1. CASE Create(w)
  <2>1. /\ Insert(w) \in Messages /\ Insert(w).wf = w /\ Insert(w).what = "pending"
        /\ Waiting(Insert(w)) = "posting"
    BY DEF Insert, Messages, Waiting
  <2> QED
    BY <1>1, <2>1 DEF Create, Send, Moves, Stages, Busy, Verdicts
<1>2. CASE Prepare(w)
  <2>1. /\ Patch(w, "running") \in Messages /\ Patch(w, "running").wf = w
        /\ Patch(w, "running").what = "running"
        /\ Waiting(Patch(w, "running")) = "preparing"
    BY DEF Patch, Messages, Waiting
  <2>2. CASE Conclude(w, "failed")
    BY <1>2, <2>2, ConcludeMoves DEF Prepare, Verdicts, Stages, Busy
  <2>3. CASE ~ Conclude(w, "failed")
    BY <1>2, <2>1, <2>3 DEF Prepare, Send, Moves, Stages, Busy, Verdicts
  <2> QED
    BY <2>2, <2>3
<1>3. CASE PublishStarted(w)
  BY <1>3 DEF PublishStarted, Moves, Stages, Busy
<1>4. CASE PublishRaises(w)
  BY <1>4, ConcludeMoves DEF PublishRaises, Verdicts, Stages, Busy
<1>5. CASE Execute(w)
  BY <1>5, ConcludeMoves DEF Execute, Stages, Busy
<1> QED
  BY <1>1, <1>2, <1>3, <1>4, <1>5 DEF Run

-----------------------------------------------------------------------------
LEMMA InitIInv == Init => IInv
<1> SUFFICES ASSUME Init PROVE IInv
  OBVIOUS
<1>1. Running = {}
  BY DEF Init, Running
<1>2. GaugeIsExact
  BY <1>1, FS_EmptySet DEF Init, GaugeIsExact
<1>3. Types /\ VerdictOnce /\ RowTellsVerdict /\ OneRowPerKey /\ AllWaited
      /\ EndedRowIsTerminal /\ CancelFound
  BY BoundsAssumption DEF Init, CancelFound, Types, VerdictOnce, RowTellsVerdict, OneRowPerKey,
     AllWaited, EndedRowIsTerminal, Rows, Terminal, Verdicts, Stages
<1>4. RunIsRecorded
  BY <1>1 DEF Init, RunIsRecorded
<1>5. QED
  BY <1>2, <1>3, <1>4 DEF IInv

LEMMA StepIInv == IInv /\ [Next]_vars => IInv'
<1> SUFFICES ASSUME IInv, [Next]_vars PROVE IInv'
  OBVIOUS
<1>1. ASSUME NEW m \in sent, Apply(m) PROVE IInv'
  BY <1>1, ConsumedInv DEF Apply, Consumed, unsaid
<1>2. ASSUME NEW m \in sent, Fails(m) PROVE IInv'
  BY <1>2, ConsumedInv DEF Fails, Consumed, unsaid
<1>3. ASSUME NEW m \in sent, GivesUp(m) PROVE IInv'
  <2> USE BoundsAssumption DEF IInv
  <2>1. /\ m \in Messages /\ Waited(m) /\ Answered(m, FALSE)
        /\ UNCHANGED <<row, sent, key, verdict, cancelling, started, crashes>>
        /\ faults' = faults + 1 /\ faults < MaxFaults
    BY <1>3 DEF GivesUp, unsaid, Types
  <2>2. m.wf \in Workflows /\ m.what \in {"pending", "running"} \cup Verdicts
    BY <2>1, MessageFields
  <2>3. /\ exec' \in [Workflows -> Stages] /\ active' \in Int /\ GaugeIsExact'
        /\ \A w \in Workflows :
             exec'[w] = IF w = m.wf THEN GoesOn(m, FALSE) ELSE exec[w]
    BY <2>1, AnsweredStep
  <2>4. Types' /\ faults' # 0
    BY <2>1, <2>3 DEF Types
  <2>5. VerdictOnce'
    BY <2>1, <2>2, <2>3 DEF VerdictOnce, Waited, Waiting, GoesOn, Verdicts
  <2>6. RowTellsVerdict' /\ OneRowPerKey'
    BY <2>1 DEF RowTellsVerdict, OneRowPerKey
  <2>7. Running' \subseteq Running
    BY <2>1, <2>2, <2>3 DEF Running, Waited, Waiting, GoesOn, Verdicts
  <2>8. RunIsRecorded'
    BY <2>1, <2>7 DEF RunIsRecorded, KeyTaken
  <2>9. AllWaited' /\ EndedRowIsTerminal'
    BY <2>4 DEF AllWaited, EndedRowIsTerminal
  <2>10. CancelFound'
    BY <2>1 DEF CancelFound
  <2>11. QED
    BY <2>3, <2>4, <2>5, <2>6, <2>8, <2>9, <2>10
<1>4. ASSUME NEW w \in Workflows, Create(w) \/ Run(w) PROVE IInv'
  BY <1>4, OrchestratorMoves, MovesInv
<1>9. ASSUME NEW w \in Workflows, CancelFinds(w) PROVE IInv'
  BY <1>9 DEF CancelFinds, IInv, CancelFound, Types, GaugeIsExact, Running, VerdictOnce,
     RowTellsVerdict, OneRowPerKey, RunIsRecorded, KeyTaken, AllWaited, Waited,
     Waiting, EndedRowIsTerminal
<1>10. ASSUME NEW w \in Workflows, CancelWrites(w) PROVE IInv'
  <2> USE DEF IInv
  <2>1. /\ UNCHANGED <<key, exec, verdict, sent, started, active, faults, crashes>>
        /\ cancelling' \subseteq Workflows
        /\ row' \in [Workflows -> Rows]
        /\ \A v \in Workflows : row'[v] = IF v = w THEN "cancelled" ELSE row[v]
    BY <1>10 DEF CancelWrites, Types, Rows, Terminal
  <2>2. Types' /\ GaugeIsExact' /\ VerdictOnce' /\ AllWaited'
    BY <2>1 DEF Types, GaugeIsExact, Running, VerdictOnce, AllWaited, Waited, Waiting
  <2>3. RowTellsVerdict' /\ EndedRowIsTerminal'
    BY <2>1 DEF RowTellsVerdict, EndedRowIsTerminal, Terminal, Verdicts
  <2>4. row[w] # "none"
    BY <1>10 DEF CancelWrites, CancelFound
  <2>5. OneRowPerKey'
    BY <2>1, <2>4 DEF OneRowPerKey
  <2>6. RunIsRecorded'
    <3>1. (Running \cup started)' = Running \cup started
      BY <2>1 DEF Running
    <3>2. Running \cup started \subseteq Workflows
      BY DEF Running, Types
    <3>3. \A v \in Workflows : row[v] # "none" => row'[v] # "none"
      BY <2>1
    <3>4. QED
      BY <2>1, <3>1, <3>2, <3>3, RecordsStay DEF RunIsRecorded
  <2>7. CancelFound'
    BY <1>10, <2>1 DEF CancelWrites, CancelFound, Types
  <2>8. QED
    BY <2>2, <2>3, <2>5, <2>6, <2>7
<1>11. CASE Crash
  <2> USE DEF IInv
  <2>1. /\ exec' \in [Workflows -> Stages]
        /\ \A w \in Workflows :
             exec'[w] = IF exec[w] \in Busy THEN "crashed" ELSE exec[w]
        /\ UNCHANGED <<key, row, verdict, sent, cancelling, started, faults>>
        /\ active' = 0 /\ crashes' \in 0 .. MaxCrashes
    BY <1>11, BoundsAssumption DEF Crash, Types, Stages
  <2>2. Running' = {}
    BY <2>1 DEF Running, Busy
  <2>3. Types' /\ GaugeIsExact'
    BY <2>1, <2>2, FS_EmptySet DEF Types, GaugeIsExact
  <2>4. VerdictOnce' /\ RowTellsVerdict' /\ OneRowPerKey' /\ EndedRowIsTerminal'
    BY <2>1 DEF VerdictOnce, RowTellsVerdict, OneRowPerKey, EndedRowIsTerminal, Busy
  <2>5. RunIsRecorded'
    BY <2>1, <2>2 DEF RunIsRecorded, KeyTaken
  <2>6. AllWaited'
    <3> SUFFICES ASSUME faults = 0, NEW m \in sent
                 PROVE  Waited(m)' \/ exec'[m.wf] = "crashed"
      BY <2>1 DEF AllWaited
    <3>1. m.wf \in Workflows /\ Waiting(m) \in Busy
      BY MessageFields DEF Types, Waiting, Busy
    <3>2. Waited(m) \/ exec[m.wf] = "crashed"
      BY DEF AllWaited
    <3>3. QED
      BY <2>1, <3>1, <3>2 DEF Waited, Busy
  <2>7. CancelFound'
    BY <2>1 DEF CancelFound
  <2>8. QED
    BY <2>3, <2>4, <2>5, <2>6, <2>7
<1>12. CASE UNCHANGED vars
  BY <1>12 DEF vars, IInv, CancelFound, Types, GaugeIsExact, Running, VerdictOnce,
     RowTellsVerdict, OneRowPerKey, RunIsRecorded, KeyTaken, AllWaited, Waited,
     Waiting, EndedRowIsTerminal
<1>13. QED
  BY <1>1, <1>2, <1>3, <1>4, <1>9, <1>10, <1>11, <1>12 DEF Next, Cancel

LEMMA AlwaysIInv == Spec => []IInv
  BY InitIInv, StepIInv, PTL DEF Spec

-----------------------------------------------------------------------------
\* The variables keep their types, and the gauge is never negative.
THEOREM TypeCorrect == Spec => []TypeOK
<1>1. IInv => TypeOK
  <2> SUFFICES ASSUME IInv PROVE TypeOK
    OBVIOUS
  <2>1. IsFiniteSet(Running)
    BY WorkflowsAssumption, FS_Subset DEF Running
  <2>2. active \in Nat
    BY <2>1, FS_CardinalityType DEF IInv, GaugeIsExact
  <2>3. QED
    BY <2>2 DEF IInv, Types, TypeOK, Stages
<1>2. QED
  BY <1>1, AlwaysIInv, PTL

\* The gauge counts the executions that have not ended.
THEOREM GaugeExact == Spec => []GaugeIsExact
<1>1. IInv => GaugeIsExact
  BY DEF IInv
<1>2. QED
  BY <1>1, AlwaysIInv, PTL

\* A row says completed or failed only if the execution came to that, and what
\* is executed is on record.
THEOREM RowIsTruthful == Spec => [](RowTellsVerdict /\ RunIsRecorded)
<1>1. IInv => RowTellsVerdict /\ RunIsRecorded
  BY DEF IInv
<1>2. QED
  BY <1>1, AlwaysIInv, PTL

\* One row for each idempotency key.
THEOREM KeyIsUnique == Spec => []OneRowPerKey
<1>1. IInv => OneRowPerKey
  BY DEF IInv
<1>2. QED
  BY <1>1, AlwaysIInv, PTL

\* Without a lost or late request, the row of an ended execution is terminal.
THEOREM EndedIsTold == Spec => []EndedRowIsTerminal
<1>1. IInv => EndedRowIsTerminal
  BY DEF IInv
<1>2. QED
  BY <1>1, AlwaysIInv, PTL

-----------------------------------------------------------------------------
(* The refinement. What is on its way is due: an INSERT has no row yet, a report of *)
(* the graph was sent by an accepted workflow and, without a fault, before its end. *)

MessagesAreDue ==
  \A m \in sent :
    /\ exec[m.wf] # "none"
    /\ m.what = "pending" => row[m.wf] = "none"
    /\ m.what = "running" => exec[m.wf] \notin {"posting", "accepted", "refused"}
    /\ m.what = "running" /\ faults = 0 => verdict[m.wf] = "none"

NewIsBlank == \A w \in Workflows : exec[w] = "none" => row[w] = "none"

PromiseInv == IInv /\ MessagesAreDue /\ NewIsBlank

\* The stage of a workflow after a message of it was answered, or after the wait.
LEMMA AnswerLeadsOn ==
  ASSUME NEW m \in Messages, NEW ok \in BOOLEAN, Waited(m)
  PROVE  /\ GoesOn(m, ok) \notin {"none", "posting"}
         /\ m.what # "pending" => GoesOn(m, ok) \in {"publishing", "ended"}
         /\ m.what = "pending" <=> exec[m.wf] = "posting"
BY MessageFields DEF GoesOn, Waited, Waiting, Verdicts

\* A message that leaves does not make the others undue.
LEMMA ConsumedDue ==
  ASSUME PromiseInv, NEW m \in sent, NEW ok \in BOOLEAN, Consumed(m, ok)
  PROVE  MessagesAreDue' /\ NewIsBlank'
<1> USE DEF PromiseInv, IInv
<1>1. m \in Messages /\ m.wf \in Workflows
  BY MessageFields DEF Types
<1>2. UNCHANGED verdict /\ sent' = sent \ {m} /\ (faults' = 0 => faults = 0)
  BY BoundsAssumption DEF Consumed, unsaid, Types
<1>3. /\ \A w \in Workflows : w # m.wf => row'[w] = row[w]
      /\ m.what # "pending" /\ row[m.wf] = "none" => row'[m.wf] = "none"
  BY <1>1, RowsStay DEF Consumed
<1>4. \A w \in Workflows :
        exec'[w] = IF w = m.wf /\ Waited(m) THEN GoesOn(m, ok) ELSE exec[w]
  <2>1. CASE Waited(m)
    BY <1>1, <2>1, AnsweredStep DEF Consumed
  <2>2. CASE ~ Waited(m)
    BY <2>2 DEF Consumed
  <2> QED
    BY <2>1, <2>2
<1>5. exec[m.wf] # "none"
  BY DEF MessagesAreDue
<1>6. NewIsBlank'
  BY <1>1, <1>3, <1>4, <1>5, AnswerLeadsOn DEF NewIsBlank
<1>7. ASSUME NEW n \in sent, n # m
      PROVE  /\ exec'[n.wf] # "none"
             /\ n.what = "pending" => row'[n.wf] = "none"
             /\ n.what = "running" => exec'[n.wf] \notin {"posting", "accepted", "refused"}
             /\ n.what = "running" /\ faults' = 0 => verdict'[n.wf] = "none"
  <2>1. n \in Messages /\ n.wf \in Workflows
    BY MessageFields DEF Types
  <2>2. exec'[n.wf] # "none"
    BY <1>1, <1>4, <2>1, AnswerLeadsOn DEF MessagesAreDue
  <2>3. ASSUME n.what = "pending" PROVE row'[n.wf] = "none"
    <3>1. n.wf = m.wf => m.what # "pending"
      BY <1>1, <1>7, <2>1, <2>3, MessageFields
    <3> QED
      BY <1>3, <2>1, <2>3, <3>1 DEF MessagesAreDue
  <2>4. ASSUME n.what = "running"
        PROVE  exec'[n.wf] \notin {"posting", "accepted", "refused"}
    <3>1. exec[n.wf] \notin {"posting", "accepted", "refused"}
      BY <2>4 DEF MessagesAreDue
    <3> QED
      BY <1>1, <1>4, <2>1, <3>1, AnswerLeadsOn
  <2>5. n.what = "running" /\ faults' = 0 => verdict'[n.wf] = "none"
    BY <1>2 DEF MessagesAreDue
  <2> QED
    BY <2>2, <2>3, <2>4, <2>5
<1> QED
  BY <1>2, <1>6, <1>7 DEF MessagesAreDue

\* Nor does a client that stops waiting.
LEMMA GivesUpDue ==
  ASSUME PromiseInv, NEW m \in sent, GivesUp(m)
  PROVE  MessagesAreDue' /\ NewIsBlank'
<1> USE DEF PromiseInv, IInv
<1>0. m \in Messages /\ m.wf \in Workflows
  BY MessageFields DEF Types
<1>1. /\ m \in Messages /\ m.wf \in Workflows /\ Waited(m) /\ Answered(m, FALSE)
      /\ UNCHANGED <<row, sent, verdict>>
  BY <1>0 DEF GivesUp, unsaid
<1>5. faults' # 0
  BY BoundsAssumption DEF GivesUp, Types
<1>2. \A w \in Workflows : exec'[w] = IF w = m.wf THEN GoesOn(m, FALSE) ELSE exec[w]
  BY <1>1, AnsweredStep
<1>3. NewIsBlank'
  BY <1>1, <1>2, AnswerLeadsOn DEF NewIsBlank
<1>4. \A n \in sent : n \in Messages /\ n.wf \in Workflows
  BY MessageFields DEF Types
<1> QED
  BY <1>1, <1>2, <1>3, <1>4, <1>5, AnswerLeadsOn DEF MessagesAreDue

\* What the orchestrator sends is due, and it does not conclude past its reports.
LEMMA MovesDue ==
  ASSUME PromiseInv, NEW w \in Workflows, NEW s, Moves(w, s)
  PROVE  MessagesAreDue' /\ NewIsBlank'
<1> USE DEF PromiseInv, IInv
<1>1. /\ \A v \in Workflows : exec'[v] = IF v = w THEN s ELSE exec[v]
      /\ exec[w] \in {"none", "accepted", "publishing", "executing"}
      /\ exec[w] = "none" <=> s = "posting"
      /\ s \notin {"none", "accepted", "refused"}
      /\ UNCHANGED <<row, faults>>
  BY DEF Moves, Types, Stages, Busy
<1>2. NewIsBlank'
  BY <1>1 DEF NewIsBlank
<1>3. /\ \A n \in sent : n \in Messages /\ n.wf \in Workflows
      /\ verdict \in [Workflows -> Verdicts \cup {"none"}]
  BY MessageFields DEF Types
<1>4. \A n \in sent : n.what = "running" /\ faults = 0 => n.wf # w
  BY <1>1, <1>3 DEF AllWaited, Waited, Waiting
<1>5. ASSUME UNCHANGED <<verdict, sent>> PROVE MessagesAreDue'
  BY <1>1, <1>3, <1>5 DEF MessagesAreDue
<1>6. ASSUME NEW m \in Messages, m.wf = w, Waiting(m) = s, sent' = sent \cup {m},
             IF m.what \in Verdicts
             THEN verdict' = [verdict EXCEPT ![w] = m.what] ELSE UNCHANGED verdict
      PROVE  MessagesAreDue'
  <2>1. \A v \in Workflows : v # w => verdict'[v] = verdict[v]
    BY <1>3, <1>6
  <2>2. /\ m.what = "pending" => row[w] = "none"
        /\ m.what = "running" => s = "preparing" /\ verdict'[w] = "none"
    <3>1. verdict[w] = "none"
      BY <1>1, <1>3 DEF VerdictOnce
    <3>2. m.what = "pending" => s = "posting"
      BY <1>6 DEF Waiting
    <3> QED
      BY <1>1, <1>6, <3>1, <3>2 DEF Waiting, Verdicts, NewIsBlank
  <2>3. ASSUME NEW n \in sent
        PROVE  /\ exec'[n.wf] # "none"
               /\ n.what = "pending" => row'[n.wf] = "none"
               /\ n.what = "running" => exec'[n.wf] \notin {"posting", "accepted", "refused"}
               /\ n.what = "running" /\ faults' = 0 => verdict'[n.wf] = "none"
    BY <1>1, <1>3, <1>4, <2>1 DEF MessagesAreDue
  <2> QED
    BY <1>1, <1>6, <2>2, <2>3 DEF MessagesAreDue
<1> QED
  BY <1>2, <1>5, <1>6 DEF Moves

\* The orchestrator dies, or a user cancels.
LEMMA OthersDue ==
  ASSUME PromiseInv, Crash \/ UNCHANGED vars \/ \E w \in Workflows : Cancel(w)
  PROVE  MessagesAreDue' /\ NewIsBlank'
<1> USE DEF PromiseInv, IInv
<1>1. \A n \in sent : n \in Messages /\ n.wf \in Workflows
  BY MessageFields DEF Types
<1>2. CASE Crash
  <2>1. /\ \A w \in Workflows : exec'[w] = IF exec[w] \in Busy THEN "crashed" ELSE exec[w]
        /\ UNCHANGED <<row, verdict, sent, faults>>
    BY <1>2 DEF Crash
  <2> QED
    BY <1>1, <2>1 DEF MessagesAreDue, NewIsBlank, Busy
<1>3. CASE UNCHANGED vars
  BY <1>3 DEF vars, MessagesAreDue, NewIsBlank
<1>4. ASSUME NEW w \in Workflows, Cancel(w) PROVE MessagesAreDue' /\ NewIsBlank'
  <2>1. /\ UNCHANGED <<exec, verdict, sent, faults>>
        /\ \A v \in Workflows : row[v] = "none" => row'[v] = "none"
    BY <1>4 DEF Cancel, CancelFinds, CancelWrites, CancelFound, Types
  <2> QED
    BY <1>1, <2>1 DEF MessagesAreDue, NewIsBlank
<1> QED
  BY <1>2, <1>3, <1>4

\* What the refinement rests on holds always.
LEMMA AlwaysPromiseInv == Spec => []PromiseInv
<1>1. Init => MessagesAreDue /\ NewIsBlank
  BY DEF Init, MessagesAreDue, NewIsBlank
<1>2. PromiseInv /\ [Next]_vars => MessagesAreDue' /\ NewIsBlank'
  <2> SUFFICES ASSUME PromiseInv, [Next]_vars PROVE MessagesAreDue' /\ NewIsBlank'
    OBVIOUS
  <2>1. ASSUME NEW m \in sent, Apply(m) PROVE MessagesAreDue' /\ NewIsBlank'
    BY <2>1, ConsumedDue DEF Apply, Consumed, unsaid
  <2>2. ASSUME NEW m \in sent, Fails(m) PROVE MessagesAreDue' /\ NewIsBlank'
    BY <2>2, ConsumedDue DEF Fails, Consumed, unsaid
  <2>3. ASSUME NEW w \in Workflows, Create(w) \/ Run(w) PROVE MessagesAreDue' /\ NewIsBlank'
    BY <2>3, OrchestratorMoves, MovesDue DEF PromiseInv
  <2> QED
    BY <2>1, <2>2, <2>3, GivesUpDue, OthersDue DEF Next
<1> QED
  BY <1>1, <1>2, AlwaysIInv, PTL DEF Spec, PromiseInv

Courses == [w \in Workflows |-> Course(w)]

\* The courses follow when at most one workflow gets on.
LEMMA CourseFollows ==
  ASSUME Types, NEW w \in Workflows, NEW s,
         \A v \in Workflows : exec'[v] = IF v = w THEN s ELSE exec[v]
  PROVE  Courses' = [Courses EXCEPT ![w] = Course(w)']
<1>1. \A v \in Workflows : v # w => Course(v)' = Course(v)
  BY DEF Course
<1> QED
  BY <1>1 DEF Courses

\* A workflow starts without a row, a course or a verdict.
LEMMA InitPromises == Init => Promise!Init
<1> SUFFICES ASSUME Init PROVE Promise!Init
  OBVIOUS
<1>1. \A w \in Workflows : Course(w) = "none"
  BY DEF Init, Course
<1> QED
  BY <1>1 DEF Init, Promise!Init

\* Which rows the service takes for that of w, and what its statements do to them.
LEMMA EffectPromises ==
  ASSUME PromiseInv, NEW m \in sent, Effect(m) \/ UNCHANGED row, UNCHANGED <<key, verdict>>,
         faults' = 0 => faults = 0
  PROVE  \/ Promise!Enter(m.wf) \/ Promise!Report(m.wf) \/ Promise!Mark(m.wf)
         \/ UNCHANGED row
<1> USE DEF PromiseInv, IInv
<1>1. m \in Messages /\ m.wf \in Workflows /\ m.what \in {"pending", "running"} \cup Verdicts
  BY MessageFields DEF Types
<1>2. Courses[m.wf] = Course(m.wf) /\ exec[m.wf] \in Stages
  BY <1>1 DEF Courses, Types
<1>3. SUFFICES ASSUME Effect(m), row' # row
               PROVE  Promise!Enter(m.wf) \/ Promise!Report(m.wf) \/ Promise!Mark(m.wf)
  OBVIOUS
<1>4. CASE m.what = "pending"
  <2>1. ~ KeyTaken(m.wf) /\ row' = [row EXCEPT ![m.wf] = "pending"]
    BY <1>1, <1>3, <1>4 DEF Effect, Types
  <2>2. \A v \in Workflows : Promise!SameKey(v, m.wf) => row[v] = "none"
    BY <1>4, <2>1 DEF Promise!SameKey, KeyTaken, MessagesAreDue
  <2>3. Courses[m.wf] # "none"
    BY <1>2 DEF Course, MessagesAreDue
  <2> QED
    BY <2>1, <2>2, <2>3 DEF Promise!Enter, Courses
<1>5. CASE m.what # "pending"
  <2>1. row[m.wf] # "none" /\ row' = [row EXCEPT ![m.wf] = m.what]
    BY <1>1, <1>3, <1>5 DEF Effect, Types
  <2>2. CASE m.what = "running"
    <3>1. Courses[m.wf] \notin {"none", "asked"}
      BY <1>2, <2>2 DEF Course, MessagesAreDue
    <3>2. faults' = 0 => verdict[m.wf] = "none"
      BY <2>2 DEF MessagesAreDue
    <3> QED
      BY <2>1, <2>2, <3>1, <3>2 DEF Promise!Report, Courses
  <2>3. CASE m.what \in Verdicts
    BY <2>1, <2>3 DEF Promise!Mark, Promise!Verdicts, Verdicts, VerdictOnce
  <2> QED
    BY <1>1, <1>5, <2>2, <2>3
<1> QED
  BY <1>4, <1>5

\* What an answer means to who waits for it.
LEMMA AnswerPromises ==
  ASSUME PromiseInv, PromiseInv', NEW m \in sent, NEW ok \in BOOLEAN, Waited(m),
         Answered(m, ok), UNCHANGED <<key, verdict>>,
         ok => Effect(m), ~ ok => faults' = faults + 1
  PROVE  \/ Promise!Accept(m.wf) \/ Promise!Refuse(m.wf) \/ Promise!Finish(m.wf)
         \/ UNCHANGED <<Courses, verdict>>
<1> DEFINE w == m.wf
<1>1. m \in Messages /\ w \in Workflows /\ m.what \in {"pending", "running"} \cup Verdicts
  BY MessageFields DEF PromiseInv, IInv, Types
<1>2. \A v \in Workflows : exec'[v] = IF v = w THEN GoesOn(m, ok) ELSE exec[v]
  BY <1>1, AnsweredStep DEF PromiseInv, IInv
<1>3. Courses' = [Courses EXCEPT ![w] = Course(w)'] /\ Courses[w] = Course(w)
  <2>1. Courses' = [Courses EXCEPT ![w] = Course(w)']
    BY <1>1, <1>2, CourseFollows DEF PromiseInv, IInv
  <2> QED
    BY <1>1, <2>1 DEF Courses
<1>4. ~ ok => faults' > 0
  BY BoundsAssumption DEF PromiseInv, IInv, Types
<1>5. CASE m.what = "pending" /\ ok
  <2>1. exec[w] = "posting" /\ exec'[w] = "accepted"
    BY <1>1, <1>2, <1>5 DEF Waited, Waiting, GoesOn
  <2>2. w \in Running'
    BY <1>1, <2>1 DEF Running
  <2>3. row'[w] # "none" \/ KeyTaken(w)'
    BY <2>2 DEF PromiseInv, IInv, RunIsRecorded
  <2>4. \E v \in Workflows : Promise!SameKey(v, w) /\ row'[v] # "none"
    BY <1>1, <2>3 DEF KeyTaken, Promise!SameKey
  <2>5. Course(w) = "asked" /\ Course(w)' = "running"
    BY <2>1 DEF Course
  <2> QED
    BY <1>3, <2>4, <2>5 DEF Promise!Accept, Courses
<1>6. CASE m.what = "pending" /\ ~ ok
  <2>1. exec[w] = "posting" /\ exec'[w] = "refused"
    BY <1>1, <1>2, <1>6 DEF Waited, Waiting, GoesOn
  <2>2. Course(w) = "asked" /\ Course(w)' = "stopped"
    BY <2>1 DEF Course
  <2> QED
    BY <1>3, <1>4, <1>6, <2>2 DEF Promise!Refuse, Courses
<1>7. CASE m.what = "running"
  <2>1. exec[w] = "preparing" /\ exec'[w] = "publishing"
    BY <1>1, <1>2, <1>7 DEF Waited, Waiting, GoesOn
  <2>2. Course(w)' = Course(w)
    BY <2>1 DEF Course
  <2> QED
    BY <1>3, <2>2 DEF Courses
<1>8. CASE m.what \in Verdicts
  <2>1. exec[w] = "marking" /\ exec'[w] = "ended"
    BY <1>1, <1>2, <1>8 DEF Waited, Waiting, GoesOn, Verdicts
  <2>2. Course(w) = "reporting" /\ Course(w)' = "over"
    BY <2>1 DEF Course
  <2>3. ok => row'[w] \in {verdict[w], "none"}
    <3>1. verdict[w] = m.what
      BY <1>8 DEF PromiseInv, IInv, VerdictOnce
    <3> QED
      BY <1>1, <1>8, <3>1, RowsStay DEF PromiseInv, IInv, Verdicts
  <2>4. faults' = 0 => row'[w] \in {verdict[w], "none"}
    BY <1>4, <2>3
  <2> QED
    BY <1>3, <2>2, <2>4 DEF Promise!Finish, Courses
<1> QED
  BY <1>1, <1>5, <1>6, <1>7, <1>8

\* A message leaves: the row and the course of its workflow take one turn.
LEMMA ConsumedPromises ==
  ASSUME PromiseInv, PromiseInv', NEW m \in sent, NEW ok \in BOOLEAN, Consumed(m, ok)
  PROVE  Promise!Turn(m.wf)
<1>1. /\ UNCHANGED <<key, verdict>> /\ faults' \in {faults, faults + 1}
      /\ ~ ok => faults' = faults + 1
  BY DEF Consumed, unsaid
<1>2. (ok => Effect(m)) /\ (Effect(m) \/ UNCHANGED row)
  BY DEF Consumed
<1>3. faults' = 0 => faults = 0
  BY <1>1, BoundsAssumption DEF PromiseInv, IInv, Types
<1>4. \/ Promise!Enter(m.wf) \/ Promise!Report(m.wf) \/ Promise!Mark(m.wf) \/ UNCHANGED row
  BY <1>1, <1>2, <1>3, EffectPromises
<1>5. \/ Promise!Accept(m.wf) \/ Promise!Refuse(m.wf) \/ Promise!Finish(m.wf)
      \/ UNCHANGED <<Courses, verdict>>
  <2>1. CASE Waited(m)
    BY <1>1, <1>2, <2>1, AnswerPromises DEF Consumed
  <2>2. CASE ~ Waited(m)
    BY <1>1, <2>2 DEF Consumed, Courses, Course
  <2> QED
    BY <2>1, <2>2
<1> QED
  BY <1>1, <1>4, <1>5 DEF Promise!Turn, Courses

\* A client stops waiting: a course takes a turn, and no row.
LEMMA GivesUpPromises ==
  ASSUME PromiseInv, PromiseInv', NEW m \in sent, GivesUp(m)
  PROVE  Promise!Turn(m.wf)
<1>1. UNCHANGED <<row, key, verdict>> /\ faults' = faults + 1
  BY DEF GivesUp, unsaid
<1>2. Waited(m) /\ Answered(m, FALSE)
  BY DEF GivesUp
<1>3. \/ Promise!Accept(m.wf) \/ Promise!Refuse(m.wf) \/ Promise!Finish(m.wf)
      \/ UNCHANGED <<Courses, verdict>>
  BY <1>1, <1>2, AnswerPromises
<1> QED
  BY <1>1, <1>3 DEF Promise!Turn, Courses

\* A step of the orchestrator asks, concludes, or goes on unseen.
LEMMA MovesPromises ==
  ASSUME PromiseInv, NEW w \in Workflows, NEW s, Moves(w, s)
  PROVE  Promise!Turn(w)
<1>1. UNCHANGED <<key, row, faults>>
  BY DEF Moves
<1>2. \A v \in Workflows : exec'[v] = IF v = w THEN s ELSE exec[v]
  BY DEF Moves, PromiseInv, IInv, Types
<1>3. Courses' = [Courses EXCEPT ![w] = Course(w)'] /\ Courses[w] = Course(w)
  <2>1. Courses' = [Courses EXCEPT ![w] = Course(w)']
    BY <1>2, CourseFollows DEF PromiseInv, IInv
  <2> QED
    BY <2>1 DEF Courses
<1>4. exec[w] \in {"none", "accepted", "publishing", "executing"} /\ exec'[w] = s
  BY <1>2 DEF Moves
<1>5. \/ s \notin {"posting", "preparing", "marking"} /\ UNCHANGED verdict
      \/ \E m \in Messages :
           /\ Waiting(m) = s
           /\ IF m.what \in Verdicts
              THEN verdict' = [verdict EXCEPT ![w] = m.what] ELSE UNCHANGED verdict
  BY DEF Moves
<1>6. CASE exec[w] = "none"
  <2>1. Course(w) = "none" /\ Course(w)' = "asked" /\ UNCHANGED verdict
    BY <1>4, <1>5, <1>6, MessageFields DEF Moves, Course, Waiting, Verdicts
  <2>2. Promise!Ask(w)
    BY <1>3, <2>1 DEF Promise!Ask, Courses
  <2> QED
    BY <1>1, <2>2 DEF Promise!Turn, Courses
<1>7. CASE exec[w] # "none" /\ s = "marking"
  <2>1. Course(w) = "running" /\ Course(w)' = "reporting"
    BY <1>4, <1>7 DEF Course
  <2>2. \E v \in Verdicts : verdict' = [verdict EXCEPT ![w] = v]
    BY <1>5, <1>7, MessageFields DEF Waiting, Verdicts
  <2>3. Promise!Conclude(w)
    BY <1>3, <2>1, <2>2 DEF Promise!Conclude, Promise!Verdicts, Verdicts, Courses
  <2> QED
    BY <1>1, <2>3 DEF Promise!Turn, Courses
<1>8. CASE exec[w] # "none" /\ s # "marking"
  <2>1. s \in {"accepted", "preparing", "publishing", "executing"}
    BY <1>4, <1>8 DEF Moves
  <2>2. Course(w)' = Course(w) /\ UNCHANGED verdict
    BY <1>4, <1>5, <1>8, <2>1, MessageFields DEF Course, Waiting, Verdicts
  <2> QED
    BY <1>1, <1>3, <2>2 DEF Promise!Turn, Courses
<1> QED
  BY <1>6, <1>7, <1>8

\* Every step is a step of the promise, or changes nothing of what it speaks of.
LEMMA StepPromises == PromiseInv /\ PromiseInv' /\ [Next]_vars => [Promise!Next]_(Promise!vars)
<1> SUFFICES ASSUME PromiseInv, PromiseInv', [Next]_vars PROVE [Promise!Next]_(Promise!vars)
  OBVIOUS
<1>0. \A m \in sent : m.wf \in Workflows
  BY MessageFields DEF PromiseInv, IInv, Types
<1>1. ASSUME NEW m \in sent, Apply(m) PROVE Promise!Next
  <2>1. Promise!Turn(m.wf)
    BY <1>1, ConsumedPromises DEF Apply, Consumed, unsaid
  <2> QED
    BY <1>0, <2>1 DEF Promise!Next
<1>2. ASSUME NEW m \in sent, Fails(m) PROVE Promise!Next
  <2>1. Promise!Turn(m.wf)
    BY <1>2, ConsumedPromises DEF Fails, Consumed, unsaid
  <2> QED
    BY <1>0, <2>1 DEF Promise!Next
<1>3. ASSUME NEW m \in sent, GivesUp(m) PROVE Promise!Next
  BY <1>0, <1>3, GivesUpPromises DEF Promise!Next
<1>4. ASSUME NEW w \in Workflows, Create(w) \/ Run(w) PROVE Promise!Next
  BY <1>4, OrchestratorMoves, MovesPromises DEF Promise!Next, PromiseInv
<1>5. ASSUME NEW w \in Workflows, CancelFinds(w) PROVE UNCHANGED Promise!vars
  BY <1>5 DEF CancelFinds, Promise!vars, Course
<1>6. ASSUME NEW w \in Workflows, CancelWrites(w) PROVE Promise!Next
  <2>1. /\ UNCHANGED <<key, exec, verdict, faults>> /\ row[w] # "none"
        /\ row' = [row EXCEPT ![w] = "cancelled"]
    BY <1>6 DEF CancelWrites, CancelFound, PromiseInv, IInv
  <2>2. UNCHANGED Courses
    BY <2>1 DEF Courses, Course
  <2>3. Promise!Turn(w)
    BY <2>1, <2>2 DEF Promise!Turn, Promise!Cancel, Courses
  <2> QED
    BY <2>3 DEF Promise!Next
<1>7. CASE Crash
  <2>1. /\ \A w \in Workflows : exec'[w] = IF exec[w] \in Busy THEN "crashed" ELSE exec[w]
        /\ UNCHANGED <<key, row, verdict, faults>>
    BY <1>7 DEF Crash
  <2>2. \A w \in Workflows :
          Course(w)' = IF Course(w) \in {"asked", "running", "reporting"}
                       THEN "stopped" ELSE Course(w)
    <3> SUFFICES ASSUME NEW w \in Workflows
                 PROVE  Course(w)' = IF Course(w) \in {"asked", "running", "reporting"}
                                     THEN "stopped" ELSE Course(w)
      OBVIOUS
    <3>1. exec[w] \in Busy \/ exec[w] \in {"none", "refused", "ended", "crashed"}
      BY DEF PromiseInv, IInv, Types, Stages
    <3> QED
      BY <2>1, <3>1 DEF Course, Busy
  <2>3. Promise!Stop
    BY <2>1, <2>2 DEF Promise!Stop
  <2> QED
    BY <2>3 DEF Promise!Next
<1>8. CASE UNCHANGED vars
  BY <1>8 DEF vars, Promise!vars, Course
<1> QED
  BY <1>1, <1>2, <1>3, <1>4, <1>5, <1>6, <1>7, <1>8 DEF Next, Cancel

\* Whatever requests are lost or late and whenever the orchestrator dies: a key has one
\* row, who is accepted has a row, rows are told verdicts that were reached, in order
\* until the first fault (orchestrator/main.py:119-252, workflow-service/main.py:78-193).
THEOREM Refinement == Spec => KeepsItsPromise
  BY InitPromises, StepPromises, AlwaysPromiseInv, PTL DEF Spec, KeepsItsPromise, Promise!Spec

-----------------------------------------------------------------------------
(* What the promise is worth: it implies by itself what the rows must satisfy.      *)

Recorded(w) == \E v \in Workflows : Promise!SameKey(v, w) /\ row[v] # "none"

WorthInv ==
  /\ row \in [Workflows -> Rows]
  /\ verdict \in [Workflows -> Verdicts \cup {"none"}]
  /\ faults \in Nat
  /\ \A w \in Workflows :
       /\ verdict[w] # "none" => Courses[w] \in {"reporting", "over", "stopped"}
       /\ Courses[w] \in {"reporting", "over"} => verdict[w] # "none"
       /\ Courses[w] \in {"running", "reporting", "over"} => Recorded(w)
       /\ faults = 0 /\ Courses[w] = "over" => row[w] \in Terminal \cup {"none"}
  /\ RowTellsVerdict /\ OneRowPerKey

\* What a turn of w may do, in one place: to its row, and to its course.
LEMMA RowTurns ==
  ASSUME WorthInv, NEW w \in Workflows, Promise!Turn(w)
  PROVE  /\ UNCHANGED key /\ faults' \in Nat /\ (faults' = 0 => faults = 0)
         /\ \A v \in Workflows : v # w => row'[v] = row[v]
         /\ row' \in [Workflows -> Rows]
         /\ \/ row'[w] = row[w]
            \/ /\ row'[w] = "pending" /\ Courses[w] # "none"
               /\ \A v \in Workflows : Promise!SameKey(v, w) => row[v] = "none"
            \/ /\ row'[w] = "running" /\ row[w] # "none"
               /\ faults' = 0 => verdict[w] = "none"
            \/ row'[w] = verdict[w] /\ verdict[w] \in Verdicts /\ row[w] # "none"
            \/ row'[w] = "cancelled" /\ row[w] # "none"
<1>1. UNCHANGED key /\ faults' \in Nat /\ (faults' = 0 => faults = 0)
  BY DEF Promise!Turn, WorthInv
<1>2. Promise!Enter(w) \/ Promise!Report(w) \/ Promise!Mark(w) \/ Promise!Cancel(w)
      \/ UNCHANGED row
  BY DEF Promise!Turn
<1>3. CASE Promise!Enter(w)
  BY <1>1, <1>3 DEF Promise!Enter, WorthInv, Rows, Courses
<1>4. CASE Promise!Report(w)
  BY <1>1, <1>4 DEF Promise!Report, WorthInv, Rows
<1>5. CASE Promise!Mark(w)
  BY <1>1, <1>5 DEF Promise!Mark, Promise!Verdicts, WorthInv, Rows, Terminal, Verdicts
<1>6. CASE Promise!Cancel(w)
  BY <1>1, <1>6 DEF Promise!Cancel, WorthInv, Rows, Terminal
<1> QED
  BY <1>1, <1>2, <1>3, <1>4, <1>5, <1>6 DEF WorthInv

\* The course of w only goes forward, and its verdict is reached with its conclusion.
LEMMA CourseTurns ==
  ASSUME WorthInv, NEW w \in Workflows, Promise!Turn(w)
  PROVE  /\ \A v \in Workflows : v # w => verdict'[v] = verdict[v] /\ Courses'[v] = Courses[v]
         /\ verdict' \in [Workflows -> Verdicts \cup {"none"}]
         /\ \/ verdict'[w] = verdict[w] /\ Courses'[w] = Courses[w]
            \/ /\ Courses[w] = "none" /\ Courses'[w] = "asked" /\ verdict'[w] = verdict[w]
            \/ /\ Courses[w] = "asked" /\ Courses'[w] = "running" /\ verdict'[w] = verdict[w]
               /\ \E v \in Workflows : Promise!SameKey(v, w) /\ row'[v] # "none"
            \/ /\ Courses[w] = "asked" /\ Courses'[w] = "stopped" /\ verdict'[w] = verdict[w]
            \/ /\ Courses[w] = "running" /\ Courses'[w] = "reporting" /\ verdict'[w] # "none"
            \/ /\ Courses[w] = "reporting" /\ Courses'[w] = "over" /\ verdict'[w] = verdict[w]
               /\ faults' = 0 => row'[w] \in {verdict[w], "none"}
<1>1. Promise!Ask(w) \/ Promise!Accept(w) \/ Promise!Refuse(w) \/ Promise!Conclude(w)
      \/ Promise!Finish(w) \/ UNCHANGED <<Courses, verdict>>
  BY DEF Promise!Turn, Courses
<1>2. CASE Promise!Conclude(w)
  <2>1. /\ Courses[w] = "running" /\ Courses' = [Courses EXCEPT ![w] = "reporting"]
        /\ \E v \in Verdicts : verdict' = [verdict EXCEPT ![w] = v]
    BY <1>2 DEF Promise!Conclude, Promise!Verdicts, Verdicts, Courses
  <2>2. DOMAIN Courses = Workflows
    BY DEF Courses
  <2>3. /\ Courses'[w] = "reporting"
        /\ \A v \in Workflows : v # w => Courses'[v] = Courses[v]
    BY <2>1, <2>2
  <2>4. /\ verdict' \in [Workflows -> Verdicts \cup {"none"}] /\ verdict'[w] # "none"
        /\ \A v \in Workflows : v # w => verdict'[v] = verdict[v]
    BY <2>1 DEF WorthInv, Verdicts
  <2> QED
    BY <2>1, <2>3, <2>4
<1>3. CASE Promise!Ask(w)
  BY <1>3 DEF Promise!Ask, Courses, WorthInv
<1>4. CASE Promise!Accept(w)
  BY <1>4 DEF Promise!Accept, Courses, WorthInv
<1>5. CASE Promise!Refuse(w)
  BY <1>5 DEF Promise!Refuse, Courses, WorthInv
<1>6. CASE Promise!Finish(w)
  BY <1>6 DEF Promise!Finish, Courses, WorthInv
<1>7. CASE UNCHANGED <<Courses, verdict>>
  BY <1>7 DEF WorthInv
<1> QED
  BY <1>1, <1>2, <1>3, <1>4, <1>5, <1>6, <1>7

\* What is on record stays on record.
LEMMA RecordedStays ==
  ASSUME NEW w \in Workflows, Recorded(w), UNCHANGED key,
         \A v \in Workflows : row[v] # "none" => row'[v] # "none"
  PROVE  Recorded(w)'
  BY DEF Recorded, Promise!SameKey

\* A turn keeps what rows, verdicts and courses owe each other.
LEMMA TurnIsWorth ==
  ASSUME WorthInv, NEW w \in Workflows, Promise!Turn(w)
  PROVE  WorthInv'
<1>1. /\ UNCHANGED key /\ faults' \in Nat /\ (faults' = 0 => faults = 0)
      /\ \A v \in Workflows : v # w => row'[v] = row[v]
      /\ row' \in [Workflows -> Rows]
      /\ \A v \in Workflows : v # w => verdict'[v] = verdict[v] /\ Courses'[v] = Courses[v]
      /\ verdict' \in [Workflows -> Verdicts \cup {"none"}]
  BY RowTurns, CourseTurns
<1>2. \/ row'[w] = row[w]
      \/ /\ row'[w] = "pending" /\ Courses[w] # "none"
         /\ \A v \in Workflows : Promise!SameKey(v, w) => row[v] = "none"
      \/ /\ row'[w] = "running" /\ row[w] # "none"
         /\ faults' = 0 => verdict[w] = "none"
      \/ row'[w] = verdict[w] /\ verdict[w] \in Verdicts /\ row[w] # "none"
      \/ row'[w] = "cancelled" /\ row[w] # "none"
  BY RowTurns
<1>3. \/ verdict'[w] = verdict[w] /\ Courses'[w] = Courses[w]
      \/ /\ Courses[w] = "none" /\ Courses'[w] = "asked" /\ verdict'[w] = verdict[w]
      \/ /\ Courses[w] = "asked" /\ Courses'[w] = "running" /\ verdict'[w] = verdict[w]
         /\ \E v \in Workflows : Promise!SameKey(v, w) /\ row'[v] # "none"
      \/ /\ Courses[w] = "asked" /\ Courses'[w] = "stopped" /\ verdict'[w] = verdict[w]
      \/ /\ Courses[w] = "running" /\ Courses'[w] = "reporting" /\ verdict'[w] # "none"
      \/ /\ Courses[w] = "reporting" /\ Courses'[w] = "over" /\ verdict'[w] = verdict[w]
         /\ faults' = 0 => row'[w] \in {verdict[w], "none"}
  BY CourseTurns
<1>4. \A v \in Workflows : row[v] # "none" => row'[v] # "none"
  BY <1>1, <1>2 DEF Verdicts
<1>5. /\ verdict[w] # "none" => Courses[w] \in {"reporting", "over", "stopped"}
      /\ Courses[w] \in {"reporting", "over"} => verdict[w] # "none"
      /\ Courses[w] \in {"running", "reporting", "over"} => Recorded(w)
      /\ faults = 0 /\ Courses[w] = "over" => row[w] \in Terminal \cup {"none"}
  BY DEF WorthInv
<1>6. verdict[w] # "none" => verdict'[w] = verdict[w]
  BY <1>3, <1>5
<1>7. Courses'[w] \in {"running", "reporting", "over"} => Recorded(w)'
  <2>1. CASE Courses[w] \in {"running", "reporting", "over"}
    BY <1>1, <1>4, <1>5, <2>1, RecordedStays
  <2>2. CASE Courses[w] \notin {"running", "reporting", "over"}
    BY <1>1, <1>3, <2>2 DEF Recorded, Promise!SameKey
  <2> QED
    BY <2>1, <2>2
<1>8. faults' = 0 /\ Courses'[w] = "over" => row'[w] \in Terminal \cup {"none"}
  <2> SUFFICES ASSUME faults' = 0, Courses'[w] = "over"
               PROVE  row'[w] \in Terminal \cup {"none"}
    OBVIOUS
  <2>1. CASE Courses[w] = "over"
    <3>1. ~ \A v \in Workflows : Promise!SameKey(v, w) => row[v] = "none"
      BY <1>5, <2>1 DEF Recorded
    <3> QED
      BY <1>1, <1>2, <1>5, <2>1, <3>1 DEF Terminal, Verdicts
  <2>2. CASE Courses[w] # "over"
    BY <1>3, <2>2 DEF WorthInv, Terminal, Verdicts
  <2> QED
    BY <2>1, <2>2
<1>9. \A v \in Workflows : v # w /\ Recorded(v) => Recorded(v)'
  BY <1>1, <1>4, RecordedStays
<1>10. \A v \in Workflows :
         /\ verdict'[v] # "none" => Courses'[v] \in {"reporting", "over", "stopped"}
         /\ Courses'[v] \in {"reporting", "over"} => verdict'[v] # "none"
         /\ Courses'[v] \in {"running", "reporting", "over"} => Recorded(v)'
         /\ faults' = 0 /\ Courses'[v] = "over" => row'[v] \in Terminal \cup {"none"}
  <2>1. ASSUME NEW v \in Workflows, v # w
        PROVE  /\ verdict'[v] # "none" => Courses'[v] \in {"reporting", "over", "stopped"}
               /\ Courses'[v] \in {"reporting", "over"} => verdict'[v] # "none"
               /\ Courses'[v] \in {"running", "reporting", "over"} => Recorded(v)'
               /\ faults' = 0 /\ Courses'[v] = "over" => row'[v] \in Terminal \cup {"none"}
    BY <1>1, <1>9, <2>1 DEF WorthInv
  <2>2. /\ verdict'[w] # "none" => Courses'[w] \in {"reporting", "over", "stopped"}
        /\ Courses'[w] \in {"reporting", "over"} => verdict'[w] # "none"
    BY <1>3, <1>5
  <2> QED
    BY <1>7, <1>8, <2>1, <2>2
<1>11. RowTellsVerdict'
  BY <1>1, <1>2, <1>6 DEF WorthInv, RowTellsVerdict, Verdicts
<1>12. OneRowPerKey'
  BY <1>1, <1>2 DEF WorthInv, OneRowPerKey, Promise!SameKey
<1> QED
  BY <1>1, <1>10, <1>11, <1>12 DEF WorthInv

\* The promise alone, whatever implements it, implies that rows tell verdicts, that
\* keys have one row, and that without a fault the row of what is over is terminal.
THEOREM PromiseIsWorth == Promise!Spec => [](RowTellsVerdict /\ OneRowPerKey /\ EndedRowIsTerminal)
<1>1. Promise!Init => WorthInv
  <2> SUFFICES ASSUME Promise!Init PROVE WorthInv
    OBVIOUS
  <2>1. /\ \A w \in Workflows : row[w] = "none" /\ verdict[w] = "none" /\ Courses[w] = "none"
        /\ row \in [Workflows -> Rows] /\ verdict \in [Workflows -> Verdicts \cup {"none"}]
        /\ faults \in Nat
    BY DEF Promise!Init, Courses, Rows
  <2> QED
    BY <2>1 DEF WorthInv, RowTellsVerdict, OneRowPerKey, Verdicts
<1>2. WorthInv /\ [Promise!Next]_(Promise!vars) => WorthInv'
  <2> SUFFICES ASSUME WorthInv, [Promise!Next]_(Promise!vars) PROVE WorthInv'
    OBVIOUS
  <2>1. CASE Promise!Stop
    <3>1. UNCHANGED <<key, row, verdict, faults>>
      BY <2>1 DEF Promise!Stop
    <3>2. \A w \in Workflows :
            Courses'[w] = IF Courses[w] \in {"asked", "running", "reporting"}
                          THEN "stopped" ELSE Courses[w]
      BY <2>1 DEF Promise!Stop, Courses
    <3>3. \A w \in Workflows : Recorded(w) => Recorded(w)'
      BY <3>1, RecordedStays
    <3> QED
      BY <3>1, <3>2, <3>3 DEF WorthInv, RowTellsVerdict, OneRowPerKey
  <2>2. CASE UNCHANGED Promise!vars
    <3>1. UNCHANGED <<key, row, verdict, faults, Courses>>
      BY <2>2 DEF Promise!vars, Courses
    <3>2. \A w \in Workflows : Recorded(w) => Recorded(w)'
      BY <3>1, RecordedStays
    <3> QED
      BY <3>1, <3>2 DEF WorthInv, RowTellsVerdict, OneRowPerKey
  <2> QED
    BY <2>1, <2>2, TurnIsWorth DEF Promise!Next
<1>3. WorthInv => RowTellsVerdict /\ OneRowPerKey /\ EndedRowIsTerminal
  <2>1. WorthInv => EndedRowIsTerminal
    BY DEF WorthInv, EndedRowIsTerminal, Courses, Course
  <2> QED
    BY <2>1 DEF WorthInv
<1> QED
  BY <1>1, <1>2, <1>3, PTL DEF Promise!Spec
=============================================================================
