------------------------- MODULE TaskDeliveryProofs -------------------------
(***************************************************************************)
(* Machine-checked proofs about TaskDelivery, for any set of tasks, any    *)
(* number of faults and any pair of TTLs with MarkerTTL >= MessageTTL.     *)
(***************************************************************************)
EXTENDS TaskDelivery, TLAPS

\* An attempt that waits for its idempotency check was delivered in time.
FreshDelivery ==
  \A t \in Tasks, a \in Attempts : attempt[t][a] = "received" => ~ Expired(t)

\* Messages are unsent exactly as long as they have no time of sending.
SentTimes ==
  \A t \in Tasks :
    /\ place[t] = "unsent" <=> sentAt[t] = Never
    /\ place[t] = "unsent" => \A a \in Attempts : attempt[t][a] = "none"
    /\ sentAt[t] # Never => sentAt[t] <= now

\* The key of an executed task was set after the message was sent.
MarkedAfterSent ==
  \A t \in Tasks :
    executions[t] > 0 =>
      /\ sentAt[t] # Never /\ markedAt[t] # Never
      /\ sentAt[t] <= markedAt[t]

\* Each delivery but the current one was taken back by a fault.
DeliveryCount ==
  \A t \in Tasks :
    /\ deliveries[t] <= faults + 1
    /\ place[t] = "queued" => deliveries[t] <= faults
    /\ place[t] = "unsent" => deliveries[t] = 0

\* Deduplication is only as durable as the keys in Redis.
Deduplicated == ~ RedisForgets => MarkedAfterSent /\ ExecutedAtMostOnce

IInv ==
  TypeOK /\ FreshDelivery /\ SentTimes /\ DeliveryCount /\ Deduplicated

-----------------------------------------------------------------------------
LEMMA InitIInv == Init => IInv
  BY BoundsAssumption
  DEF Init, IInv, TypeOK, FreshDelivery, SentTimes, DeliveryCount, Deduplicated,
      MarkedAfterSent, ExecutedAtMostOnce, Attempts, Live, Never, Bodies

Places == {"unsent", "queued", "unacked", "acked", "dead"}
Stages == Live \cup {"none", "ended", "killed"}

LEMMA AttemptUpdate ==
  ASSUME TypeOK, NEW t \in Tasks, NEW a \in Attempts, NEW v \in Stages,
         attempt' = [attempt EXCEPT ![t][a] = v]
  PROVE  /\ attempt' \in [Tasks -> [Attempts -> Stages]]
         /\ \A u \in Tasks, b \in Attempts :
              attempt'[u][b] = IF u = t /\ b = a THEN v ELSE attempt[u][b]
<1>1. attempt' = [attempt EXCEPT ![t] = [attempt[t] EXCEPT ![a] = v]]
  BY DEF TypeOK
<1>2. attempt[t] \in [Attempts -> Stages]
  BY DEF TypeOK, Stages
<1>3. \A b \in Attempts :
        [attempt[t] EXCEPT ![a] = v][b] = IF b = a THEN v ELSE attempt[t][b]
  BY <1>2
<1>4. [attempt[t] EXCEPT ![a] = v] \in [Attempts -> Stages]
  BY <1>2
<1>5. QED
  BY <1>1, <1>3, <1>4 DEF TypeOK, Stages

\* One step of a running attempt, whatever it does to keys and events: it goes
\* on, or it ends and settles the delivery if it still holds it.
Advances(t, a) ==
  /\ attempt[t][a] \in Live
  /\ \E v \in (Live \cup {"ended"}) \ {"received"} :
       attempt' = [attempt EXCEPT ![t][a] = v]
  /\ \/ UNCHANGED <<place, holder>>
     \/ /\ holder[t] = a
        /\ \E how \in {"acked", "dead"} : place' = [place EXCEPT ![t] = how]
        /\ holder' = [holder EXCEPT ![t] = 0]
  /\ UNCHANGED brokerVars

LEMMA SettleAdvances ==
  ASSUME NEW t \in Tasks, NEW a \in Attempts, NEW how \in {"acked", "dead"},
         attempt[t][a] \in Live, Settle(t, a, how), UNCHANGED brokerVars
  PROVE  Advances(t, a)
  BY DEF Settle, Advances, Live

LEMMA GoOnAdvances ==
  ASSUME NEW t \in Tasks, NEW a \in Attempts, NEW v \in Live \ {"received"},
         attempt[t][a] \in Live, GoOn(t, a, v), UNCHANGED brokerVars
  PROVE  Advances(t, a)
  BY DEF GoOn, Advances

BrokerTypes ==
  /\ body \in [Tasks -> Bodies]
  /\ place \in [Tasks -> Places]
  /\ holder \in [Tasks -> Attempts \cup {0}]
  /\ \A t \in Tasks : place[t] = "unacked" <=> holder[t] # 0
  /\ deliveries \in [Tasks -> 0 .. MaxFaults + 1]
  /\ attempt \in [Tasks -> [Attempts -> Stages]]
  /\ sentAt \in [Tasks -> 0 .. MaxTime \cup {Never}]
  /\ now \in 0 .. MaxTime
  /\ faults \in 0 .. MaxFaults

AgentTypes ==
  /\ markedAt \in [Tasks -> 0 .. MaxTime \cup {Never}]
  /\ executions \in [Tasks -> Nat]
  /\ output \in [Tasks -> {"none", "completed", "failed"}]
  /\ announced \in [Tasks -> SUBSET {"task.completed", "task.failed"}]

LEMMA TypeOKSplit == TypeOK <=> BrokerTypes /\ AgentTypes
  BY DEF TypeOK, BrokerTypes, AgentTypes, Places, Stages

LEMMA AdvancesInv ==
  ASSUME IInv, NEW t \in Tasks, NEW a \in Attempts, Advances(t, a)
  PROVE  BrokerTypes' /\ FreshDelivery' /\ SentTimes' /\ DeliveryCount'
<1> USE DEF IInv, BrokerTypes, brokerVars
<1>1. TypeOK /\ BrokerTypes
  BY TypeOKSplit
<1>2. PICK v \in (Live \cup {"ended"}) \ {"received"} :
        attempt' = [attempt EXCEPT ![t][a] = v]
  BY DEF Advances
<1>3. v \in Stages
  BY DEF Stages
<1>4. /\ attempt' \in [Tasks -> [Attempts -> Stages]]
      /\ \A u \in Tasks, b \in Attempts :
           attempt'[u][b] = IF u = t /\ b = a THEN v ELSE attempt[u][b]
  BY <1>1, <1>2, <1>3, AttemptUpdate
<1>5. /\ UNCHANGED brokerVars
      /\ \/ UNCHANGED <<place, holder>>
         \/ /\ holder[t] = a
            /\ \E how \in {"acked", "dead"} : place' = [place EXCEPT ![t] = how]
            /\ holder' = [holder EXCEPT ![t] = 0]
  BY DEF Advances
<1>6. a # 0 /\ 0 \notin Attempts
  BY BoundsAssumption DEF Attempts
<1>7. /\ place' \in [Tasks -> Places]
      /\ holder' \in [Tasks -> Attempts \cup {0}]
      /\ \A u \in Tasks : place'[u] = "unacked" <=> holder'[u] # 0
      /\ \A u \in Tasks : \/ place'[u] = place[u]
                          \/ place[u] = "unacked" /\ place'[u] \in {"acked", "dead"}
  <2>1. CASE UNCHANGED <<place, holder>>
    BY <1>1, <2>1
  <2>2. ASSUME NEW how \in {"acked", "dead"}, holder[t] = a,
               place' = [place EXCEPT ![t] = how],
               holder' = [holder EXCEPT ![t] = 0]
        PROVE  /\ place' \in [Tasks -> Places]
               /\ holder' \in [Tasks -> Attempts \cup {0}]
               /\ \A u \in Tasks : place'[u] = "unacked" <=> holder'[u] # 0
               /\ \A u \in Tasks :
                    \/ place'[u] = place[u]
                    \/ place[u] = "unacked" /\ place'[u] \in {"acked", "dead"}
    <3>1. place[t] = "unacked" /\ how \in Places /\ how # "unacked"
      BY <1>1, <1>6, <2>2 DEF Places
    <3>2. /\ place' \in [Tasks -> Places]
          /\ holder' \in [Tasks -> Attempts \cup {0}]
      BY <1>1, <2>2, <3>1
    <3>3. \A u \in Tasks : /\ place'[u] = IF u = t THEN how ELSE place[u]
                           /\ holder'[u] = IF u = t THEN 0 ELSE holder[u]
      BY <1>1, <2>2
    <3>4. QED
      BY <1>1, <3>1, <3>2, <3>3
  <2>3. QED
    BY <1>5, <2>1, <2>2
<1>8. BrokerTypes'
  BY <1>1, <1>4, <1>5, <1>7
<1>9. FreshDelivery'
  BY <1>4, <1>5 DEF FreshDelivery, Expired
<1>10. attempt[t][a] # "none"
  BY DEF Advances, Live
<1>11. SentTimes'
  BY <1>1, <1>4, <1>5, <1>7, <1>10 DEF SentTimes
<1>12. DeliveryCount'
  BY <1>1, <1>5, <1>7 DEF DeliveryCount
<1>13. QED
  BY <1>8, <1>9, <1>11, <1>12

\* The idempotency key: what is new is marked now, what is known stays.
LEMMA MarkTypes ==
  ASSUME TypeOK, NEW t \in Tasks, Mark(t)
  PROVE  /\ markedAt' \in [Tasks -> 0 .. MaxTime \cup {Never}]
         /\ \A u \in Tasks :
              markedAt'[u] = IF u = t /\ ~ Seen(t) THEN now ELSE markedAt[u]
  BY DEF TypeOK, Mark

\* If its delivery is in time, a task that was executed before is seen.
LEMMA ExecutedIsSeen ==
  ASSUME TypeOK, MarkedAfterSent, NEW t \in Tasks, executions[t] > 0, ~ Expired(t)
  PROVE  Seen(t)
<1>1. /\ sentAt[t] \in Int /\ markedAt[t] \in Int /\ now \in Int
      /\ sentAt[t] <= markedAt[t] /\ markedAt[t] # Never
  BY BoundsAssumption DEF TypeOK, MarkedAfterSent, Never
<1>2. now < sentAt[t] + MessageTTL
  BY <1>1, TTLAssumption DEF Expired
<1>3. QED
  BY <1>1, <1>2, TTLAssumption DEF Seen

LEMMA StepIInv == IInv /\ [Next]_vars => IInv'
<1> SUFFICES ASSUME IInv, [Next]_vars PROVE IInv'
  OBVIOUS
<1> USE BoundsAssumption, TTLAssumption, TypeOKSplit DEF IInv
<1>a. ASSUME NEW t \in Tasks, NEW a \in Attempts, Advances(t, a), AgentTypes', Deduplicated'
      PROVE  IInv'
  BY <1>a, AdvancesInv, TypeOKSplit DEF BrokerTypes, AgentTypes, TypeOK, Places, Stages
<1>1. ASSUME NEW t \in Tasks, Publish(t) PROVE IInv'
  <2>1. /\ place[t] = "unsent" /\ place' \in [Tasks -> Places]
        /\ \A u \in Tasks : place'[u] = IF u = t THEN "queued" ELSE place[u]
    BY <1>1 DEF Publish, BrokerTypes, Places
  <2>2. /\ sentAt' \in [Tasks -> 0 .. MaxTime \cup {Never}]
        /\ \A u \in Tasks : sentAt'[u] = IF u = t THEN now ELSE sentAt[u]
    BY <1>1 DEF Publish, BrokerTypes
  <2>3. UNCHANGED <<body, holder, deliveries, attempt, markedAt, executions, output,
                    announced, now, faults>>
    BY <1>1 DEF Publish, agentVars
  <2>4. BrokerTypes' /\ AgentTypes'
    BY <2>1, <2>2, <2>3 DEF BrokerTypes, AgentTypes
  <2>5. \A b \in Attempts : attempt[t][b] = "none"
    BY <2>1 DEF SentTimes
  <2>6. FreshDelivery'
    BY <2>1, <2>2, <2>3, <2>5 DEF FreshDelivery, Expired
  <2>7. now # Never /\ now <= now
    BY DEF BrokerTypes, Never
  <2>8. SentTimes'
    BY <2>1, <2>2, <2>3, <2>7 DEF SentTimes
  <2>9. DeliveryCount'
    BY <2>1, <2>3 DEF DeliveryCount, BrokerTypes
  <2>10. Deduplicated'
    BY <2>1, <2>2, <2>3 DEF Deduplicated, MarkedAfterSent, ExecutedAtMostOnce, SentTimes
  <2>11. TypeOK'
    BY <2>4 DEF BrokerTypes, AgentTypes, TypeOK, Places, Stages
  <2>12. QED
    BY <2>6, <2>8, <2>9, <2>10, <2>11
<1>3. ASSUME NEW t \in Tasks, Expire(t) PROVE IInv'
  <2>1. /\ place[t] = "queued" /\ place' \in [Tasks -> Places]
        /\ \A u \in Tasks : place'[u] = IF u = t THEN "dead" ELSE place[u]
    BY <1>3 DEF Expire, BrokerTypes, Places
  <2>2. UNCHANGED <<body, holder, deliveries, sentAt, attempt, markedAt, executions,
                    output, announced, now, faults>>
    BY <1>3 DEF Expire, agentVars
  <2>3. BrokerTypes' /\ AgentTypes'
    BY <2>1, <2>2 DEF BrokerTypes, AgentTypes
  <2>4. TypeOK'
    BY <2>3 DEF BrokerTypes, AgentTypes, TypeOK, Places, Stages
  <2>5. FreshDelivery' /\ SentTimes' /\ DeliveryCount'
    BY <2>1, <2>2 DEF FreshDelivery, SentTimes, DeliveryCount, Expired
  <2>6. Deduplicated'
    BY <2>2 DEF Deduplicated, MarkedAfterSent, ExecutedAtMostOnce
  <2>7. QED
    BY <2>4, <2>5, <2>6
<1>4. ASSUME NEW t \in Tasks, Forget(t) PROVE IInv'
  BY <1>4 DEF Forget, brokerVars, TypeOK, FreshDelivery, SentTimes, DeliveryCount,
              Deduplicated, MarkedAfterSent, ExecutedAtMostOnce, Attempts, Live,
              Never, Expired
<1>5. CASE Disconnect
  BY <1>5 DEF Disconnect, Requeue, agentVars, TypeOK, FreshDelivery, SentTimes,
              DeliveryCount, Deduplicated, MarkedAfterSent, ExecutedAtMostOnce,
              Attempts, Live, Never, Expired
<1>7. CASE Tick
  BY <1>7 DEF Tick, agentVars, TypeOK, FreshDelivery, SentTimes, DeliveryCount,
              Deduplicated, MarkedAfterSent, ExecutedAtMostOnce, Attempts, Live,
              Never, Expired
<1>13. CASE UNCHANGED vars
  BY <1>13 DEF vars, TypeOK, FreshDelivery, SentTimes, DeliveryCount, Deduplicated,
               MarkedAfterSent, ExecutedAtMostOnce, Expired
<1>2. ASSUME NEW t \in Tasks, Deliver(t) PROVE IInv'
  <2> DEFINE a == deliveries[t] + 1
  <2>1. /\ place[t] = "queued" /\ ~ Expired(t)
        /\ deliveries[t] \in 0 .. MaxFaults /\ a \in Attempts
    BY <1>2 DEF Deliver, DeliveryCount, TypeOK, Attempts
  <2>2. /\ attempt' \in [Tasks -> [Attempts -> Stages]]
        /\ \A u \in Tasks, b \in Attempts :
             attempt'[u][b] = IF u = t /\ b = a THEN "received" ELSE attempt[u][b]
    <3>1. attempt' = [attempt EXCEPT ![t][a] = "received"] /\ "received" \in Stages
      BY <1>2 DEF Deliver, Stages, Live
    <3>2. QED
      BY <2>1, <3>1, AttemptUpdate
  <2>3. TypeOK'
    BY <1>2, <2>1, <2>2 DEF Deliver, TypeOK, Stages, Attempts, Live
  <2>4. FreshDelivery'
    BY <1>2, <2>1, <2>2 DEF Deliver, FreshDelivery, Expired
  <2>5. SentTimes'
    BY <1>2, <2>1, <2>2 DEF Deliver, SentTimes, TypeOK
  <2>6. DeliveryCount'
    BY <1>2, <2>1 DEF Deliver, DeliveryCount, TypeOK
  <2>7. Deduplicated'
    BY <1>2 DEF Deliver, Deduplicated, MarkedAfterSent, ExecutedAtMostOnce
  <2>8. QED
    BY <2>3, <2>4, <2>5, <2>6, <2>7
<1>6. CASE Crash
  <2>1. /\ attempt' \in [Tasks -> [Attempts -> Stages]]
        /\ \A u \in Tasks, b \in Attempts :
             attempt'[u][b] = IF attempt[u][b] \in Live THEN "killed" ELSE attempt[u][b]
    BY <1>6 DEF Crash, TypeOK, Stages, Live
  <2>2. TypeOK'
    BY <1>6, <2>1 DEF Crash, Requeue, TypeOK, Stages
  <2>3. FreshDelivery'
    BY <1>6, <2>1 DEF Crash, FreshDelivery, Expired, Live
  <2>4. SentTimes' /\ DeliveryCount'
    BY <1>6, <2>1 DEF Crash, Requeue, SentTimes, DeliveryCount, TypeOK, Live
  <2>5. Deduplicated'
    BY <1>6 DEF Crash, Deduplicated, MarkedAfterSent, ExecutedAtMostOnce
  <2>6. QED
    BY <2>2, <2>3, <2>4, <2>5
<1>8. ASSUME NEW t \in Tasks, NEW a \in Attempts,
             DropUnreadable(t, a) \/ SuppressDuplicate(t, a)
      PROVE  IInv'
  <2>1. Advances(t, a)
    <3>1. /\ attempt[t][a] = "received" /\ UNCHANGED brokerVars
          /\ \E how \in {"acked", "dead"} : Settle(t, a, how)
      BY <1>8 DEF DropUnreadable, SuppressDuplicate
    <3>2. QED
      BY <3>1, SettleAdvances DEF Live
  <2>2. UNCHANGED <<sentAt, markedAt, executions, output, announced>>
    BY <1>8 DEF DropUnreadable, SuppressDuplicate, brokerVars
  <2>3. AgentTypes' /\ Deduplicated'
    BY <2>2 DEF AgentTypes, Deduplicated, MarkedAfterSent, ExecutedAtMostOnce
  <2>4. QED
    BY <1>a, <2>1, <2>3
<1>10. ASSUME NEW t \in Tasks, NEW a \in Attempts, CheckRaises(t, a) PROVE IInv'
  <2>1. Advances(t, a)
    BY <1>10, SettleAdvances DEF CheckRaises, Live
  <2>2. /\ UNCHANGED <<sentAt, executions, output, announced>>
        /\ markedAt' \in [Tasks -> 0 .. MaxTime \cup {Never}]
        /\ \A u \in Tasks : markedAt'[u] \in {markedAt[u], now}
    BY <1>10, MarkTypes DEF CheckRaises, brokerVars, AgentTypes
  <2>3. AgentTypes' /\ Deduplicated'
    BY <2>2 DEF AgentTypes, BrokerTypes, Deduplicated, MarkedAfterSent,
                ExecutedAtMostOnce, SentTimes, Never
  <2>4. QED
    BY <1>a, <2>1, <2>3
<1>11. ASSUME NEW t \in Tasks, NEW a \in Attempts, Accept(t, a) PROVE IInv'
  <2>1. /\ attempt[t][a] = "received" /\ ~ Seen(t) /\ ~ Expired(t)
        /\ UNCHANGED <<brokerVars, sentAt, output, announced>>
    BY <1>11 DEF Accept, FreshDelivery, brokerVars
  <2>2. Advances(t, a)
    BY <1>11, <2>1, SettleAdvances, GoOnAdvances DEF Accept, Live
  <2>3. /\ markedAt' \in [Tasks -> 0 .. MaxTime \cup {Never}]
        /\ \A u \in Tasks : markedAt'[u] = IF u = t THEN now ELSE markedAt[u]
    BY <1>11, <2>1, MarkTypes DEF Accept
  <2>4. /\ executions' \in [Tasks -> Nat]
        /\ \A u \in Tasks : executions'[u] \in
             {executions[u], IF u = t THEN executions[u] + 1 ELSE executions[u]}
    BY <1>11 DEF Accept, AgentTypes
  <2>5. AgentTypes'
    BY <2>1, <2>3, <2>4 DEF AgentTypes
  <2>6. sentAt[t] # Never /\ sentAt[t] <= now
    BY <2>1 DEF SentTimes
  <2>7. ~ RedisForgets => executions[t] = 0
    BY <2>1, ExecutedIsSeen DEF Deduplicated, AgentTypes
  <2>8. now # Never
    BY DEF BrokerTypes, Never
  <2>9. Deduplicated'
    BY <2>1, <2>3, <2>4, <2>6, <2>7, <2>8
    DEF Deduplicated, MarkedAfterSent, ExecutedAtMostOnce, AgentTypes
  <2>10. QED
    BY <1>a, <2>2, <2>5, <2>9
<1>12. ASSUME NEW t \in Tasks, NEW a \in Attempts, ProcessTask(t, a) PROVE IInv'
  <2>1. UNCHANGED <<brokerVars, sentAt, markedAt, executions>>
    BY <1>12 DEF ProcessTask, Execute, Announce, AnnounceRaises, Apologise,
                 ApologiseRaises, brokerVars
  <2>2. attempt[t][a] \in Live
    BY <1>12 DEF ProcessTask, Execute, Announce, AnnounceRaises, Apologise,
                 ApologiseRaises, Live
  <2>3. \/ \E how \in {"acked", "dead"} : Settle(t, a, how)
        \/ \E v \in {"announcing", "apologising"} : GoOn(t, a, v)
    BY <1>12 DEF ProcessTask, Execute, Announce, AnnounceRaises, Apologise,
                 ApologiseRaises
  <2>4. Advances(t, a)
    BY <2>1, <2>2, <2>3, SettleAdvances, GoOnAdvances DEF Live
  <2>5. output' \in [Tasks -> {"none", "completed", "failed"}]
    BY <1>12 DEF ProcessTask, Execute, Announce, AnnounceRaises, Apologise,
                 ApologiseRaises, AgentTypes
  <2>6. announced' \in [Tasks -> SUBSET {"task.completed", "task.failed"}]
    BY <1>12 DEF ProcessTask, Execute, Announce, AnnounceRaises, Apologise,
                 ApologiseRaises, Tell, AgentTypes
  <2>7. AgentTypes' /\ Deduplicated'
    BY <2>1, <2>5, <2>6 DEF AgentTypes, Deduplicated, MarkedAfterSent, ExecutedAtMostOnce
  <2>8. QED
    BY <1>a, <2>4, <2>7
<1>14. QED
  BY <1>1, <1>2, <1>3, <1>4, <1>5, <1>6, <1>7, <1>8, <1>10, <1>11, <1>12, <1>13
  DEF Next, OnMessage, Quiet

LEMMA AlwaysIInv == Spec => []IInv
  BY InitIInv, StepIInv, PTL DEF Spec

-----------------------------------------------------------------------------
\* The variables keep their types, and an unsettled message has a holder.
THEOREM TypeCorrect == Spec => []TypeOK
<1>1. IInv => TypeOK
  BY DEF IInv
<1>2. QED
  BY <1>1, AlwaysIInv, PTL

\* As long as Redis keeps its keys, no task is executed twice, whatever
\* connections are lost and however often the agent crashes.
THEOREM AtMostOnce ==
  ASSUME ~ RedisForgets
  PROVE  Spec => []ExecutedAtMostOnce
<1>1. IInv => ExecutedAtMostOnce
  BY DEF IInv, Deduplicated
<1>2. QED
  BY <1>1, AlwaysIInv, PTL

\* The key of an executed task outlives the message, because the TTL of the key
\* is not shorter than the TTL of the queue.
THEOREM MarkerOutlives ==
  ASSUME ~ RedisForgets
  PROVE  Spec => []MarkerOutlivesMessage
<1>1. IInv => MarkerOutlivesMessage
  BY ExecutedIsSeen DEF IInv, Deduplicated, MarkerOutlivesMessage
<1>2. QED
  BY <1>1, AlwaysIInv, PTL

-----------------------------------------------------------------------------
(* Answers. A message that was delivered once has one attempt; nothing but that    *)
(* attempt has marked its key, so that it does not take itself for a duplicate.     *)

FirstAttempt(t) ==
  /\ \A b \in Attempts : b > deliveries[t] => attempt[t][b] = "none"
  /\ deliveries[t] <= 1 /\ attempt[t][1] \in {"none", "received"} => markedAt[t] = Never
  /\ body[t] = "task" /\ deliveries[t] = 1 /\ place[t] = "acked" => announced[t] # {}

AnswerInv == \A t \in Tasks : FirstAttempt(t)

\* A step of one attempt leaves the other messages alone.
LEMMA AttemptIsLocal ==
  ASSUME TypeOK, NEW t \in Tasks, NEW a \in Attempts, OnMessage(t, a) \/ ProcessTask(t, a),
         NEW u \in Tasks, u # t
  PROVE  /\ place'[u] = place[u] /\ attempt'[u] = attempt[u] /\ markedAt'[u] = markedAt[u]
         /\ announced'[u] = announced[u]
<1> USE DEF TypeOK, Settle, GoOn, Mark, Tell
<1>1. CASE OnMessage(t, a)
  BY <1>1 DEF OnMessage, DropUnreadable, SuppressDuplicate, CheckRaises, Accept
<1>2. CASE ProcessTask(t, a)
  BY <1>2 DEF ProcessTask, Execute, Announce, AnnounceRaises, Apologise, ApologiseRaises
<1> QED
  BY <1>1, <1>2

LEMMA AttemptAnswers ==
  ASSUME TypeOK, AnswerInv, NEW t \in Tasks, NEW a \in Attempts, OnMessage(t, a) \/ ProcessTask(t, a)
  PROVE  FirstAttempt(t)'
<1> USE BoundsAssumption DEF AnswerInv, FirstAttempt
<1>1. attempt[t][a] # "none" /\ a <= deliveries[t] /\ UNCHANGED <<body, deliveries>>
  <2>1. attempt[t][a] # "none" /\ UNCHANGED brokerVars
    BY DEF OnMessage, DropUnreadable, SuppressDuplicate, CheckRaises, Accept, ProcessTask, Execute,
           Announce, AnnounceRaises, Apologise, ApologiseRaises
  <2> QED
    BY <2>1 DEF brokerVars, TypeOK, Attempts
<1>2. PICK v \in Stages \ {"none", "received"} : attempt' = [attempt EXCEPT ![t][a] = v]
  BY DEF OnMessage, DropUnreadable, SuppressDuplicate, CheckRaises, Accept, ProcessTask, Execute,
         Announce, AnnounceRaises, Apologise, ApologiseRaises, Settle, GoOn, Stages, Live
<1>3. \A b \in Attempts : attempt'[t][b] = IF b = a THEN v ELSE attempt[t][b]
  BY <1>2, AttemptUpdate
<1>4. 1 \in Attempts /\ a >= 1 /\ deliveries[t] \in Nat
  BY DEF Attempts, TypeOK
<1>5. \A b \in Attempts : b > deliveries'[t] => attempt'[t][b] = "none"
  BY <1>1, <1>3, <1>4 DEF Attempts
<1>6. deliveries'[t] <= 1 => attempt'[t][1] \notin {"none", "received"}
  BY <1>1, <1>2, <1>3, <1>4 DEF Attempts
<1>7. ASSUME body[t] = "task", deliveries[t] = 1, place'[t] = "acked" PROVE announced'[t] # {}
  <2>1. CASE place[t] = "acked"
    <3>1. announced[t] # {} /\ announced[t] \subseteq announced'[t]
      BY <1>7, <2>1 DEF OnMessage, DropUnreadable, SuppressDuplicate, CheckRaises, Accept, ProcessTask,
         Execute, Announce, AnnounceRaises, Apologise, ApologiseRaises, Tell, TypeOK
    <3> QED
      BY <3>1
  <2>2. CASE place[t] # "acked"
    <3>1. ~ SuppressDuplicate(t, a)
      BY <1>1, <1>4, <1>7 DEF SuppressDuplicate, Seen, Attempts
    <3>2. ~ DropUnreadable(t, a) /\ ~ CheckRaises(t, a)
      BY <1>7, <2>2 DEF DropUnreadable, CheckRaises, Unreadable, Settle, TypeOK
    <3>3. ~ Accept(t, a)
      BY <1>7, <2>2 DEF Accept, Settle, GoOn, TypeOK
    <3>4. ~ Execute(t, a) /\ ~ AnnounceRaises(t, a) /\ ~ ApologiseRaises(t, a)
      BY <1>7, <2>2 DEF Execute, AnnounceRaises, ApologiseRaises, Settle, GoOn, TypeOK
    <3>5. Announce(t, a) \/ Apologise(t, a)
      BY <3>1, <3>2, <3>3, <3>4 DEF OnMessage, ProcessTask
    <3>6. PICK e \in {"task.completed", "task.failed"} : Tell(t, e)
      BY <3>5 DEF Announce, Apologise
    <3> QED
      BY <3>6 DEF Tell, TypeOK
  <2> QED
    BY <2>1, <2>2
<1> QED
  BY <1>1, <1>5, <1>6, <1>7

LEMMA NothingNew ==
  ASSUME NEW u \in Tasks, FirstAttempt(u),
         \A b \in Attempts : (attempt'[u][b] = "none" <=> attempt[u][b] = "none")
                             /\ (attempt'[u][b] = "received" => attempt[u][b] = "received"),
         place'[u] = "acked" => place[u] = "acked",
         markedAt'[u] \in {markedAt[u], Never},
         UNCHANGED <<body[u], deliveries[u], announced[u]>>
  PROVE  FirstAttempt(u)'
<1>1. 1 \in Attempts
  BY BoundsAssumption DEF Attempts
<1> QED
  BY <1>1 DEF FirstAttempt

LEMMA DeliverAnswers ==
  ASSUME TypeOK, DeliveryCount, AnswerInv, NEW t \in Tasks, Deliver(t), NEW u \in Tasks
  PROVE  FirstAttempt(u)'
<1>1. /\ deliveries[t] \in 0 .. MaxFaults /\ deliveries[t] + 1 \in Attempts /\ 1 \in Attempts
      /\ place[t] = "queued"
  BY BoundsAssumption DEF Deliver, DeliveryCount, TypeOK, Attempts
<1>2. /\ deliveries'[u] = IF u = t THEN deliveries[u] + 1 ELSE deliveries[u]
      /\ place'[u] = IF u = t THEN "unacked" ELSE place[u]
      /\ UNCHANGED <<body, markedAt, announced>>
  BY DEF Deliver, TypeOK
<1>3. \A b \in Attempts :
        attempt'[u][b] = IF u = t /\ b = deliveries[t] + 1 THEN "received" ELSE attempt[u][b]
  <2>1. attempt' = [attempt EXCEPT ![t][deliveries[t] + 1] = "received"] /\ "received" \in Stages
    BY DEF Deliver, Stages, Live
  <2> QED
    BY <1>1, <2>1, AttemptUpdate
<1>4. CASE u = t
  <2>1. \A b \in Attempts : b > deliveries[t] => attempt[t][b] = "none"
    BY DEF AnswerInv, FirstAttempt
  <2>2. \A b \in Attempts : b > deliveries[t] + 1 => b > deliveries[t] /\ b # deliveries[t] + 1
    BY <1>1 DEF Attempts
  <2>3. \A b \in Attempts : b > deliveries'[t] => attempt'[t][b] = "none"
    BY <1>2, <1>3, <1>4, <2>1, <2>2
  <2>4. deliveries'[t] <= 1 => deliveries[t] = 0
    BY <1>1, <1>2, <1>4
  <2>5. deliveries'[t] <= 1 => markedAt'[t] = Never
    BY <1>1, <1>2, <2>1, <2>4 DEF AnswerInv, FirstAttempt
  <2> QED
    BY <1>2, <1>4, <2>3, <2>5 DEF FirstAttempt
<1>5. CASE u # t
  BY <1>2, <1>3, <1>5, NothingNew DEF AnswerInv
<1> QED
  BY <1>4, <1>5

LEMMA BrokerAnswers ==
  ASSUME TypeOK, DeliveryCount, AnswerInv,
         \/ \E t \in Tasks : Publish(t) \/ Deliver(t) \/ Expire(t) \/ Forget(t)
         \/ Disconnect \/ Crash \/ Tick
  PROVE  AnswerInv'
<1> SUFFICES ASSUME NEW u \in Tasks PROVE FirstAttempt(u)'
  BY DEF AnswerInv
<1>0. FirstAttempt(u)
  BY DEF AnswerInv
<1>1. ASSUME NEW t \in Tasks, Publish(t) \/ Expire(t) PROVE FirstAttempt(u)'
  BY <1>0, <1>1, NothingNew DEF Publish, Expire, agentVars, TypeOK
<1>2. ASSUME NEW t \in Tasks, Forget(t) PROVE FirstAttempt(u)'
  BY <1>0, <1>2, NothingNew DEF Forget, brokerVars, TypeOK
<1>3. ASSUME NEW t \in Tasks, Deliver(t) PROVE FirstAttempt(u)'
  BY <1>3, DeliverAnswers
<1>4. CASE Disconnect
  BY <1>0, <1>4, NothingNew DEF Disconnect, Requeue, agentVars, TypeOK
<1>5. CASE Crash
  <2>1. \A b \in Attempts :
          attempt'[u][b] = IF attempt[u][b] \in Live THEN "killed" ELSE attempt[u][b]
    BY <1>5 DEF Crash
  <2>2. /\ UNCHANGED <<body, deliveries, markedAt, announced>>
        /\ place'[u] = "acked" => place[u] = "acked"
    BY <1>5 DEF Crash, Requeue
  <2> QED
    BY <1>0, <2>1, <2>2, NothingNew DEF Live
<1>6. CASE Tick
  BY <1>0, <1>6, NothingNew DEF Tick, agentVars
<1> QED
  BY <1>1, <1>2, <1>3, <1>4, <1>5, <1>6

\* Every step keeps the answers.
LEMMA StepAnswerInv == IInv /\ AnswerInv /\ [Next]_vars => AnswerInv'
<1> SUFFICES ASSUME IInv, AnswerInv, [Next]_vars PROVE AnswerInv'
  OBVIOUS
<1>1. CASE UNCHANGED vars
  BY <1>1 DEF vars, AnswerInv, FirstAttempt
<1>2. ASSUME NEW t \in Tasks, NEW a \in Attempts, OnMessage(t, a) \/ ProcessTask(t, a)
      PROVE  AnswerInv'
  <2>1. FirstAttempt(t)'
    BY <1>2, AttemptAnswers DEF IInv
  <2>2. ASSUME NEW u \in Tasks, u # t PROVE FirstAttempt(u)'
    <3>1. /\ place'[u] = place[u] /\ attempt'[u] = attempt[u] /\ markedAt'[u] = markedAt[u]
          /\ announced'[u] = announced[u]
      BY <1>2, <2>2, AttemptIsLocal DEF IInv
    <3>2. UNCHANGED <<body, deliveries>>
      BY <1>2 DEF OnMessage, DropUnreadable, SuppressDuplicate, CheckRaises, Accept, ProcessTask,
         Execute, Announce, AnnounceRaises, Apologise, ApologiseRaises, brokerVars
    <3> QED
      BY <3>1, <3>2 DEF AnswerInv, FirstAttempt
  <2> QED
    BY <2>1, <2>2 DEF AnswerInv
<1> QED
  BY <1>1, <1>2, BrokerAnswers DEF Next, Quiet, IInv

\* Whatever was delivered once and acked has its answer, always.
LEMMA AlwaysAnswerInv == Spec => []AnswerInv
<1>1. Init => AnswerInv
  BY BoundsAssumption DEF Init, AnswerInv, FirstAttempt, Attempts
<1> QED
  BY <1>1, StepAnswerInv, AlwaysIInv, PTL DEF Spec

\* A task that the agent got once and acked was answered with an event, whatever
\* execute() and the publishers did (base_agent.py:264-326), and whatever keys Redis
\* lost.
THEOREM AcksAreAnswers == Spec => []AckedIsAnswered
<1>1. AnswerInv => AckedIsAnswered
  BY DEF AnswerInv, FirstAttempt, AckedIsAnswered
<1> QED
  BY <1>1, AlwaysAnswerInv, PTL

-----------------------------------------------------------------------------
(* The refinement. A key is set after its message was sent, so that the check of a  *)
(* delivery that is in time finds every key that Redis has kept; and who works on a *)
(* task has called execute().                                                       *)

MarkedFromHere ==
  \A t \in Tasks : markedAt[t] # Never => sentAt[t] # Never /\ sentAt[t] <= markedAt[t]

Working == {"executing", "announcing", "apologising"}

WorkIsRun ==
  \A t \in Tasks, a \in Attempts : attempt[t][a] \in Working => executions[t] > 0

PromiseInv == IInv /\ AnswerInv /\ MarkedFromHere /\ WorkIsRun

\* Who finds a key that is set, in time, takes the message for a duplicate.
LEMMA KeptIsSeen ==
  ASSUME TypeOK, MarkedFromHere, NEW t \in Tasks, markedAt[t] # Never, ~ Expired(t)
  PROVE  Seen(t)
<1>1. /\ sentAt[t] \in Int /\ markedAt[t] \in Int /\ now \in Int /\ sentAt[t] <= markedAt[t]
  BY BoundsAssumption DEF TypeOK, MarkedFromHere, Never
<1> QED
  BY <1>1, TTLAssumption DEF Expired, Seen

\* An attempt that is served: its message was sent.
LEMMA ServedIsSent ==
  ASSUME IInv, NEW t \in Tasks, NEW a \in Attempts, attempt[t][a] # "none"
  PROVE  place[t] # "unsent" /\ sentAt[t] # Never /\ sentAt[t] <= now /\ now # Never
  BY BoundsAssumption DEF IInv, SentTimes, TypeOK, Never

\* The keys after a step of an attempt that has a fresh delivery.
LEMMA KeyIsTaken ==
  ASSUME IInv, MarkedFromHere, NEW t \in Tasks, NEW a \in Attempts,
         attempt[t][a] = "received", Mark(t)
  PROVE  \/ UNCHANGED markedAt
         \/ /\ markedAt[t] = Never
            /\ \A u \in Tasks : markedAt'[u] = IF u = t THEN now ELSE markedAt[u]
<1>1. ~ Expired(t)
  BY DEF IInv, FreshDelivery
<1>2. markedAt \in [Tasks -> 0 .. MaxTime \cup {Never}]
  BY DEF IInv, TypeOK
<1>3. CASE Seen(t)
  BY <1>2, <1>3 DEF Mark
<1>4. CASE ~ Seen(t)
  BY <1>1, <1>2, <1>4, KeptIsSeen DEF Mark, IInv
<1> QED
  BY <1>3, <1>4

\* What a step of an attempt does to the key of its message, and to the task.
TakesKey(t) ==
  \/ UNCHANGED markedAt
  \/ /\ markedAt[t] = Never
     /\ \A u \in Tasks : markedAt'[u] = IF u = t THEN now ELSE markedAt[u]

\* An attempt takes the key of its own message, and only a free one.
LEMMA AttemptTakesKey ==
  ASSUME IInv, MarkedFromHere, NEW t \in Tasks, NEW a \in Attempts,
         OnMessage(t, a) \/ ProcessTask(t, a)
  PROVE  TakesKey(t) /\ UNCHANGED <<sentAt, now>> /\ attempt[t][a] # "none"
<1>1. attempt[t][a] # "none" /\ UNCHANGED brokerVars
  BY DEF OnMessage, DropUnreadable, SuppressDuplicate, CheckRaises, Accept, ProcessTask, Execute,
         Announce, AnnounceRaises, Apologise, ApologiseRaises
<1>2. CASE OnMessage(t, a)
  BY <1>1, <1>2, KeyIsTaken
  DEF OnMessage, DropUnreadable, SuppressDuplicate, CheckRaises, Accept, brokerVars, TakesKey
<1>3. CASE ProcessTask(t, a)
  BY <1>1, <1>3 DEF ProcessTask, Execute, Announce, AnnounceRaises, Apologise, ApologiseRaises,
                    brokerVars, TakesKey
<1> QED
  BY <1>2, <1>3

\* No step sets the key of a message before the message is sent.
LEMMA StepMarkedFromHere == IInv /\ MarkedFromHere /\ [Next]_vars => MarkedFromHere'
<1> SUFFICES ASSUME IInv, MarkedFromHere, [Next]_vars PROVE MarkedFromHere'
  OBVIOUS
<1>1. ASSUME NEW t \in Tasks, NEW a \in Attempts, OnMessage(t, a) \/ ProcessTask(t, a)
      PROVE  MarkedFromHere'
  <2>1. TakesKey(t) /\ UNCHANGED <<sentAt, now>> /\ sentAt[t] # Never /\ sentAt[t] <= now
    BY <1>1, AttemptTakesKey, ServedIsSent
  <2> QED
    BY <2>1 DEF MarkedFromHere, TakesKey
<1>2. ASSUME NEW t \in Tasks, Publish(t) PROVE MarkedFromHere'
  <2>1. sentAt[t] = Never
    BY <1>2 DEF Publish, IInv, SentTimes
  <2> QED
    BY <1>2, <2>1 DEF Publish, agentVars, MarkedFromHere, IInv, TypeOK
<1>3. ASSUME NEW t \in Tasks, Forget(t) PROVE MarkedFromHere'
  BY <1>3 DEF Forget, brokerVars, MarkedFromHere, IInv, TypeOK
<1>4. ASSUME NEW t \in Tasks, Deliver(t) \/ Expire(t) PROVE MarkedFromHere'
  BY <1>4 DEF Deliver, Expire, agentVars, MarkedFromHere
<1>5. CASE Disconnect \/ Crash \/ Tick \/ UNCHANGED vars
  BY <1>5 DEF Disconnect, Crash, Tick, agentVars, vars, MarkedFromHere
<1> QED
  BY <1>1, <1>2, <1>3, <1>4, <1>5 DEF Next, Quiet

\* Only Accept calls execute(), of a task, and an attempt works only after it.
LEMMA AttemptRuns ==
  ASSUME IInv, NEW t \in Tasks, NEW a \in Attempts, OnMessage(t, a) \/ ProcessTask(t, a)
  PROVE  /\ executions' \in [Tasks -> Nat]
         /\ \/ UNCHANGED executions
            \/ /\ body[t] = "task" /\ attempt[t][a] = "received"
               /\ executions' = [executions EXCEPT ![t] = @ + 1]
         /\ \E v \in Stages :
              /\ attempt' = [attempt EXCEPT ![t][a] = v]
              /\ v \in Working => attempt[t][a] \in Working
                                  \/ executions' = [executions EXCEPT ![t] = @ + 1]
<1> USE DEF Settle, GoOn, Stages, Working, Live
<1>1. CASE OnMessage(t, a)
  BY <1>1 DEF OnMessage, DropUnreadable, SuppressDuplicate, CheckRaises, Accept, IInv, TypeOK
<1>2. CASE ProcessTask(t, a)
  BY <1>2 DEF ProcessTask, Execute, Announce, AnnounceRaises, Apologise, ApologiseRaises, IInv, TypeOK
<1> QED
  BY <1>1, <1>2

\* No step puts an attempt to work on a task that was not executed.
LEMMA StepWorkIsRun == IInv /\ WorkIsRun /\ [Next]_vars => WorkIsRun'
<1> SUFFICES ASSUME IInv, WorkIsRun, [Next]_vars PROVE WorkIsRun'
  OBVIOUS
<1>1. ASSUME NEW t \in Tasks, NEW a \in Attempts, OnMessage(t, a) \/ ProcessTask(t, a)
      PROVE  WorkIsRun'
  <2>1. PICK v \in Stages :
          /\ attempt' = [attempt EXCEPT ![t][a] = v]
          /\ v \in Working => attempt[t][a] \in Working
                              \/ executions' = [executions EXCEPT ![t] = @ + 1]
    BY <1>1, AttemptRuns
  <2>2. \A u \in Tasks, b \in Attempts :
          attempt'[u][b] = IF u = t /\ b = a THEN v ELSE attempt[u][b]
    BY <2>1, AttemptUpdate DEF IInv
  <2>3. executions \in [Tasks -> Nat] /\ (UNCHANGED executions
          \/ executions' = [executions EXCEPT ![t] = @ + 1])
    BY <1>1, AttemptRuns DEF IInv, TypeOK
  <2> QED
    BY <2>1, <2>2, <2>3 DEF WorkIsRun
<1>2. ASSUME NEW t \in Tasks, Deliver(t) PROVE WorkIsRun'
  <2>1. deliveries[t] + 1 \in Attempts
    BY <1>2, BoundsAssumption DEF Deliver, IInv, DeliveryCount, TypeOK, Attempts
  <2>2. \A u \in Tasks, b \in Attempts :
          attempt'[u][b] = IF u = t /\ b = deliveries[t] + 1 THEN "received" ELSE attempt[u][b]
    <3>1. attempt' = [attempt EXCEPT ![t][deliveries[t] + 1] = "received"] /\ "received" \in Stages
      BY <1>2 DEF Deliver, Stages, Live
    <3> QED
      BY <2>1, <3>1, AttemptUpdate DEF IInv
  <2> QED
    BY <1>2, <2>2 DEF Deliver, WorkIsRun, Working
<1>3. CASE Crash
  BY <1>3 DEF Crash, WorkIsRun, Working, Live
<1>4. ASSUME NEW t \in Tasks, Publish(t) \/ Expire(t) \/ Forget(t) PROVE WorkIsRun'
  BY <1>4 DEF Publish, Expire, Forget, agentVars, WorkIsRun
<1>5. CASE Disconnect \/ Tick \/ UNCHANGED vars
  BY <1>5 DEF Disconnect, Tick, agentVars, vars, WorkIsRun
<1> QED
  BY <1>1, <1>2, <1>3, <1>4, <1>5 DEF Next, Quiet

\* What the refinement rests on holds always.
LEMMA AlwaysPromiseInv == Spec => []PromiseInv
<1>1. Init => MarkedFromHere /\ WorkIsRun
  BY DEF Init, MarkedFromHere, WorkIsRun, Working
<1> QED
  BY <1>1, StepMarkedFromHere, StepWorkIsRun, AlwaysIInv, AlwaysAnswerInv, PTL
  DEF Spec, PromiseInv

\* Settling, claiming and telling, as the promise has them.
State == [t \in Tasks |-> IF place[t] \in {"queued", "unacked"} THEN "open" ELSE place[t]]
Real == {t \in Tasks : body[t] = "task"}
Again == {t \in Tasks : deliveries[t] > 1}
Claimed == {t \in Tasks : markedAt[t] # Never}

\* The broker starts without messages, and Redis without keys.
LEMMA InitPromises == Init => Promise!Init
  BY DEF Init, Promise!Init

\* An ack of a task that was delivered once comes with an answer.
LEMMA AckIsEarned ==
  ASSUME PromiseInv, PromiseInv', NEW t \in Tasks, NEW a \in Attempts,
         OnMessage(t, a) \/ ProcessTask(t, a), place[t] # "acked", place'[t] = "acked"
  PROVE  t \in Real => t \in Again \/ announced'[t] # {}
<1>1. deliveries[t] \in Nat /\ UNCHANGED <<body, deliveries>>
  BY BoundsAssumption
  DEF PromiseInv, IInv, TypeOK, OnMessage, DropUnreadable, SuppressDuplicate, CheckRaises, Accept,
      ProcessTask, Execute, Announce, AnnounceRaises, Apologise, ApologiseRaises, brokerVars
<1>2. deliveries[t] # 0
  <2>1. attempt[t][a] # "none" /\ a > 0
    BY BoundsAssumption, AttemptTakesKey DEF PromiseInv, Attempts
  <2> QED
    BY <2>1 DEF PromiseInv, AnswerInv, FirstAttempt
<1>3. body'[t] = "task" /\ deliveries'[t] = 1 => announced'[t] # {}
  BY DEF PromiseInv, AnswerInv, FirstAttempt
<1> QED
  BY <1>1, <1>2, <1>3 DEF Real, Again

\* The end of message.process() settles a message as the promise allows, or not at all.
LEMMA AttemptSettles ==
  ASSUME PromiseInv, PromiseInv', NEW t \in Tasks, NEW a \in Attempts,
         OnMessage(t, a) \/ ProcessTask(t, a)
  PROVE  /\ State[t] # "unsent"
         /\ Promise!Settle(t) \/ UNCHANGED State
<1>1. attempt[t][a] # "none" /\ place[t] # "unsent" /\ place \in [Tasks -> Places]
  BY AttemptTakesKey, ServedIsSent DEF PromiseInv, IInv, TypeOK, Places
<1>2. State[t] # "unsent"
  BY <1>1 DEF State
<1>3. \/ UNCHANGED place
      \/ /\ holder[t] = a
         /\ \E how \in {"acked", "dead"} : place' = [place EXCEPT ![t] = how]
  BY DEF OnMessage, DropUnreadable, SuppressDuplicate, CheckRaises, Accept, ProcessTask, Execute,
         Announce, AnnounceRaises, Apologise, ApologiseRaises, Settle, GoOn
<1>4. CASE UNCHANGED place
  BY <1>2, <1>4 DEF State
<1>5. ASSUME NEW how \in {"acked", "dead"}, holder[t] = a, place' = [place EXCEPT ![t] = how]
      PROVE  Promise!Settle(t)
  <2>1. a # 0 /\ place[t] = "unacked"
    BY <1>5, BoundsAssumption DEF PromiseInv, IInv, TypeOK, Attempts
  <2>2. State[t] = "open"
    BY <2>1 DEF State
  <2>3. \A u \in Tasks : place'[u] = IF u = t THEN how ELSE place[u]
    BY <1>1, <1>5
  <2>4. State' = [State EXCEPT ![t] = how]
    BY <2>3 DEF State
  <2>5. how = "acked" => (t \in Real => t \in Again \/ announced'[t] # {})
    BY <2>1, <2>3, AckIsEarned
  <2> QED
    BY <2>2, <2>4, <2>5 DEF Promise!Settle, State, Real, Again
<1> QED
  BY <1>2, <1>3, <1>4, <1>5

\* The key is taken, and the task executed, as the promise allows.
LEMMA AttemptClaims ==
  ASSUME PromiseInv, NEW t \in Tasks, NEW a \in Attempts, OnMessage(t, a) \/ ProcessTask(t, a)
  PROVE  Promise!Claim(t) \/ UNCHANGED <<Claimed, executions>>
<1>1. TakesKey(t) /\ now # Never
  BY AttemptTakesKey, ServedIsSent DEF PromiseInv
<1>2. \/ UNCHANGED executions
      \/ /\ body[t] = "task" /\ attempt[t][a] = "received"
         /\ executions' = [executions EXCEPT ![t] = @ + 1]
  BY AttemptRuns DEF PromiseInv
<1>3. CASE /\ markedAt[t] = Never
           /\ \A u \in Tasks : markedAt'[u] = IF u = t THEN now ELSE markedAt[u]
  <2>1. t \notin Claimed /\ Claimed' = Claimed \cup {t}
    BY <1>1, <1>3 DEF Claimed
  <2> QED
    BY <1>2, <2>1 DEF Promise!Claim, Claimed
<1>4. CASE UNCHANGED markedAt
  <2>1. UNCHANGED executions
    <3>1. SUFFICES ASSUME attempt[t][a] = "received", executions' # executions PROVE FALSE
      BY <1>2
    <3>2. Accept(t, a)
      BY <3>1 DEF OnMessage, DropUnreadable, SuppressDuplicate, CheckRaises, ProcessTask, Execute,
         Announce, AnnounceRaises, Apologise, ApologiseRaises
    <3>3. ~ Seen(t) /\ markedAt' = [markedAt EXCEPT ![t] = now]
      BY <3>2 DEF Accept, Mark
    <3>4. markedAt[t] = now
      BY <1>4, <3>3 DEF PromiseInv, IInv, TypeOK
    <3>5. ~ Expired(t)
      BY <3>1 DEF PromiseInv, IInv, FreshDelivery
    <3> QED
      BY <1>1, <3>3, <3>4, <3>5, KeptIsSeen DEF PromiseInv, IInv
  <2> QED
    BY <1>4, <2>1 DEF Claimed
<1> QED
  BY <1>1, <1>3, <1>4 DEF TakesKey

\* An event is published of a task that has run.
LEMMA AttemptTells ==
  ASSUME PromiseInv, NEW t \in Tasks, NEW a \in Attempts, OnMessage(t, a) \/ ProcessTask(t, a)
  PROVE  Promise!Tell(t) \/ UNCHANGED announced
<1>1. CASE OnMessage(t, a)
  BY <1>1 DEF OnMessage, DropUnreadable, SuppressDuplicate, CheckRaises, Accept
<1>2. CASE ProcessTask(t, a)
  <2>1. attempt[t][a] \in Working
    BY <1>2 DEF ProcessTask, Execute, Announce, AnnounceRaises, Apologise, ApologiseRaises, Working
  <2>2. executions[t] > 0
    BY <2>1 DEF PromiseInv, WorkIsRun
  <2>3. UNCHANGED announced \/ \E e \in {"task.completed", "task.failed"} : Tell(t, e)
    BY <1>2 DEF ProcessTask, Execute, Announce, AnnounceRaises, Apologise, ApologiseRaises
  <2> QED
    BY <2>2, <2>3 DEF Tell, Promise!Tell, Promise!Events
<1> QED
  BY <1>1, <1>2

\* Every step of an attempt serves its message.
LEMMA AttemptPromises ==
  ASSUME PromiseInv, PromiseInv', NEW t \in Tasks, NEW a \in Attempts,
         OnMessage(t, a) \/ ProcessTask(t, a)
  PROVE  Promise!Serve(t)
<1>1. UNCHANGED <<Real, Again>>
  BY DEF OnMessage, DropUnreadable, SuppressDuplicate, CheckRaises, Accept, ProcessTask, Execute,
         Announce, AnnounceRaises, Apologise, ApologiseRaises, brokerVars, Real, Again
<1> QED
  BY <1>1, AttemptSettles, AttemptClaims, AttemptTells
  DEF Promise!Serve, State, Real, Again, Claimed

\* The broker, the clock and the faults: what they do to what the promise sees.
LEMMA BrokerPromises ==
  ASSUME PromiseInv,
         \/ \E t \in Tasks : Publish(t) \/ Deliver(t) \/ Expire(t) \/ Forget(t)
         \/ Disconnect \/ Crash \/ Tick
  PROVE  [Promise!Next]_(Promise!vars)
<1> USE DEF PromiseInv, IInv
<1>0. /\ place \in [Tasks -> Places] /\ deliveries \in [Tasks -> Nat]
      /\ markedAt \in [Tasks -> 0 .. MaxTime \cup {Never}]
  BY BoundsAssumption DEF TypeOK, Places
<1>1. ASSUME NEW t \in Tasks, Publish(t) PROVE Promise!Next
  <2>1. /\ State[t] = "unsent" /\ State' = [State EXCEPT ![t] = "open"]
        /\ UNCHANGED <<Real, Again, Claimed, executions, announced>>
    BY <1>0, <1>1 DEF Publish, agentVars, State, Real, Again, Claimed
  <2>2. Promise!Send(t)
    BY <2>1 DEF Promise!Send, State, Real, Again, Claimed
  <2> QED
    BY <2>2 DEF Promise!Next
<1>2. ASSUME NEW t \in Tasks, Deliver(t) PROVE [Promise!Next]_(Promise!vars)
  <2>1. /\ State[t] = "open" /\ UNCHANGED State
        /\ UNCHANGED <<Real, Claimed, executions, announced>>
    BY <1>0, <1>2 DEF Deliver, State, Real, Claimed
  <2>2. \A u \in Tasks : deliveries'[u] = IF u = t THEN deliveries[u] + 1 ELSE deliveries[u]
    BY <1>0, <1>2 DEF Deliver
  <2>3. Again' = Again \cup {t} \/ UNCHANGED Again
    <3>1. CASE deliveries[t] + 1 > 1
      BY <1>0, <2>2, <3>1 DEF Again
    <3>2. CASE ~ (deliveries[t] + 1 > 1)
      <4>1. \A u \in Tasks : deliveries'[u] > 1 <=> deliveries[u] > 1
        BY <1>0, <2>2, <3>2
      <4> QED
        BY <4>1 DEF Again
    <3> QED
      BY <3>1, <3>2
  <2>4. Promise!DeliverAgain(t) \/ UNCHANGED Promise!vars
    BY <2>1, <2>3 DEF Promise!DeliverAgain, Promise!vars, State, Real, Again, Claimed
  <2> QED
    BY <2>4 DEF Promise!Next
<1>3. ASSUME NEW t \in Tasks, Expire(t) PROVE Promise!Next
  <2>1. /\ State[t] = "open" /\ State' = [State EXCEPT ![t] = "dead"]
        /\ UNCHANGED <<Real, Again, Claimed, executions, announced>>
    BY <1>0, <1>3 DEF Expire, agentVars, State, Real, Again, Claimed
  <2>2. Promise!Serve(t)
    BY <2>1 DEF Promise!Serve, Promise!Settle, State, Real, Again, Claimed
  <2> QED
    BY <2>2 DEF Promise!Next
<1>4. ASSUME NEW t \in Tasks, Forget(t) PROVE Promise!Next
  <2>1. /\ RedisForgets /\ Claimed' = Claimed \ {t}
        /\ UNCHANGED <<State, Real, Again, executions, announced>>
    BY <1>0, <1>4 DEF Forget, brokerVars, State, Real, Again, Claimed
  <2>2. Promise!LoseKey(t)
    BY <2>1 DEF Promise!LoseKey, State, Real, Again, Claimed
  <2> QED
    BY <2>2 DEF Promise!Next
<1>5. CASE Disconnect \/ Crash
  <2>1. UNCHANGED <<State, body, deliveries, markedAt, executions, announced>>
    BY <1>0, <1>5 DEF Disconnect, Crash, Requeue, agentVars, State
  <2> QED
    BY <2>1 DEF Promise!vars, State
<1>6. CASE Tick
  BY <1>6 DEF Tick, agentVars, Promise!vars
<1> QED
  BY <1>1, <1>2, <1>3, <1>4, <1>5, <1>6

\* Every step is a step of the promise, or changes nothing of what it speaks of.
LEMMA StepPromises == PromiseInv /\ PromiseInv' /\ [Next]_vars => [Promise!Next]_(Promise!vars)
<1> SUFFICES ASSUME PromiseInv, PromiseInv', [Next]_vars PROVE [Promise!Next]_(Promise!vars)
  OBVIOUS
<1>1. CASE UNCHANGED vars
  BY <1>1 DEF vars, Promise!vars
<1>2. ASSUME NEW t \in Tasks, NEW a \in Attempts, OnMessage(t, a) \/ ProcessTask(t, a)
      PROVE  Promise!Next
  BY <1>2, AttemptPromises DEF Promise!Next
<1> QED
  BY <1>1, <1>2, BrokerPromises DEF Next, Quiet

\* Whatever connections and keys are lost and however often the agent dies: a task
\* runs once for each loss of its key and once more, nothing is told of a task that
\* did not run, and no message is settled twice (consumer.py:102-163,
\* idempotency.py:53-66, base_agent.py:227-326).
THEOREM Refinement == Spec => KeepsItsPromise
  BY InitPromises, StepPromises, AlwaysPromiseInv, PTL DEF Spec, KeepsItsPromise, Promise!Spec

-----------------------------------------------------------------------------
(* What the promise is worth: it implies by itself what the runs ask of delivery.   *)

WorthInv ==
  /\ executions \in [Tasks -> Nat]
  /\ announced \in [Tasks -> SUBSET {"task.completed", "task.failed"}]
  /\ \A t \in Tasks :
       /\ ~ RedisForgets => executions[t] <= 1 /\ (executions[t] > 0 => t \in Claimed)
       /\ State[t] = "acked" /\ t \in Real => t \in Again \/ announced[t] # {}

\* Keys that are not lost are taken once, so that tasks run once.
LEMMA ClaimIsWorth ==
  ASSUME WorthInv, NEW t \in Tasks, Promise!Claim(t) \/ UNCHANGED <<Claimed, executions>>
  PROVE  /\ executions' \in [Tasks -> Nat]
         /\ ~ RedisForgets =>
              \A u \in Tasks : executions'[u] <= 1 /\ (executions'[u] > 0 => u \in Claimed')
<1>1. CASE UNCHANGED <<Claimed, executions>>
  BY <1>1 DEF WorthInv
<1>2. CASE Promise!Claim(t)
  <2>1. /\ t \notin Claimed /\ Claimed' = Claimed \cup {t}
        /\ UNCHANGED executions \/ executions' = [executions EXCEPT ![t] = @ + 1]
    BY <1>2 DEF Promise!Claim, Claimed
  <2>2. ~ RedisForgets => executions[t] = 0
    BY <2>1 DEF WorthInv
  <2> QED
    BY <2>1, <2>2 DEF WorthInv
<1> QED
  BY <1>1, <1>2

\* Who acks a task that came once has told of it, and what was told stays told.
LEMMA SettleIsWorth ==
  ASSUME WorthInv, NEW t \in Tasks, UNCHANGED <<Real, Again>>,
         Promise!Tell(t) \/ UNCHANGED announced,
         Promise!Settle(t) \/ UNCHANGED State
  PROVE  /\ announced' \in [Tasks -> SUBSET {"task.completed", "task.failed"}]
         /\ \A u \in Tasks :
              State'[u] = "acked" /\ u \in Real' => u \in Again' \/ announced'[u] # {}
<1>1. /\ announced' \in [Tasks -> SUBSET {"task.completed", "task.failed"}]
      /\ \A u \in Tasks : announced[u] \subseteq announced'[u]
  BY DEF WorthInv, Promise!Tell, Promise!Events
<1>2. \A u \in Tasks :
        \/ State'[u] = State[u] \/ State'[u] = "dead"
        \/ u = t /\ (t \in Real => t \in Again \/ announced'[t] # {})
  <2>1. DOMAIN State = Tasks
    BY DEF State
  <2> QED
    BY <2>1 DEF Promise!Settle, State, Real, Again
<1> QED
  BY <1>1, <1>2 DEF WorthInv

\* The promise alone, whatever implements it, implies that an ack of what came once is
\* an answer, and, if keys are not lost, that no task runs twice.
THEOREM PromiseIsWorth ==
  Promise!Spec => []AckedIsAnswered /\ [](~ RedisForgets => ExecutedAtMostOnce)
<1>1. Promise!Init => WorthInv
  <2> SUFFICES ASSUME Promise!Init PROVE WorthInv
    OBVIOUS
  <2>1. executions = [t \in Tasks |-> 0] /\ announced = [t \in Tasks |-> {}]
        /\ \A t \in Tasks : State[t] = "unsent"
    BY DEF Promise!Init, State
  <2> QED
    BY <2>1 DEF WorthInv
<1>2. WorthInv /\ [Promise!Next]_(Promise!vars) => WorthInv'
  <2> SUFFICES ASSUME WorthInv, [Promise!Next]_(Promise!vars) PROVE WorthInv'
    OBVIOUS
  <2>0. DOMAIN State = Tasks
    BY DEF State
  <2>1. ASSUME NEW t \in Tasks, Promise!Send(t) PROVE WorthInv'
    <3>1. /\ State' = [State EXCEPT ![t] = "open"]
          /\ UNCHANGED <<Real, Again, Claimed, executions, announced>>
      BY <2>1 DEF Promise!Send, State, Real, Again, Claimed
    <3> QED
      BY <2>0, <3>1 DEF WorthInv
  <2>2. ASSUME NEW t \in Tasks, Promise!DeliverAgain(t) PROVE WorthInv'
    <3>1. /\ Again' = Again \cup {t}
          /\ UNCHANGED <<State, Real, Claimed, executions, announced>>
      BY <2>2 DEF Promise!DeliverAgain, State, Real, Again, Claimed
    <3> QED
      BY <3>1 DEF WorthInv
  <2>3. ASSUME NEW t \in Tasks, Promise!LoseKey(t) PROVE WorthInv'
    <3>1. RedisForgets /\ UNCHANGED <<State, Real, Again, executions, announced>>
      BY <2>3 DEF Promise!LoseKey, State, Real, Again
    <3> QED
      BY <3>1 DEF WorthInv
  <2>4. ASSUME NEW t \in Tasks, Promise!Serve(t) PROVE WorthInv'
    <3>1. /\ Promise!Claim(t) \/ UNCHANGED <<Claimed, executions>>
          /\ Promise!Tell(t) \/ UNCHANGED announced
          /\ Promise!Settle(t) \/ UNCHANGED State
          /\ UNCHANGED <<Real, Again>>
      BY <2>4 DEF Promise!Serve, State, Real, Again, Claimed
    <3> QED
      BY <3>1, ClaimIsWorth, SettleIsWorth DEF WorthInv
  <2>5. CASE UNCHANGED Promise!vars
    <3>1. UNCHANGED <<State, Real, Again, Claimed, executions, announced>>
      BY <2>5 DEF Promise!vars, State, Real, Again, Claimed
    <3> QED
      BY <3>1 DEF WorthInv
  <2> QED
    BY <2>1, <2>2, <2>3, <2>4, <2>5 DEF Promise!Next
<1>3. WorthInv => AckedIsAnswered /\ (~ RedisForgets => ExecutedAtMostOnce)
  BY DEF WorthInv, AckedIsAnswered, ExecutedAtMostOnce, State, Real, Again
<1> QED
  BY <1>1, <1>2, <1>3, PTL DEF Promise!Spec
=============================================================================
