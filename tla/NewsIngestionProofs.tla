-------------------------- MODULE NewsIngestionProofs --------------------------
(***************************************************************************)
(* Proofs about NewsIngestion, for any feeds, articles, tasks and faults.  *)
(***************************************************************************)
EXTENDS NewsIngestion, TLAPS

USE DEF Calls, jobVars, memory, vars, Quiet

LEMMA JobsOfCalls == \A j \in Jobs : j[1] \in Calls /\ j[2] \in Feeds
  BY DEF Jobs

\* Types are kept, and a call that is not gathering has no job under way.
THEOREM TypeCorrect == Spec => []TypeOK
<1> USE DEF TypeOK
<1>1. Init => TypeOK
  <2> SUFFICES ASSUME Init PROVE TypeOK
    OBVIOUS
  <2>1. running \in BOOLEAN
    BY Zenon DEF Init
  <2>2. faults \in 0 .. MaxFaults /\ restarts \in 0 .. MaxRestarts
    BY BoundsAssumption DEF Init
  <2>3. /\ shown \in [Feeds -> SUBSET Articles]
        /\ phase \in [Calls -> {"idle", "gathering", "ended"}]
        /\ job \in [Jobs -> {"off", "fetching", "reading", "publishing"}]
        /\ todo \in [Jobs -> SUBSET Articles]
        /\ sending \in [Jobs -> SUBSET Articles]
        /\ got \in [Jobs -> SUBSET Articles]
    BY DEF Init
  <2>4. seen \subseteq Articles /\ spoilt \subseteq Articles /\ times \in [Articles -> Nat]
    BY DEF Init
  <2>5. \A j \in Jobs : phase[j[1]] # "gathering" => job[j] = "off"
    BY DEF Init
  <2> QED  BY <2>1, <2>2, <2>3, <2>4, <2>5
<1>2. TypeOK /\ [Next]_vars => TypeOK'
  <2> SUFFICES ASSUME TypeOK, [Next]_vars PROVE TypeOK'
    OBVIOUS
  <2>1. ASSUME NEW f \in Feeds, Changes(f) PROVE TypeOK'
    BY <2>1 DEF Changes
  <2>2. ASSUME NEW c \in Calls, Begin(c) PROVE TypeOK'
    BY <2>2, JobsOfCalls DEF Begin
  <2>3. ASSUME NEW c \in Calls, Finish(c) PROVE TypeOK'
    <3>1. \A j \in Jobs : j[1] = c => job[j] = "off"
      BY <2>3 DEF Finish, Jobs
    <3> QED  BY <2>3, <3>1, JobsOfCalls DEF Finish
  <2>4. ASSUME NEW j \in Jobs, Advance(j) PROVE TypeOK'
    <3>1. CASE Fetch(j)
      BY <3>1, JobsOfCalls DEF Fetch
    <3>2. CASE Look(j)
      BY <3>2, JobsOfCalls DEF Look, Mark
    <3>3. CASE Publish(j)
      BY <3>3, JobsOfCalls DEF Publish, Accepted
    <3>4. CASE Return(j)
      BY <3>4, JobsOfCalls DEF Return
    <3> QED  BY <2>4, <3>1, <3>2, <3>3, <3>4 DEF Advance
  <2>5. ASSUME NEW j \in Jobs, Fails(j) PROVE TypeOK'
    BY <2>5, BoundsAssumption, JobsOfCalls DEF Fails, Accepted
  <2>6. CASE Launch
    BY <2>6 DEF Launch
  <2>7. CASE Restart
    <3>1. running' \in BOOLEAN
      BY <2>7, Zenon DEF Restart
    <3>2. restarts' \in 0 .. MaxRestarts /\ times' \in [Articles -> Nat]
      BY <2>7, BoundsAssumption DEF Restart
    <3>3. /\ phase' \in [Calls -> {"idle", "gathering", "ended"}]
          /\ job' \in [Jobs -> {"off", "fetching", "reading", "publishing"}]
          /\ \A j \in Jobs : job'[j] = "off"
      BY <2>7 DEF Restart
    <3> QED  BY <2>7, <3>1, <3>2, <3>3 DEF Restart
  <2>8. CASE UNCHANGED vars
    BY <2>8
  <2> QED  BY <2>1, <2>2, <2>3, <2>4, <2>5, <2>6, <2>7, <2>8 DEF Next, Step
<1> QED  BY <1>1, <1>2, PTL DEF Spec

-----------------------------------------------------------------------------
(* One publication. What is being published has been marked and not published yet *)
(* by anyone, what was published or returned has been marked.                      *)

OnceInv ==
  /\ PublishedOnce
  /\ \A j \in Jobs :
       /\ job[j] = "publishing" <=> sending[j] # {}
       /\ \A a, b \in sending[j] : a = b
       /\ \A a \in sending[j] : a \in seen /\ times[a] = 0 /\ a \notin spoilt
  /\ \A a \in Articles : times[a] > 0 => a \in seen

ReturnInv ==
  /\ SeenIsAccountedFor
  /\ ReturnedOnce
  /\ spoilt \subseteq seen
  /\ \A j \in Jobs : got[j] \cap spoilt = {}

\* _seen_ids between test and publication (agent.py:178-180): as long as the agent
\* runs an article is published once, what is held back was published or lost, and
\* no two jobs return the same article.
THEOREM OneJobPerArticle ==
  Spec => []ArticlesAreAccountedFor
<1> USE DEF OnceInv, ReturnInv, PublishedOnce, SeenIsAccountedFor, ReturnedOnce, TypeOK
<1>1. Init => OnceInv /\ ReturnInv
  BY DEF Init
<1>2. TypeOK /\ OnceInv /\ ReturnInv /\ [Next]_vars => OnceInv' /\ ReturnInv'
  <2> SUFFICES ASSUME TypeOK, OnceInv, ReturnInv, [Next]_vars PROVE OnceInv' /\ ReturnInv'
    OBVIOUS
  <2>1. ASSUME NEW f \in Feeds, Changes(f) PROVE OnceInv' /\ ReturnInv'
    BY <2>1 DEF Changes
  <2>2. ASSUME NEW c \in Calls, Begin(c) PROVE OnceInv' /\ ReturnInv'
    BY <2>2 DEF Begin
  <2>3. ASSUME NEW c \in Calls, Finish(c) PROVE OnceInv' /\ ReturnInv'
    BY <2>3 DEF Finish
  <2>4. ASSUME NEW j \in Jobs, Advance(j) PROVE OnceInv' /\ ReturnInv'
    <3>1. CASE Fetch(j)
      BY <3>1 DEF Fetch
    <3>2. CASE Look(j)
      <4>1. OnceInv'
        <5>1. PICK a \in todo[j] :
                IF a \in seen
                THEN UNCHANGED <<job, sending, seen>>
                ELSE /\ seen' = seen \cup {a}
                     /\ sending' = [sending EXCEPT ![j] = {a}]
                     /\ job' = [job EXCEPT ![j] = "publishing"]
          BY <3>2 DEF Look, Mark
        <5>2. times' = times /\ spoilt' = spoilt
          BY <3>2 DEF Look
        <5>3. CASE a \in seen
          BY <5>1, <5>2, <5>3
        <5>4. CASE a \notin seen
          <6>1. \A i \in Jobs : sending'[i] = IF i = j THEN {a} ELSE sending[i]
            BY <5>1, <5>4
          <6>2. \A i \in Jobs : job'[i] = IF i = j THEN "publishing" ELSE job[i]
            BY <5>1, <5>4
          <6>3. a \in Articles /\ times[a] = 0 /\ a \notin spoilt
            BY <5>4
          <6>4. seen' = seen \cup {a}
            BY <5>1, <5>4
          <6>5. \A i \in Jobs : a \notin sending[i]
            BY <5>4
          <6>6. \A h, i \in Jobs : h # i => sending'[h] \cap sending'[i] = {}
            BY <6>1, <6>5
          <6>7. ASSUME NEW i \in Jobs
                PROVE  /\ job'[i] = "publishing" <=> sending'[i] # {}
                       /\ \A b, d \in sending'[i] : b = d
            <7>1. CASE i = j
              <8>1. job'[i] = "publishing" /\ sending'[i] = {a}
                BY <6>1, <6>2, <7>1
              <8>2. {a} # {} /\ \A b, d \in {a} : b = d
                OBVIOUS
              <8> QED  BY <8>1, <8>2
            <7>2. CASE i # j
              <8>1. job'[i] = job[i] /\ sending'[i] = sending[i]
                BY <6>1, <6>2, <7>2
              <8> QED  BY <8>1
            <7> QED  BY <7>1, <7>2
          <6>8. \A i \in Jobs : \A b \in sending'[i] :
                  b \in seen' /\ times'[b] = 0 /\ b \notin spoilt'
            BY <5>2, <6>1, <6>3, <6>4
          <6>9. \A b \in Articles : times'[b] <= 1 /\ (times'[b] > 0 => b \in seen')
            BY <5>2, <6>4
          <6> QED  BY <6>6, <6>7, <6>8, <6>9
        <5> QED  BY <5>3, <5>4
      <4>2. ReturnInv'
        BY <3>2 DEF Look, Mark
      <4> QED  BY <4>1, <4>2
    <3>3. CASE Publish(j)
      <4>1. OnceInv'
        BY <3>3 DEF Publish, Accepted
      <4>2. ReturnInv'
        BY <3>3 DEF Publish, Accepted
      <4> QED  BY <4>1, <4>2
    <3>4. CASE Return(j)
      BY <3>4 DEF Return
    <3> QED  BY <2>4, <3>1, <3>2, <3>3, <3>4 DEF Advance
  <2>5. ASSUME NEW j \in Jobs, Fails(j) PROVE OnceInv' /\ ReturnInv'
    <3>1. OnceInv'
      BY <2>5 DEF Fails, Accepted
    <3>2. ReturnInv'
      BY <2>5 DEF Fails, Accepted
    <3> QED  BY <3>1, <3>2
  <2>6. CASE Launch
    BY <2>6 DEF Launch
  <2>7. CASE Restart
    BY <2>7 DEF Restart
  <2>8. CASE UNCHANGED vars
    BY <2>8
  <2> QED  BY <2>1, <2>2, <2>3, <2>4, <2>5, <2>6, <2>7, <2>8 DEF Next, Step
<1>3. OnceInv /\ ReturnInv => ArticlesAreAccountedFor
  BY DEF ArticlesAreAccountedFor
<1> QED  BY <1>1, <1>2, <1>3, TypeCorrect, PTL DEF Spec
=============================================================================
