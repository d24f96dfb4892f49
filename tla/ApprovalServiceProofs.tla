------------------------- MODULE ApprovalServiceProofs -------------------------
(***************************************************************************)
(* Proofs about ApprovalService, for any requests, workers, calls and      *)
(* decisions the table accepts, and any number of crashes.                 *)
(***************************************************************************)
EXTENDS ApprovalService, FiniteSetTheorems, TLAPS

USE DEF Statuses, Stages, Moves, Answers, ExpireRows, vars, rowVars, callVars

\* Types are kept: every variable of the service stays in its range.
THEOREM TypeCorrect == Spec => []TypeOK
<1>1. Init => TypeOK
  <2> SUFFICES ASSUME Init PROVE TypeOK
    OBVIOUS
  <2>1. skewed \in BOOLEAN
    BY Zenon DEF Init
  <2>2. crashes \in 0 .. MaxCrashes /\ gauge \in [Workers -> Int]
    BY MaxCrashesAssumption DEF Init
  <2>3. /\ row \in [Approvals -> Statuses \cup {"none"}]
        /\ todo \in [Workers -> SUBSET Approvals]
        /\ stage \in [Reviewers -> Stages]
        /\ decision \in [Reviewers -> Decisions]
    BY DEF Init
  <2>4. /\ uncounted \subseteq Approvals
        /\ overdue \subseteq Approvals /\ wrote \subseteq Reviewers
        /\ amiss \subseteq Reviewers /\ published \subseteq Reviewers
    BY DEF Init
  <2> QED  BY <2>1, <2>2, <2>3, <2>4 DEF TypeOK
<1>2. TypeOK /\ [Next]_vars => TypeOK'
  <2> SUFFICES ASSUME TypeOK, [Next]_vars PROVE TypeOK'
    OBVIOUS
  <2> USE DEF TypeOK
  <2>1. ASSUME NEW a \in Approvals, Create(a) PROVE TypeOK'
    BY <2>1 DEF Create
  <2>2. ASSUME NEW a \in Approvals, Count(a) PROVE TypeOK'
    BY <2>2, MakerAssumption DEF Count
  <2>3. ASSUME NEW a \in Approvals, FallsDue(a) PROVE TypeOK'
    BY <2>3 DEF FallsDue
  <2>4. ASSUME NEW r \in Reviewers, Decide(r) PROVE TypeOK'
    <3>1. CASE Check(r)
      BY <3>1 DEF Check
    <3>2. CASE Write(r)
      <4>1. decision[r] \in Statuses /\ call[r].app \in Approvals
        BY DecisionsAssumption, CallAssumption
      <4> QED  BY <3>2, <4>1 DEF Write
    <3>3. CASE WriteFails(r)
      BY <3>3 DEF WriteFails
    <3>4. CASE Lower(r)
      <4>1. call[r].worker \in Workers
        BY CallAssumption
      <4> QED  BY <3>4, <4>1 DEF Lower
    <3>5. CASE Publish(r)
      BY <3>5 DEF Publish
    <3>6. CASE PublishFails(r)
      BY <3>6 DEF PublishFails
    <3>7. CASE WriteRaises(r)
      <4>1. decision[r] \in Statuses /\ call[r].app \in Approvals
        BY DecisionsAssumption, CallAssumption
      <4> QED  BY <3>7, <4>1 DEF WriteRaises
    <3> QED  BY <2>4, <3>1, <3>2, <3>3, <3>4, <3>5, <3>6, <3>7 DEF Decide
  <2>5. ASSUME NEW w \in Workers, Watch(w) PROVE TypeOK'
    <3>1. CASE Expire(w)
      BY <3>1 DEF Expire, ToExpire
    <3>2. CASE LowerExpired(w)
      <4>1. PICK a \in todo[w] :
              /\ gauge' = [gauge EXCEPT ![w] = @ - 1]
              /\ \/ todo' = [todo EXCEPT ![w] = @ \ {a}]
                 \/ todo' = [todo EXCEPT ![w] = {}]
              /\ UNCHANGED <<rowVars, uncounted, callVars, crashes>>
        BY <3>2 DEF LowerExpired
      <4>2. skewed' \in BOOLEAN
        BY <3>2, Zenon DEF LowerExpired
      <4> QED  BY <4>1, <4>2
    <3>3. CASE ExpireRaises(w)
      BY <3>3 DEF ExpireRaises, ToExpire
    <3> QED  BY <2>5, <3>1, <3>2, <3>3 DEF Watch
  <2>6. ASSUME NEW w \in Workers, Crash(w) PROVE TypeOK'
    BY <2>6, MaxCrashesAssumption DEF Crash
  <2>7. CASE UNCHANGED vars
    BY <2>7
  <2> QED  BY <2>1, <2>2, <2>3, <2>4, <2>5, <2>6, <2>7 DEF Next
<1> QED  BY <1>1, <1>2, PTL DEF Spec

-----------------------------------------------------------------------------
(* One answer. What is published was written, a call that has not written yet is  *)
(* not among those that have, and a write that went well left pending.            *)

Alone(r) == \A s \in amiss : call[s].app # call[r].app

WroteInv ==
  /\ published \subseteq wrote
  /\ \A r \in Reviewers :
       /\ stage[r] \in {"idle", "checked"} => r \notin wrote
       /\ stage[r] \in {"written", "lowered"} => r \in wrote
  /\ \A r \in wrote : decision[r] = "pending" => r \in amiss

SoleInv ==
  \A r \in wrote : Alone(r) =>
     /\ row[call[r].app] = decision[r]
     /\ \A s \in wrote : call[s].app = call[r].app => s = r

\* A step that writes nothing and changes no row of a call keeps both.
LEMMA Untouched ==
  ASSUME TypeOK, WroteInv, SoleInv,
         wrote' = wrote, amiss' = amiss, decision' = decision, published' \subseteq wrote,
         \A r \in Reviewers :
            stage'[r] = stage[r] \/ stage'[r] = "over"
              \/ (stage[r] = "idle" /\ stage'[r] = "checked")
              \/ (stage[r] = "written" /\ stage'[r] = "lowered"),
         \A r \in wrote : Alone(r) => row'[call[r].app] = row[call[r].app]
  PROVE  WroteInv' /\ SoleInv'
<1>1. WroteInv'
  BY DEF WroteInv, TypeOK
<1>2. SoleInv'
  BY DEF SoleInv, Alone
<1> QED  BY <1>1, <1>2

\* An answered row, alone in having been written, is neither absent nor pending.
LEMMA AnswerClosed ==
  ASSUME TypeOK, WroteInv, SoleInv, NEW r \in wrote, Alone(r)
  PROVE  row[call[r].app] \notin {"none", "pending"}
<1>1. r \in Reviewers /\ r \notin amiss
  BY DEF TypeOK, Alone
<1>2. decision[r] \in Statuses \ {"pending"}
  BY <1>1, DecisionsAssumption DEF TypeOK, WroteInv
<1>3. row[call[r].app] = decision[r]
  BY DEF SoleInv
<1> QED  BY <1>2, <1>3

\* The first write that goes well is the only one, and what the row then says.
LEMMA WriteKeeps ==
  ASSUME TypeOK, WroteInv, SoleInv, NEW r \in Reviewers, Write(r) \/ WriteRaises(r)
  PROVE  WroteInv' /\ SoleInv'
<1> USE DEF Write, WriteRaises
<1>1. WroteInv'
  BY DEF WroteInv, TypeOK
<1>2. SoleInv'
  <2> SUFFICES ASSUME NEW q \in wrote', Alone(q)',
                      NEW s \in wrote', call[s].app = call[q].app
               PROVE  row'[call[q].app] = decision'[q] /\ s = q
    BY DEF SoleInv
  <2>1. Alone(q)
    BY DEF Alone
  <2>2. CASE call[q].app # call[r].app
    <3>1. q \in wrote /\ s \in wrote
      BY <2>2
    <3>2. call[q].app \in Approvals /\ call[r].app \in Approvals
      BY <3>1, CallAssumption DEF TypeOK
    <3>3. row'[call[q].app] = row[call[q].app]
      BY <2>2, <3>2 DEF TypeOK
    <3> QED  BY <2>1, <3>1, <3>3 DEF SoleInv
  <2>3. CASE call[q].app = call[r].app
    <3>1. r \notin amiss'
      BY <2>3 DEF Alone
    <3>2. row[call[r].app] = "pending"
      BY <3>1
    <3>3. q \notin wrote /\ s \notin wrote
      <4>1. ASSUME NEW t \in wrote, call[t].app = call[r].app PROVE FALSE
        <5>1. Alone(t)
          BY <2>1, <2>3, <4>1 DEF Alone
        <5> QED  BY <3>2, <4>1, <5>1, AnswerClosed
      <4> QED  BY <2>3, <4>1
    <3>4. q = r /\ s = r
      BY <3>3
    <3> QED  BY <3>4, CallAssumption DEF TypeOK
  <2> QED  BY <2>2, <2>3
<1> QED  BY <1>1, <1>2

\* decide_approval (main.py:204): unless a write came too late or left the row open,
\* a request has one decision, the row keeps it, and its event is published.
THEOREM OneAnswer == Spec => []SoleAnswer
<1>1. Init => WroteInv /\ SoleInv
  BY DEF Init, WroteInv, SoleInv
<1>2. TypeOK /\ WroteInv /\ SoleInv /\ [Next]_vars => WroteInv' /\ SoleInv'
  <2> SUFFICES ASSUME TypeOK, WroteInv, SoleInv, [Next]_vars PROVE WroteInv' /\ SoleInv'
    OBVIOUS
  <2>0. published \subseteq wrote
    BY DEF WroteInv
  <2>1. ASSUME NEW a \in Approvals, Create(a) PROVE WroteInv' /\ SoleInv'
    <3>1. \A r \in wrote : Alone(r) => row'[call[r].app] = row[call[r].app]
      BY <2>1, AnswerClosed DEF Create, TypeOK
    <3> QED  BY <2>0, <2>1, <3>1, Untouched DEF Create
  <2>2. ASSUME NEW a \in Approvals, Count(a) PROVE WroteInv' /\ SoleInv'
    BY <2>0, <2>2, Untouched DEF Count
  <2>3. ASSUME NEW a \in Approvals, FallsDue(a) PROVE WroteInv' /\ SoleInv'
    BY <2>0, <2>3, Untouched DEF FallsDue
  <2>4. ASSUME NEW r \in Reviewers, Decide(r) PROVE WroteInv' /\ SoleInv'
    <3>1. CASE Check(r)
      BY <2>0, <3>1, Untouched DEF Check, TypeOK
    <3>2. CASE Write(r) \/ WriteRaises(r)
      BY <3>2, WriteKeeps
    <3>3. CASE WriteFails(r)
      BY <2>0, <3>3, Untouched DEF WriteFails, TypeOK
    <3>4. CASE Lower(r)
      BY <2>0, <3>4, Untouched DEF Lower, TypeOK
    <3>5. CASE Publish(r) \/ PublishFails(r)
      <4>1. stage[r] = "lowered"
        BY <3>5 DEF Publish, PublishFails
      <4>2. r \in wrote
        BY <4>1 DEF WroteInv
      <4>3. published' \subseteq wrote
        BY <2>0, <3>5, <4>2 DEF Publish, PublishFails
      <4> QED  BY <3>5, <4>3, Untouched DEF Publish, PublishFails, TypeOK
    <3> QED  BY <2>4, <3>1, <3>2, <3>3, <3>4, <3>5 DEF Decide
  <2>5. ASSUME NEW w \in Workers, Watch(w) PROVE WroteInv' /\ SoleInv'
    <3>1. CASE Expire(w) \/ ExpireRaises(w)
      <4>1. \A r \in wrote : Alone(r) => row'[call[r].app] = row[call[r].app]
        <5> SUFFICES ASSUME NEW r \in wrote, Alone(r)
                     PROVE  row'[call[r].app] = row[call[r].app]
          OBVIOUS
        <5>1. call[r].app \in Approvals
          BY CallAssumption DEF TypeOK
        <5>2. call[r].app \notin ToExpire
          BY AnswerClosed DEF ToExpire
        <5> QED  BY <3>1, <5>1, <5>2 DEF Expire, ExpireRaises
      <4> QED  BY <2>0, <3>1, <4>1, Untouched DEF Expire, ExpireRaises
    <3>2. CASE LowerExpired(w)
      BY <2>0, <3>2, Untouched DEF LowerExpired
    <3> QED  BY <2>5, <3>1, <3>2 DEF Watch
  <2>6. ASSUME NEW w \in Workers, Crash(w) PROVE WroteInv' /\ SoleInv'
    BY <2>0, <2>6, Untouched DEF Crash
  <2>7. CASE UNCHANGED vars
    BY <2>0, <2>7, Untouched
  <2> QED  BY <2>1, <2>2, <2>3, <2>4, <2>5, <2>6, <2>7 DEF Next
<1>3. TypeOK /\ WroteInv /\ SoleInv => SoleAnswer
  <2> SUFFICES ASSUME TypeOK, WroteInv, SoleInv PROVE SoleAnswer
    OBVIOUS
  <2>1. wrote \cup published = wrote
    BY DEF WroteInv
  <2> QED  BY <2>1 DEF SoleAnswer, SoleInv, Alone
<1> QED  BY <1>1, <1>2, <1>3, TypeCorrect, PTL DEF Spec

-----------------------------------------------------------------------------
(* Finality. *)

\* The 409 of decide_approval and the WHERE of the monitor (main.py:215, 306): an
\* answer that no call is about to overwrite is never changed again.
THEOREM AnsweredForGood == Spec => AnswerIsFinal
<1>1. TypeOK /\ [Next]_vars
        => \A a \in Approvals : Answered(a) => Answered(a)' /\ row'[a] = row[a]
  <2> SUFFICES ASSUME TypeOK, [Next]_vars, NEW a \in Approvals, Answered(a)
               PROVE  Answered(a)' /\ row'[a] = row[a]
    OBVIOUS
  <2> DEFINE Kept ==
        /\ row'[a] = row[a]
        /\ \A r \in Reviewers : call[r].app = a => stage'[r] # "checked"
  <2> SUFFICES Kept
    BY DEF Answered
  <2>1. ASSUME NEW b \in Approvals, Create(b) PROVE Kept
    BY <2>1 DEF Create, Answered, TypeOK
  <2>2. ASSUME NEW b \in Approvals, Count(b) PROVE Kept
    BY <2>2 DEF Count, Answered
  <2>3. ASSUME NEW b \in Approvals, FallsDue(b) PROVE Kept
    BY <2>3 DEF FallsDue, Answered
  <2>4. ASSUME NEW r \in Reviewers, Decide(r) PROVE Kept
    <3>1. CASE Check(r)
      BY <3>1 DEF Check, Answered, TypeOK
    <3>2. CASE Write(r) \/ WriteRaises(r)
      <4>1. call[r].app \in Approvals /\ call[r].app # a
        BY <3>2, CallAssumption DEF Write, WriteRaises, Answered
      <4> QED  BY <3>2, <4>1 DEF Write, WriteRaises, Answered, TypeOK
    <3>3. CASE WriteFails(r) \/ Lower(r) \/ Publish(r) \/ PublishFails(r)
      BY <3>3 DEF WriteFails, Lower, Publish, PublishFails, Answered, TypeOK
    <3> QED  BY <2>4, <3>1, <3>2, <3>3 DEF Decide
  <2>5. ASSUME NEW w \in Workers, Watch(w) PROVE Kept
    <3>1. CASE Expire(w) \/ ExpireRaises(w)
      BY <3>1 DEF Expire, ExpireRaises, ToExpire, Answered
    <3>2. CASE LowerExpired(w)
      BY <3>2 DEF LowerExpired, Answered
    <3> QED  BY <2>5, <3>1, <3>2 DEF Watch
  <2>6. ASSUME NEW w \in Workers, Crash(w) PROVE Kept
    BY <2>6 DEF Crash, Answered
  <2>7. CASE UNCHANGED vars
    BY <2>7 DEF Answered
  <2> QED  BY <2>1, <2>2, <2>3, <2>4, <2>5, <2>6, <2>7 DEF Next
<1> QED  BY <1>1, TypeCorrect, PTL DEF Spec, AnswerIsFinal

-----------------------------------------------------------------------------
(* Sums. The fold of the gauges is a recursive function over subsets; that it     *)
(* exists and obeys its equation is proved from least counterexamples, since      *)
(* the subsets of a finite set are well-founded.                                  *)

Picked(s) == CHOOSE x \in s : TRUE
Total(v, S) == FoldFunctionOnSet(LAMBDA x, y : x + y, 0, v, S)

AddsUp(g, v, S) ==
  g = [s \in SUBSET S |-> IF s = {} THEN 0 ELSE v[Picked(s)] + g[s \ {Picked(s)}]]

Totals(v, S) == CHOOSE g : AddsUp(g, v, S)

\* The sum is what some function over subsets that adds up assigns to the whole set.
LEMMA FoldIsTotal == \A v, S : Total(v, S) = Totals(v, S)[S]
  BY DEF Total, Totals, AddsUp, Picked, FoldFunctionOnSet, MapThenFoldSet

\* Among the subsets of a finite set, a set of them that is not empty has a least one.
LEMMA LeastSubset ==
  ASSUME NEW S, IsFiniteSet(S), NEW B \in SUBSET SUBSET S, B # {}
  PROVE  \E T \in B : \A U \in SUBSET T : U # T => U \notin B
<1>1. IsWellFoundedOn(StrictSubsetOrdering(S), SUBSET S)
  BY FS_StrictSubsetOrderingWellFounded, FS_FiniteSubsetsOfFinite
<1>2. PICK T \in B : \A U \in B : ~ (<<U, T>> \in StrictSubsetOrdering(S))
  BY <1>1, WFMin
<1>3. ASSUME NEW U \in SUBSET T, U # T, U \in B PROVE FALSE
  BY <1>2, <1>3 DEF StrictSubsetOrdering
<1> QED  BY <1>2, <1>3

\* What CHOOSE picks is there.
LEMMA PickedIn == \A s : s # {} => Picked(s) \in s
  BY DEF Picked

\* No two functions add up the same values: they agree on the least subset first.
LEMMA TotalsUnique ==
  ASSUME NEW v, NEW S, IsFiniteSet(S), NEW g, AddsUp(g, v, S), NEW h, AddsUp(h, v, S)
  PROVE  g = h
<1> DEFINE B == {T \in SUBSET S : g[T] # h[T]}
<1>1. B = {}
  <2> SUFFICES ASSUME B # {} PROVE FALSE
    OBVIOUS
  <2> HIDE DEF B
  <2>1. PICK T \in B : \A U \in SUBSET T : U # T => U \notin B
    <3>1. B \in SUBSET SUBSET S
      BY DEF B
    <3> QED  BY <3>1, LeastSubset
  <2>2. T \in SUBSET S /\ g[T] # h[T]
    BY DEF B
  <2>3. T # {}
    BY <2>2 DEF AddsUp
  <2> DEFINE U == T \ {Picked(T)}
  <2>4. U \in SUBSET T /\ U # T
    BY <2>3, PickedIn
  <2>5. g[U] = h[U]
    BY <2>1, <2>2, <2>4 DEF B
  <2>6. g[T] = v[Picked(T)] + g[U] /\ h[T] = v[Picked(T)] + h[U]
    BY <2>2, <2>3 DEF AddsUp
  <2> QED  BY <2>2, <2>5, <2>6
<1>2. \A T \in SUBSET S : g[T] = h[T]
  BY <1>1
<1>3. g = [s \in SUBSET S |-> g[s]] /\ h = [s \in SUBSET S |-> h[s]]
  BY DEF AddsUp
<1> QED  BY <1>2, <1>3

\* A function that adds up does so for the subsets of a subset.
LEMMA TotalsRestrict ==
  ASSUME NEW v, NEW S, NEW g, AddsUp(g, v, S), NEW T \in SUBSET S
  PROVE  AddsUp([s \in SUBSET T |-> g[s]], v, T)
<1> DEFINE h == [s \in SUBSET T |-> g[s]]
<1>1. ASSUME NEW s \in SUBSET T
      PROVE  h[s] = IF s = {} THEN 0 ELSE v[Picked(s)] + h[s \ {Picked(s)}]
  BY DEF AddsUp
<1> QED  BY <1>1 DEF AddsUp

\* There is a function that adds up: on the least set without one, what smaller sets
\* have makes one.
LEMMA TotalsExist ==
  ASSUME NEW v, NEW S, IsFiniteSet(S)
  PROVE  \E g : AddsUp(g, v, S)
<1> DEFINE B == {T \in SUBSET S : ~ \E g : AddsUp(g, v, T)}
<1> SUFFICES ASSUME B # {} PROVE FALSE
  OBVIOUS
<1>1. PICK T \in B : \A U \in SUBSET T : U # T => U \notin B
  <2> HIDE DEF B
  <2>1. B \in SUBSET SUBSET S
    BY DEF B
  <2> QED  BY <2>1, LeastSubset
<1>2. \A U \in SUBSET T : U # T => AddsUp(Totals(v, U), v, U)
  BY <1>1 DEF Totals
<1> DEFINE Less(s) == s \ {Picked(s)}
           g == [s \in SUBSET T |-> IF s = {} THEN 0
                                    ELSE v[Picked(s)] + Totals(v, Less(s))[Less(s)]]
<1>3. ASSUME NEW s \in SUBSET T, s # {} PROVE g[Less(s)] = Totals(v, Less(s))[Less(s)]
  <2>1. Less(s) \in SUBSET T /\ Less(s) # T
    BY <1>3, PickedIn
  <2> DEFINE u == Less(s)
  <2> HIDE DEF Less
  <2>2. AddsUp(Totals(v, u), v, u)
    BY <1>2, <2>1
  <2>3. CASE u = {}
    BY <2>1, <2>2, <2>3 DEF AddsUp
  <2>4. CASE u # {}
    <3>1. Less(u) \in SUBSET u /\ Less(u) # T /\ Less(u) \in SUBSET T
      BY <2>1, <2>4, PickedIn DEF Less
    <3>2. AddsUp(Totals(v, Less(u)), v, Less(u))
      BY <1>2, <3>1
    <3> DEFINE r == [t \in SUBSET Less(u) |-> Totals(v, u)[t]]
    <3>3. AddsUp(r, v, Less(u))
      BY <2>2, <3>1, TotalsRestrict
    <3>4. IsFiniteSet(Less(u))
      BY <3>1, FS_Subset
    <3>5. r = Totals(v, Less(u))
      <4> HIDE DEF r, u
      <4> QED  BY <3>2, <3>3, <3>4, TotalsUnique
    <3>6. Totals(v, u)[Less(u)] = Totals(v, Less(u))[Less(u)]
      BY <3>5
    <3>7. Totals(v, u)[u] = v[Picked(u)] + Totals(v, u)[Less(u)]
      BY <2>2, <2>4 DEF AddsUp, Less
    <3>8. g[u] = v[Picked(u)] + Totals(v, Less(u))[Less(u)]
      BY <2>1, <2>4
    <3> QED  BY <3>6, <3>7, <3>8
  <2> QED  BY <2>3, <2>4
<1>4. AddsUp(g, v, T)
  <2>1. \A s \in SUBSET T : g[s] = IF s = {} THEN 0 ELSE v[Picked(s)] + g[Less(s)]
    BY <1>3
  <2> QED  BY <2>1 DEF AddsUp
<1> QED  BY <1>4

\* A sum is one of its values, and the sum of the others.
LEMMA TotalEquation ==
  ASSUME NEW v, NEW S, IsFiniteSet(S)
  PROVE  /\ Total(v, {}) = 0
         /\ S # {} => Total(v, S) = v[Picked(S)] + Total(v, S \ {Picked(S)})
<1>1. \A T : IsFiniteSet(T) => AddsUp(Totals(v, T), v, T)
  BY TotalsExist DEF Totals
<1>2. Total(v, {}) = 0
  <2>1. IsFiniteSet({})
    BY FS_EmptySet
  <2> QED  BY <1>1, <2>1, FoldIsTotal DEF AddsUp
<1>3. ASSUME S # {} PROVE Total(v, S) = v[Picked(S)] + Total(v, S \ {Picked(S)})
  <2> DEFINE T == S \ {Picked(S)}
             r == [t \in SUBSET T |-> Totals(v, S)[t]]
  <2>1. IsFiniteSet(T) /\ T \in SUBSET S
    BY FS_Subset
  <2>2. AddsUp(r, v, T) /\ AddsUp(Totals(v, T), v, T)
    BY <1>1, <2>1, TotalsRestrict
  <2>3. r = Totals(v, T)
    <3> HIDE DEF r, T
    <3> QED  BY <2>1, <2>2, TotalsUnique
  <2>4. Totals(v, S)[T] = Total(v, T)
    BY <2>3, FoldIsTotal
  <2>5. Totals(v, S)[S] = v[Picked(S)] + Totals(v, S)[T]
    BY <1>1, <1>3 DEF AddsUp
  <2> QED  BY <2>4, <2>5, FoldIsTotal
<1> QED  BY <1>2, <1>3

\* There is nothing to add up.
LEMMA TotalEmpty == \A v : Total(v, {}) = 0
  BY FS_EmptySet, TotalEquation

\* A sum of integers is an integer.
LEMMA TotalType ==
  ASSUME NEW W, IsFiniteSet(W), NEW v \in [W -> Int], NEW S \in SUBSET W
  PROVE  Total(v, S) \in Int
<1> DEFINE B == {T \in SUBSET W : Total(v, T) \notin Int}
<1> SUFFICES ASSUME B # {} PROVE FALSE
  OBVIOUS
<1>1. PICK T \in B : \A U \in SUBSET T : U # T => U \notin B
  <2>1. B \in SUBSET SUBSET W
    OBVIOUS
  <2> HIDE DEF B
  <2> QED  BY <2>1, LeastSubset
<1>2. IsFiniteSet(T)
  BY FS_Subset
<1>3. T # {}
  BY TotalEmpty
<1> DEFINE U == T \ {Picked(T)}
<1>4. Picked(T) \in W /\ U \in SUBSET W /\ U # T
  BY <1>3, PickedIn
<1>5. Total(v, U) \in Int
  BY <1>1, <1>4
<1>6. Total(v, T) = v[Picked(T)] + Total(v, U)
  BY <1>2, <1>3, TotalEquation
<1> QED  BY <1>4, <1>5, <1>6

\* The sum moves with one of its values.
LEMMA TotalMoves ==
  ASSUME NEW W, IsFiniteSet(W), NEW v \in [W -> Int], NEW w \in W, NEW d \in Int,
         NEW u, u[w] = v[w] + d, \A x \in W \ {w} : u[x] = v[x]
  PROVE  Total(u, W) = Total(v, W) + d
<1> DEFINE More(T) == IF w \in T THEN d ELSE 0
           B == {T \in SUBSET W : Total(u, T) # Total(v, T) + More(T)}
<1>1. ASSUME B # {} PROVE FALSE
  <2>1. PICK T \in B : \A U \in SUBSET T : U # T => U \notin B
    <3>1. B \in SUBSET SUBSET W
      OBVIOUS
    <3> HIDE DEF B
    <3> QED  BY <1>1, <3>1, LeastSubset
  <2>2. IsFiniteSet(T)
    BY FS_Subset
  <2>3. T # {}
    <3>1. Total(u, T) # Total(v, T) + More(T)
      OBVIOUS
    <3> SUFFICES ASSUME T = {} PROVE FALSE
      OBVIOUS
    <3>2. Total(u, T) = 0 /\ Total(v, T) = 0 /\ More(T) = 0
      BY TotalEmpty
    <3> QED  BY <3>1, <3>2
  <2> DEFINE U == T \ {Picked(T)}
  <2>4. Picked(T) \in T /\ U \in SUBSET W /\ U # T
    BY <2>3, PickedIn
  <2>5. Total(u, U) = Total(v, U) + More(U)
    BY <2>1, <2>4
  <2>6. Total(v, T) = v[Picked(T)] + Total(v, U) /\ Total(u, T) = u[Picked(T)] + Total(u, U)
    BY <2>2, <2>3, TotalEquation
  <2>7. Total(v, U) \in Int
    BY <2>4, TotalType
  <2>8. u[Picked(T)] = v[Picked(T)] + (IF Picked(T) = w THEN d ELSE 0) /\ v[Picked(T)] \in Int
    BY <2>4
  <2>9. Total(u, T) # Total(v, T) + More(T)
    OBVIOUS
  <2>10. w \in T <=> w \in U \/ w = Picked(T)
    BY <2>4
  <2>11. w \in U => w # Picked(T)
    OBVIOUS
  <2> HIDE DEF U, B
  <2> QED  BY <2>5, <2>6, <2>7, <2>8, <2>9, <2>10, <2>11
<1>2. W \notin B
  BY <1>1
<1> QED  BY <1>2

\* A sum of zeros is zero.
LEMMA TotalZero ==
  ASSUME NEW W, IsFiniteSet(W)
  PROVE  Total([w \in W |-> 0], W) = 0
<1> DEFINE v == [w \in W |-> 0]
           B == {T \in SUBSET W : Total(v, T) # 0}
<1>1. ASSUME B # {} PROVE FALSE
  <2>1. PICK T \in B : \A U \in SUBSET T : U # T => U \notin B
    <3>1. B \in SUBSET SUBSET W
      OBVIOUS
    <3> HIDE DEF B
    <3> QED  BY <1>1, <3>1, LeastSubset
  <2>2. IsFiniteSet(T)
    BY FS_Subset
  <2>3. T # {}
    BY TotalEmpty
  <2>4. Picked(T) \in W /\ T \ {Picked(T)} \in SUBSET T /\ T \ {Picked(T)} # T
    BY <2>3, PickedIn
  <2>5. Total(v, T \ {Picked(T)}) = 0
    BY <2>1, <2>4
  <2>6. Total(v, T) = v[Picked(T)] + Total(v, T \ {Picked(T)})
    BY <2>2, <2>3, TotalEquation
  <2> QED  BY <2>4, <2>5, <2>6
<1> QED  BY <1>1

-----------------------------------------------------------------------------
(* The gauges: what is counted and not yet in a gauge, or in one and no longer   *)
(* pending, is in one of three disjoint places.                                   *)

Written == {r \in Reviewers : stage[r] = "written"}
Falling == UNION {todo[w] : w \in Workers}

Balanced ==
  Total(gauge, Workers) + Cardinality(uncounted)
    = Cardinality(Pending) + Cardinality(Written) + Cardinality(Falling)

\* What a monitor has still to lower is expired, and no other monitor has it.
ToLower ==
  /\ \A w \in Workers : \A a \in todo[w] : row[a] = "expired"
  /\ \A w, x \in Workers : w # x => todo[w] \cap todo[x] = {}

TallyInv ==
  /\ \A a \in uncounted : row[a] # "none"
  /\ amiss = {} /\ ~ skewed => ToLower /\ Balanced

\* The sets that are counted are finite, and the sum of the gauges is a number.
LEMMA Countable ==
  ASSUME TypeOK
  PROVE  /\ IsFiniteSet(uncounted) /\ Cardinality(uncounted) \in Nat
         /\ IsFiniteSet(Pending) /\ Cardinality(Pending) \in Nat
         /\ IsFiniteSet(Written) /\ Cardinality(Written) \in Nat
         /\ IsFiniteSet(Falling) /\ Cardinality(Falling) \in Nat
         /\ Total(gauge, Workers) \in Int
<1>1. /\ uncounted \in SUBSET Approvals /\ Pending \in SUBSET Approvals
      /\ Falling \in SUBSET Approvals /\ Written \in SUBSET Reviewers
  BY DEF TypeOK, Pending, Falling, Written
<1>2. /\ IsFiniteSet(uncounted) /\ IsFiniteSet(Pending)
      /\ IsFiniteSet(Falling) /\ IsFiniteSet(Written)
  BY <1>1, SetsAssumption, FS_Subset
<1>3. Total(gauge, Workers) \in Int
  BY SetsAssumption, TotalType DEF TypeOK
<1> QED  BY <1>2, <1>3, FS_CardinalityType

\* The invariant says what the property says.
LEMMA BalancedIs ==
  ASSUME TypeOK, TallyInv
  PROVE  GaugesAddUp
<1> SUFFICES ASSUME amiss = {}, ~ skewed PROVE GaugeTotal = Cardinality(Pending) + UnderWay
  BY DEF GaugesAddUp
<1>1. GaugeTotal = Total(gauge, Workers)
  BY DEF GaugeTotal, Total, FoldFunction, TypeOK
<1>2. Balanced
  BY DEF TallyInv
<1>3. UnderWay = Cardinality(Written) + Cardinality(Falling) - Cardinality(uncounted)
  BY DEF UnderWay, Written, Falling
<1> QED  BY <1>1, <1>2, <1>3, Countable DEF Balanced

\* A step that moves neither rows nor gauges, and no call to or from written, keeps it.
LEMMA NothingTallied ==
  ASSUME TallyInv, UNCHANGED <<row, uncounted, amiss, todo, skewed, gauge>>,
         Written' = Written
  PROVE  TallyInv'
<1>1. Pending' = Pending /\ Falling' = Falling
  BY DEF Pending, Falling
<1>2. Balanced => Balanced'
  BY <1>1 DEF Balanced
<1>3. ToLower => ToLower'
  BY DEF ToLower
<1> QED  BY <1>2, <1>3 DEF TallyInv

\* A new row waits for the gauge of its worker.
LEMMA CreateTallied ==
  ASSUME TypeOK, TallyInv, NEW a \in Approvals, Create(a)
  PROVE  TallyInv'
<1> USE DEF Create
<1>1. row[a] = "none" /\ row' = [row EXCEPT ![a] = "pending"] /\ uncounted' = uncounted \cup {a}
  OBVIOUS
<1>2. \A b \in uncounted' : row'[b] # "none"
  BY <1>1 DEF TallyInv, TypeOK
<1>3. ASSUME amiss = {}, ~ skewed PROVE ToLower' /\ Balanced'
  <2>1. ToLower /\ Balanced
    BY <1>3 DEF TallyInv
  <2>2. ToLower'
    BY <1>1, <2>1 DEF ToLower, TypeOK
  <2>3. Pending' = Pending \cup {a} /\ a \notin Pending
    BY <1>1 DEF Pending, TypeOK
  <2>4. a \notin uncounted
    BY <1>1 DEF TallyInv
  <2>5. Cardinality(Pending') = Cardinality(Pending) + 1
    BY <2>3, Countable, FS_AddElement
  <2>6. Cardinality(uncounted') = Cardinality(uncounted) + 1
    BY <1>1, <2>4, Countable, FS_AddElement
  <2>7. Written' = Written /\ Falling' = Falling /\ gauge' = gauge
    BY DEF Written, Falling
  <2> QED  BY <2>1, <2>2, <2>5, <2>6, <2>7, Countable DEF Balanced
<1> QED  BY <1>2, <1>3 DEF TallyInv

\* The row is taken into the gauge of the worker that made it.
LEMMA CountTallied ==
  ASSUME TypeOK, TallyInv, NEW a \in Approvals, Count(a)
  PROVE  TallyInv'
<1> USE DEF Count
<1>1. \A b \in uncounted' : row'[b] # "none"
  BY DEF TallyInv
<1>2. ASSUME amiss = {}, ~ skewed PROVE ToLower' /\ Balanced'
  <2>1. ToLower /\ Balanced
    BY <1>2 DEF TallyInv
  <2>2. ToLower'
    BY <2>1 DEF ToLower
  <2>3. Total(gauge', Workers) = Total(gauge, Workers) + 1
    <3>1. gauge \in [Workers -> Int] /\ maker[a] \in Workers
      BY MakerAssumption DEF TypeOK
    <3>2. PICK w \in Workers : w = maker[a]
      BY <3>1
    <3>3. gauge'[w] = gauge[w] + 1 /\ \A x \in Workers \ {w} : gauge'[x] = gauge[x]
      BY <3>1, <3>2
    <3> HIDE DEF Count
    <3> QED  BY <3>1, <3>3, SetsAssumption, TotalMoves
  <2>4. Cardinality(uncounted') = Cardinality(uncounted) - 1
    BY Countable, FS_RemoveElement
  <2>5. Written' = Written /\ Falling' = Falling /\ Pending' = Pending
    BY DEF Written, Falling, Pending
  <2> QED  BY <2>1, <2>2, <2>3, <2>4, <2>5, Countable DEF Balanced
<1> QED  BY <1>1, <1>2 DEF TallyInv

\* A write that goes well takes one row out of those that are pending.
LEMMA WriteTallied ==
  ASSUME TypeOK, TallyInv, NEW r \in Reviewers, Write(r)
  PROVE  TallyInv'
<1> USE DEF Write
<1> DEFINE b == call[r].app
<1>0. b \in Approvals /\ decision[r] \in Statuses
  BY CallAssumption, DecisionsAssumption DEF TypeOK
<1>1. \A a \in uncounted' : row'[a] # "none"
  BY <1>0 DEF TallyInv, TypeOK
<1>2. ASSUME amiss' = {}, ~ skewed PROVE ToLower' /\ Balanced'
  <2>0. amiss = {} /\ row[b] = "pending" /\ decision[r] # "pending"
    BY <1>2
  <2>1. ToLower /\ Balanced
    BY <1>2, <2>0 DEF TallyInv
  <2>2. ToLower'
    BY <1>0, <2>0, <2>1 DEF ToLower, TypeOK
  <2>3. Pending' = Pending \ {b} /\ b \in Pending
    BY <1>0, <2>0 DEF Pending, TypeOK
  <2>4. Written' = Written \cup {r} /\ r \notin Written
    BY DEF Written, TypeOK
  <2>5. Cardinality(Pending') = Cardinality(Pending) - 1
    BY <2>3, Countable, FS_RemoveElement
  <2>6. Cardinality(Written') = Cardinality(Written) + 1
    BY <2>4, Countable, FS_AddElement
  <2>7. uncounted' = uncounted /\ Falling' = Falling /\ gauge' = gauge
    BY DEF Falling
  <2> QED  BY <2>1, <2>2, <2>5, <2>6, <2>7, Countable DEF Balanced
<1> QED  BY <1>1, <1>2 DEF TallyInv

\* What a call has written it lowers once, on its own worker.
LEMMA LowerTallied ==
  ASSUME TypeOK, TallyInv, NEW r \in Reviewers, Lower(r)
  PROVE  TallyInv'
<1> USE DEF Lower
<1>1. \A a \in uncounted' : row'[a] # "none"
  BY DEF TallyInv
<1>2. ASSUME amiss = {}, ~ skewed PROVE ToLower' /\ Balanced'
  <2>1. ToLower /\ Balanced
    BY <1>2 DEF TallyInv
  <2>2. ToLower'
    BY <2>1 DEF ToLower
  <2>3. PICK w \in Workers : w = call[r].worker
    BY CallAssumption
  <2>4. gauge'[w] = gauge[w] + -1 /\ \A x \in Workers \ {w} : gauge'[x] = gauge[x]
    BY <2>3 DEF TypeOK
  <2>5. Total(gauge', Workers) = Total(gauge, Workers) + -1
    <3>1. gauge \in [Workers -> Int]
      BY DEF TypeOK
    <3> HIDE DEF Lower
    <3> QED  BY <2>3, <2>4, <3>1, SetsAssumption, TotalMoves
  <2>6. Written' = Written \ {r} /\ r \in Written
    BY DEF Written, TypeOK
  <2>7. Cardinality(Written') = Cardinality(Written) - 1
    BY <2>6, Countable, FS_RemoveElement
  <2>8. uncounted' = uncounted /\ Falling' = Falling /\ Pending' = Pending
    BY DEF Falling, Pending
  <2> QED  BY <2>1, <2>2, <2>5, <2>7, <2>8, Countable DEF Balanced
<1> QED  BY <1>1, <1>2 DEF TallyInv

\* The UPDATE of a monitor moves rows that were pending, and nobody else's.
LEMMA ExpireTallied ==
  ASSUME TypeOK, TallyInv, NEW w \in Workers, Expire(w)
  PROVE  TallyInv'
<1> USE DEF Expire
<1> DEFINE new == ToExpire
<1>0. new \subseteq Pending /\ new \subseteq Approvals /\ todo[w] = {}
  BY DEF ToExpire, Pending, TypeOK
<1>1. \A a \in uncounted' : row'[a] # "none"
  BY DEF TallyInv, TypeOK
<1>2. ASSUME amiss = {}, ~ skewed PROVE ToLower' /\ Balanced'
  <2>1. ToLower /\ Balanced
    BY <1>2 DEF TallyInv
  <2>2. /\ todo' = [todo EXCEPT ![w] = new]
        /\ row' = [a \in Approvals |-> IF a \in new THEN "expired" ELSE row[a]]
    OBVIOUS
  <2>3. \A a \in new : row[a] = "pending"
    BY DEF ToExpire
  <2> HIDE DEF new
  <2>4. ToLower'
    <3>1. \A x \in Workers : \A a \in todo'[x] : row'[a] = "expired"
      BY <1>0, <2>1, <2>2 DEF ToLower, TypeOK
    <3>2. \A x \in Workers : x # w => todo[x] \cap new = {}
      BY <2>1, <2>3 DEF ToLower
    <3>3. \A x, y \in Workers : x # y => todo'[x] \cap todo'[y] = {}
      BY <2>1, <2>2, <3>2 DEF ToLower, TypeOK
    <3> QED  BY <3>1, <3>3 DEF ToLower
  <2>5. Pending' = Pending \ new /\ Pending \cap new = new
    BY <1>0, <2>2 DEF Pending, TypeOK
  <2>6. Falling' = Falling \cup new
    BY <1>0, <2>2 DEF Falling, TypeOK
  <2>7. Falling \cap new = {}
    BY <2>1, <2>3 DEF Falling, ToLower
  <2>8. IsFiniteSet(new) /\ Cardinality(new) \in Nat
    BY <1>0, Countable, FS_Subset, FS_CardinalityType
  <2>9. Cardinality(Pending') = Cardinality(Pending) - Cardinality(new)
    BY <2>5, Countable, FS_Difference
  <2>10. Cardinality(Falling') = Cardinality(Falling) + Cardinality(new)
    <3>1. Cardinality(Falling \cap new) = 0
      BY <2>7, FS_EmptySet
    <3>2. Cardinality(Falling \cup new)
            = Cardinality(Falling) + Cardinality(new) - Cardinality(Falling \cap new)
      BY <2>8, Countable, FS_Union
    <3> QED  BY <2>6, <2>8, <3>1, <3>2, Countable
  <2>11. uncounted' = uncounted /\ Written' = Written /\ gauge' = gauge
    BY DEF Written
  <2> QED  BY <2>1, <2>4, <2>8, <2>9, <2>10, <2>11, Countable DEF Balanced
<1> QED  BY <1>1, <1>2 DEF TallyInv

\* One row is lowered; the rows a broadcast that raises leaves behind are noted.
LEMMA LowerExpiredTallied ==
  ASSUME TypeOK, TallyInv, NEW w \in Workers, LowerExpired(w)
  PROVE  TallyInv'
<1>0. PICK a \in todo[w] :
        /\ gauge' = [gauge EXCEPT ![w] = @ - 1]
        /\ \/ /\ todo' = [todo EXCEPT ![w] = @ \ {a}]
              /\ skewed' = skewed
           \/ /\ todo' = [todo EXCEPT ![w] = {}]
              /\ skewed' = (skewed \/ todo[w] # {a})
        /\ UNCHANGED <<rowVars, uncounted, callVars, crashes>>
  BY DEF LowerExpired
<1>1. \A b \in uncounted' : row'[b] # "none"
  BY <1>0 DEF TallyInv
<1>2. ASSUME amiss' = {}, ~ skewed' PROVE ToLower' /\ Balanced'
  <2>0. amiss = {} /\ ~ skewed /\ todo' = [todo EXCEPT ![w] = @ \ {a}]
    <3>1. CASE todo' = [todo EXCEPT ![w] = @ \ {a}] /\ skewed' = skewed
      BY <1>0, <1>2, <3>1
    <3>2. CASE todo' = [todo EXCEPT ![w] = {}] /\ skewed' = (skewed \/ todo[w] # {a})
      <4>1. ~ skewed /\ todo[w] = {a}
        BY <1>2, <3>2
      <4> QED  BY <1>0, <1>2, <3>2, <4>1
    <3> QED  BY <1>0, <3>1, <3>2
  <2>1. ToLower /\ Balanced
    BY <2>0 DEF TallyInv
  <2>2. ToLower'
    BY <1>0, <2>0, <2>1 DEF ToLower, TypeOK
  <2>3. /\ gauge'[w] = gauge[w] + -1
        /\ \A x \in Workers \ {w} : gauge'[x] = gauge[x]
    BY <1>0 DEF TypeOK
  <2>4. Total(gauge', Workers) = Total(gauge, Workers) + -1
    <3>1. gauge \in [Workers -> Int]
      BY DEF TypeOK
    <3> QED  BY <2>3, <3>1, SetsAssumption, TotalMoves
  <2>5. a \in Falling
    BY <1>0 DEF Falling
  <2>6. Falling' = Falling \ {a}
    BY <1>0, <2>0, <2>1 DEF Falling, ToLower, TypeOK
  <2>7. Cardinality(Falling') = Cardinality(Falling) - 1
    BY <2>5, <2>6, Countable, FS_RemoveElement
  <2>8. uncounted' = uncounted /\ Written' = Written /\ Pending' = Pending
    BY <1>0 DEF Written, Pending
  <2> QED  BY <2>1, <2>2, <2>4, <2>7, <2>8, Countable DEF Balanced
<1> QED  BY <1>1, <1>2 DEF TallyInv

\* The pending_approvals of the workers (main.py:41, 151, 238, 314) add up to what is
\* pending and what is under way, for any number of workers: each row is raised once
\* and lowered once, whichever workers do it.
THEOREM GaugesBalance == Spec => []GaugesAddUp
<1>1. Init => TallyInv
  <2> SUFFICES ASSUME Init PROVE TallyInv
    OBVIOUS
  <2>1. /\ uncounted = {} /\ gauge = [w \in Workers |-> 0]
        /\ Pending = {} /\ Written = {} /\ Falling = {} /\ ToLower
    BY DEF Init, Pending, Written, Falling, ToLower
  <2>2. Total(gauge, Workers) = 0
    BY <2>1, SetsAssumption, TotalZero
  <2>3. Balanced
    BY <2>1, <2>2, FS_EmptySet DEF Balanced
  <2> QED  BY <2>1, <2>3 DEF TallyInv
<1>2. TypeOK /\ TallyInv /\ [Next]_vars => TallyInv'
  <2> SUFFICES ASSUME TypeOK, TallyInv, [Next]_vars PROVE TallyInv'
    OBVIOUS
  <2>1. ASSUME NEW a \in Approvals, Create(a) PROVE TallyInv'
    BY <2>1, CreateTallied
  <2>2. ASSUME NEW a \in Approvals, Count(a) PROVE TallyInv'
    BY <2>2, CountTallied
  <2>3. ASSUME NEW a \in Approvals, FallsDue(a) PROVE TallyInv'
    BY <2>3, NothingTallied DEF FallsDue, Written
  <2>4. ASSUME NEW r \in Reviewers, Decide(r) PROVE TallyInv'
    <3>1. CASE Write(r)
      BY <3>1, WriteTallied
    <3>2. CASE Lower(r)
      BY <3>2, LowerTallied
    <3>3. CASE Check(r) \/ WriteFails(r) \/ Publish(r) \/ PublishFails(r)
      <4>1. Written' = Written
        BY <3>3 DEF Check, WriteFails, Publish, PublishFails, Written, TypeOK
      <4> QED  BY <3>3, <4>1, NothingTallied DEF Check, WriteFails, Publish, PublishFails
    <3>4. CASE WriteRaises(r)
      <4>1. decision[r] \in Statuses
        BY DecisionsAssumption DEF TypeOK
      <4> QED  BY <3>4, <4>1 DEF WriteRaises, TallyInv, TypeOK
    <3> QED  BY <2>4, <3>1, <3>2, <3>3, <3>4 DEF Decide
  <2>5. ASSUME NEW w \in Workers, Watch(w) PROVE TallyInv'
    <3>1. CASE ExpireRaises(w)
      BY <3>1 DEF ExpireRaises, TallyInv, TypeOK
    <3> QED  BY <2>5, <3>1, ExpireTallied, LowerExpiredTallied DEF Watch
  <2>6. ASSUME NEW w \in Workers, Crash(w) PROVE TallyInv'
    BY <2>6 DEF Crash, TallyInv
  <2>7. CASE UNCHANGED vars
    BY <2>7, NothingTallied DEF Written
  <2> QED  BY <2>1, <2>2, <2>3, <2>4, <2>5, <2>6, <2>7 DEF Next
<1>3. TypeOK /\ TallyInv => GaugesAddUp
  BY BalancedIs
<1> QED  BY <1>1, <1>2, <1>3, TypeCorrect, PTL DEF Spec
=============================================================================
