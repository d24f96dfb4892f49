---------------------------- MODULE ApprovalService ----------------------------
(***************************************************************************)
(* The approval service (src/services/approval-service/main.py): requests  *)
(* for approval are rows of one table; reviewers decide them, and a        *)
(* monitor expires those that are overdue. Every worker process of the     *)
(* service has a monitor and a gauge of its own; they share the table.     *)
(*                                                                         *)
(* decide_approval reads the row in one transaction and writes it in       *)
(* another, so other calls and the monitors come in between. The event of  *)
(* a decision is kept as the call that published it. A broadcast to        *)
(* WebSockets is kept only for what it does to its caller: it may raise,   *)
(* when two removals of a dead socket overlap (main.py:55-63).             *)
(***************************************************************************)
EXTENDS Integers, FiniteSets, Functions

CONSTANTS
  Approvals,   \* approval requests, by id
  Workers,     \* worker processes of the service
  Reviewers,   \* calls of POST /approvals/{id}/decide
  Decisions,   \* the strings they send as decision
  maker,       \* approval -> the worker that serves its POST /approvals
  call,        \* reviewer -> the request the call is about, the worker that serves it
  MaxCrashes   \* bound: crashes of a worker

\* The table's CHECK on status; decision is an unrestricted string, and one that
\* the CHECK refuses is an UPDATE that fails.
Statuses == {"pending", "approved", "rejected", "expired", "cancelled"}

ASSUME SetsAssumption ==
  IsFiniteSet(Approvals) /\ IsFiniteSet(Reviewers) /\ IsFiniteSet(Workers)
ASSUME DecisionsAssumption == Decisions \subseteq Statuses
ASSUME MakerAssumption == maker \in [Approvals -> Workers]
ASSUME CallAssumption == call \in [Reviewers -> [app : Approvals, worker : Workers]]
ASSUME MaxCrashesAssumption == MaxCrashes \in Nat

VARIABLES
  row,        \* approval -> status of its row, or "none"
  overdue,    \* approvals whose expires_at has passed
  uncounted,  \* approvals inserted, and not yet in the gauge of their worker
  decision,   \* reviewer -> the decision sent (never changes)
  stage,      \* reviewer -> where the call is
  wrote,      \* calls whose UPDATE was committed
  amiss,      \* calls whose UPDATE did not take the row from pending to an answer
  published,  \* calls whose event was published
  todo,       \* worker -> rows its monitor has expired and not yet lowered
  skewed,     \* whether an error or a crash has left a gauge wrong
  gauge,      \* worker -> pending_approvals
  crashes

rowVars == <<row, overdue>>
callVars == <<decision, stage, wrote, amiss, published>>
vars == <<rowVars, uncounted, callVars, todo, skewed, gauge, crashes>>

Stages == {"idle", "checked", "written", "lowered", "over"}

Init ==
  /\ row = [a \in Approvals |-> "none"]
  /\ overdue = {}
  /\ uncounted = {}
  /\ decision \in [Reviewers -> Decisions]
  /\ stage = [r \in Reviewers |-> "idle"]
  /\ wrote = {}
  /\ amiss = {}
  /\ published = {}
  /\ todo = [w \in Workers |-> {}]
  /\ skewed = FALSE
  /\ gauge = [w \in Workers |-> 0]
  /\ crashes = 0

-----------------------------------------------------------------------------
(* POST /approvals: the row is committed first, the gauge is raised after it. *)

Create(a) ==
  /\ row[a] = "none"
  /\ row' = [row EXCEPT ![a] = "pending"]
  /\ uncounted' = uncounted \cup {a}
  /\ UNCHANGED <<overdue, callVars, todo, skewed, gauge, crashes>>

Count(a) ==
  /\ a \in uncounted
  /\ uncounted' = uncounted \ {a}
  /\ gauge' = [gauge EXCEPT ![maker[a]] = @ + 1]
  /\ UNCHANGED <<rowVars, callVars, todo, skewed, crashes>>

\* The clock passes expires_at.
FallsDue(a) ==
  /\ row[a] # "none"
  /\ a \notin overdue
  /\ overdue' = overdue \cup {a}
  /\ UNCHANGED <<row, uncounted, callVars, todo, skewed, gauge, crashes>>

-----------------------------------------------------------------------------
(* POST /approvals/{id}/decide. *)

Moves(r, s) == stage' = [stage EXCEPT ![r] = s]

\* Mutant: any row that exists may be decided.
Check_Exists(r) ==
  /\ stage[r] = "idle"
  /\ Moves(r, IF row[call[r].app] # "none" THEN "checked" ELSE "over")
  /\ UNCHANGED <<rowVars, uncounted, decision, wrote, amiss, published, todo, skewed, gauge, crashes>>

\* The SELECT, and the answers 404 and 409.
Check(r) ==
  /\ stage[r] = "idle"
  /\ Moves(r, IF row[call[r].app] = "pending" THEN "checked" ELSE "over")
  /\ UNCHANGED <<rowVars, uncounted, decision, wrote, amiss, published, todo, skewed, gauge, crashes>>

\* Mutant: whatever is decided approves the request.
Write_Approves(r) ==
  /\ stage[r] = "checked"
  /\ Moves(r, "written")
  /\ row' = [row EXCEPT ![call[r].app] = "approved"]
  /\ wrote' = wrote \cup {r}
  /\ amiss' = IF row[call[r].app] # "pending" \/ decision[r] = "pending"
              THEN amiss \cup {r} ELSE amiss
  /\ UNCHANGED <<overdue, uncounted, decision, published, todo, skewed, gauge, crashes>>

\* Mutant: the type of the event is written as the status.
Write_EventType(r) ==
  /\ stage[r] = "checked"
  /\ Moves(r, "written")
  /\ row' = [row EXCEPT ![call[r].app] = "human.rejected"]
  /\ wrote' = wrote \cup {r}
  /\ UNCHANGED <<overdue, uncounted, decision, amiss, published, todo, skewed, gauge, crashes>>

\* The UPDATE, whatever the row says by now.
Answers(r) ==
  /\ row' = [row EXCEPT ![call[r].app] = decision[r]]
  /\ wrote' = wrote \cup {r}
  /\ amiss' = IF row[call[r].app] # "pending" \/ decision[r] = "pending"
              THEN amiss \cup {r} ELSE amiss

Write(r) ==
  /\ stage[r] = "checked"
  /\ Moves(r, "written")
  /\ Answers(r)
  /\ UNCHANGED <<overdue, uncounted, decision, published, todo, skewed, gauge, crashes>>

\* The UPDATE is refused (a CHECK, the reviewer's key) or the database is away.
WriteFails(r) ==
  /\ stage[r] = "checked"
  /\ Moves(r, "over")
  /\ UNCHANGED <<rowVars, uncounted, decision, wrote, amiss, published, todo, skewed, gauge, crashes>>

\* commit raises although the database has committed: the call ends, nothing is
\* lowered and nothing is published.
WriteRaises(r) ==
  /\ stage[r] = "checked"
  /\ Moves(r, "over")
  /\ Answers(r)
  /\ skewed' = TRUE
  /\ UNCHANGED <<overdue, uncounted, decision, published, todo, gauge, crashes>>

\* Mutant: only approvals leave the gauge.
Lower_Approved(r) ==
  /\ stage[r] = "written"
  /\ Moves(r, "lowered")
  /\ gauge' = IF decision[r] = "approved"
              THEN [gauge EXCEPT ![call[r].worker] = @ - 1] ELSE gauge
  /\ UNCHANGED <<rowVars, uncounted, decision, wrote, amiss, published, todo, skewed, crashes>>

Lower(r) ==
  /\ stage[r] = "written"
  /\ Moves(r, "lowered")
  /\ gauge' = [gauge EXCEPT ![call[r].worker] = @ - 1]
  /\ UNCHANGED <<rowVars, uncounted, decision, wrote, amiss, published, todo, skewed, crashes>>

\* The event: human.approved for "approved", human.rejected for anything else.
Publish(r) ==
  /\ stage[r] = "lowered"
  /\ Moves(r, "over")
  /\ published' = published \cup {r}
  /\ UNCHANGED <<rowVars, uncounted, decision, wrote, amiss, todo, skewed, gauge, crashes>>

\* Building or publishing the event raises, before or after the broker has it.
PublishFails(r) ==
  /\ stage[r] = "lowered"
  /\ Moves(r, "over")
  /\ published' \in {published, published \cup {r}}
  /\ UNCHANGED <<rowVars, uncounted, decision, wrote, amiss, todo, skewed, gauge, crashes>>

-----------------------------------------------------------------------------
(* _expiry_monitor. *)

\* Mutant: what is overdue expires whatever its status.
ToExpire_AnyStatus == {a \in overdue : row[a] # "none"}

\* Mutant: the comparison with the clock is turned round.
ToExpire_NotYet == {a \in Approvals \ overdue : row[a] = "pending"}

ToExpire == {a \in overdue : row[a] = "pending"}

\* One UPDATE ... RETURNING: no other transaction comes between test and write.
ExpireRows == row' = [a \in Approvals |-> IF a \in ToExpire THEN "expired" ELSE row[a]]

Expire(w) ==
  /\ todo[w] = {}
  /\ ToExpire # {}
  /\ ExpireRows
  /\ todo' = [todo EXCEPT ![w] = ToExpire]
  /\ UNCHANGED <<overdue, uncounted, callVars, skewed, gauge, crashes>>

\* commit raises although the database has committed: no row is lowered.
ExpireRaises(w) ==
  /\ todo[w] = {}
  /\ ToExpire # {}
  /\ ExpireRows
  /\ skewed' = TRUE
  /\ UNCHANGED <<overdue, uncounted, callVars, todo, gauge, crashes>>

\* Each row returned lowers the gauge and is broadcast; when the broadcast raises,
\* the rows after it are skipped.
LowerExpired(w) ==
  \E a \in todo[w] :
    /\ gauge' = [gauge EXCEPT ![w] = @ - 1]
    /\ \/ /\ todo' = [todo EXCEPT ![w] = @ \ {a}]
          /\ UNCHANGED skewed
       \/ /\ todo' = [todo EXCEPT ![w] = {}]
          /\ skewed' = (skewed \/ todo[w] # {a})
    /\ UNCHANGED <<rowVars, uncounted, callVars, crashes>>

-----------------------------------------------------------------------------
\* A worker dies with its calls and its gauge, and is started again.
Crash(w) ==
  /\ crashes < MaxCrashes
  /\ crashes' = crashes + 1
  /\ uncounted' = {a \in uncounted : maker[a] # w}
  /\ stage' = [r \in Reviewers |->
                 IF call[r].worker = w /\ stage[r] \in {"checked", "written", "lowered"}
                 THEN "over" ELSE stage[r]]
  /\ gauge' = [gauge EXCEPT ![w] = 0]
  /\ todo' = [todo EXCEPT ![w] = {}]
  /\ skewed' = TRUE
  /\ UNCHANGED <<rowVars, decision, wrote, amiss, published>>

Decide(r) ==
  \/ Check(r) \/ Write(r) \/ WriteFails(r) \/ WriteRaises(r)
  \/ Lower(r) \/ Publish(r) \/ PublishFails(r)
Watch(w) == Expire(w) \/ ExpireRaises(w) \/ LowerExpired(w)

Next ==
  \/ \E a \in Approvals : Create(a) \/ Count(a) \/ FallsDue(a)
  \/ \E r \in Reviewers : Decide(r)
  \/ \E w \in Workers : Watch(w) \/ Crash(w)

Spec == Init /\ [][Next]_vars

\* Monitors wake up every minute and survive their exceptions; the database
\* answers one of them in the end.
Fairness == \A w \in Workers : WF_vars(Watch(w))

FairSpec == Spec /\ Fairness

-----------------------------------------------------------------------------
(* Properties. *)

Pending == {a \in Approvals : row[a] = "pending"}

\* Types.
TypeOK ==
  /\ row \in [Approvals -> Statuses \cup {"none"}]
  /\ overdue \subseteq Approvals
  /\ uncounted \subseteq Approvals
  /\ decision \in [Reviewers -> Decisions]
  /\ stage \in [Reviewers -> Stages]
  /\ wrote \subseteq Reviewers
  /\ amiss \subseteq Reviewers
  /\ published \subseteq Reviewers
  /\ todo \in [Workers -> SUBSET Approvals]
  /\ skewed \in BOOLEAN
  /\ gauge \in [Workers -> Int]
  /\ crashes \in 0 .. MaxCrashes

\* What decide_approval is for (main.py:204): unless a write came too late or left
\* the row open, one decision at most is written, the row keeps it, and an event
\* that resumes or cancels the workflow is that of the decision on record.
SoleAnswer ==
  \A r \in wrote \cup published :
    (\A s \in amiss : call[s].app # call[r].app) =>
       /\ row[call[r].app] = decision[r]
       /\ \A s \in wrote \cup published : call[s].app = call[r].app => s = r

\* An answer with no reviewer between reading and writing it is final: neither a
\* later call nor a monitor changes it, and no later call gets that far
\* (main.py:215, 306).
Answered(a) ==
  /\ row[a] \notin {"none", "pending"}
  /\ \A r \in Reviewers : call[r].app = a => stage[r] # "checked"
AnswerIsFinal ==
  [][\A a \in Approvals : Answered(a) => Answered(a)' /\ row'[a] = row[a]]_vars

\* The gauges of the workers (main.py:41) add up to what is pending: a row is
\* lowered once whichever worker answers it or expires it, with what is under way
\* accounted for, until a write goes amiss, a commit raises although it was applied, a
\* broadcast raises or a worker dies.
GaugeTotal == FoldFunction(LAMBDA x, y : x + y, 0, gauge)
UnderWay ==
  Cardinality({r \in Reviewers : stage[r] = "written"})
    + Cardinality(UNION {todo[w] : w \in Workers})
    - Cardinality(uncounted)
GaugesAddUp ==
  amiss = {} /\ ~skewed =>
    GaugeTotal = Cardinality(Pending) + UnderWay

\* "Approval requests expire automatically" (main.py:9): what is pending and overdue
\* is answered or expires, through crashes, failures and late writes.
OverdueExpires ==
  \A a \in Approvals : (a \in overdue /\ row[a] = "pending") ~> row[a] # "pending"

-----------------------------------------------------------------------------
(* What documentation says and the code does not do. *)

\* main.py:7 says "States: pending -> approved | rejected | expired | cancelled":
\* a request leaves pending once, and keeps what it became.
OnlyPendingMoves ==
  [][\A a \in Approvals : row[a] \notin {"none", "pending"} => row'[a] = row[a]]_vars
=============================================================================
