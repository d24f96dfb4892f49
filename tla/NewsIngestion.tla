----------------------------- MODULE NewsIngestion -----------------------------
(***************************************************************************)
(* The news ingestion agent (src/agents/news-ingestion-agent/agent.py): a  *)
(* scheduled loop and tasks on demand fetch the feeds, all at the same     *)
(* time, and publish every article they have not seen. All of them share   *)
(* one set of article ids, _seen_ids, in the memory of the agent.          *)
(*                                                                         *)
(* A job is one call of _fetch_feed. What it does between two awaits is a  *)
(* step. An article is its id, a hash of its URL, so that two feeds may    *)
(* have the same article; entries that do not parse are no articles, and   *)
(* the order of entries in a feed is left out.                             *)
(***************************************************************************)
EXTENDS Integers, FiniteSets

CONSTANTS
  Feeds,        \* feeds, by URL
  Articles,     \* article ids
  Tasks,        \* rss_fetch tasks, executed at most once each (module TaskDelivery)
  Loop,         \* the scheduled loop
  feedsOf,      \* call -> its feeds: those of the task, or DEFAULT_RSS_FEEDS
  Window,       \* entries read of a feed (20)
  MaxFaults,    \* bound: fetches and publications that fail
  MaxRestarts   \* bound: restarts of the agent

ASSUME LoopAssumption == Loop \notin Tasks
ASSUME FeedsAssumption == feedsOf \in [Tasks \cup {Loop} -> SUBSET Feeds]
ASSUME BoundsAssumption == MaxFaults \in Nat /\ MaxRestarts \in Nat

Calls == Tasks \cup {Loop}
Jobs == {j \in Calls \X Feeds : j[2] \in feedsOf[j[1]]}

VARIABLES
  shown,     \* feed -> articles among its first Window entries
  running,   \* _running
  phase,     \* call of _ingest_feeds -> idle, gathering, or ended
  job,       \* job -> off, fetching, reading, or publishing
  todo,      \* job -> articles it has fetched and not looked at yet
  sending,   \* job -> the article it publishes, in a set
  got,       \* job -> the list articles it returns
  seen,      \* _seen_ids
  times,     \* article -> publications the broker accepted since the agent started
  spoilt,    \* articles whose publication raised since the agent started
  faults,
  restarts

jobVars == <<job, todo, sending, got>>
memory == <<seen, times, spoilt>>
vars == <<shown, running, phase, jobVars, memory, faults, restarts>>

Quiet == [j \in Jobs |-> {}]

Init ==
  /\ shown \in [Feeds -> SUBSET Articles]
  /\ \A f \in Feeds : Cardinality(shown[f]) <= Window
  /\ running = FALSE
  /\ phase = [c \in Calls |-> "idle"]
  /\ job = [j \in Jobs |-> "off"]
  /\ todo = Quiet
  /\ sending = Quiet
  /\ got = Quiet
  /\ seen = {}
  /\ times = [a \in Articles |-> 0]
  /\ spoilt = {}
  /\ faults = 0
  /\ restarts = 0

-----------------------------------------------------------------------------
\* The world: a feed shows other entries.
Changes(f) ==
  /\ \E S \in SUBSET Articles :
       /\ Cardinality(S) <= Window
       /\ shown' = [shown EXCEPT ![f] = S]
  /\ UNCHANGED <<running, phase, jobVars, memory, faults, restarts>>

\* Mutant: the loop is created before startup awaits, and sees _running FALSE.
Launch_LoopFirst ==
  /\ ~running
  /\ running' = TRUE
  /\ phase' = [phase EXCEPT ![Loop] = "ended"]
  /\ UNCHANGED <<shown, jobVars, memory, faults, restarts>>

\* startup creates the loop's task and returns, and run sets _running, without an
\* await in between: the loop finds _running TRUE when it first runs.
Launch ==
  /\ ~running
  /\ running' = TRUE
  /\ UNCHANGED <<shown, phase, jobVars, memory, faults, restarts>>

\* _ingest_feeds: one job for every feed, gathered.
Begin(c) ==
  /\ running
  /\ phase[c] = "idle"
  /\ phase' = [phase EXCEPT ![c] = "gathering"]
  /\ job' = [j \in Jobs |-> IF j[1] = c THEN "fetching" ELSE job[j]]
  /\ got' = [j \in Jobs |-> IF j[1] = c THEN {} ELSE got[j]]
  /\ UNCHANGED <<shown, running, todo, sending, memory, faults, restarts>>

\* All jobs have returned; the loop sleeps, and begins again.
Finish(c) ==
  /\ phase[c] = "gathering"
  /\ \A f \in feedsOf[c] : job[<<c, f>>] = "off"
  /\ phase' = [phase EXCEPT ![c] = IF c = Loop THEN "idle" ELSE "ended"]
  /\ UNCHANGED <<shown, running, jobVars, memory, faults, restarts>>

-----------------------------------------------------------------------------
(* _fetch_feed. *)

Fetch(j) ==
  /\ job[j] = "fetching"
  /\ job' = [job EXCEPT ![j] = "reading"]
  /\ todo' = [todo EXCEPT ![j] = shown[j[2]]]
  /\ UNCHANGED <<shown, running, phase, sending, got, memory, faults, restarts>>

\* Mutant: the id is not added.
Mark_Forgotten(a) == seen' = seen

Mark(a) == seen' = seen \cup {a}

\* Mutant: every entry that was fetched is marked with the first one.
Look_MarksAll(j) ==
  /\ job[j] = "reading"
  /\ \E a \in todo[j] :
       /\ todo' = [todo EXCEPT ![j] = @ \ {a}]
       /\ IF a \in seen
          THEN UNCHANGED <<job, sending, seen>>
          ELSE /\ seen' = seen \cup todo[j]
               /\ sending' = [sending EXCEPT ![j] = {a}]
               /\ job' = [job EXCEPT ![j] = "publishing"]
  /\ UNCHANGED <<shown, running, phase, got, times, spoilt, faults, restarts>>

\* Mutant: the article is appended to the list before it is published.
Look_AppendsFirst(j) ==
  /\ job[j] = "reading"
  /\ \E a \in todo[j] :
       /\ todo' = [todo EXCEPT ![j] = @ \ {a}]
       /\ IF a \in seen
          THEN UNCHANGED <<job, sending, seen, got>>
          ELSE /\ Mark(a)
               /\ got' = [got EXCEPT ![j] = @ \cup {a}]
               /\ sending' = [sending EXCEPT ![j] = {a}]
               /\ job' = [job EXCEPT ![j] = "publishing"]
  /\ UNCHANGED <<shown, running, phase, times, spoilt, faults, restarts>>

\* The next entry: what was seen is skipped, what was not is marked and published.
Look(j) ==
  /\ job[j] = "reading"
  /\ \E a \in todo[j] :
       /\ todo' = [todo EXCEPT ![j] = @ \ {a}]
       /\ IF a \in seen
          THEN UNCHANGED <<job, sending, seen>>
          ELSE /\ Mark(a)
               /\ sending' = [sending EXCEPT ![j] = {a}]
               /\ job' = [job EXCEPT ![j] = "publishing"]
  /\ UNCHANGED <<shown, running, phase, got, times, spoilt, faults, restarts>>

\* The broker has the event of the job's article.
Accepted(j) == times' = [a \in Articles |-> IF a \in sending[j] THEN times[a] + 1 ELSE times[a]]

Publish(j) ==
  /\ job[j] = "publishing"
  /\ Accepted(j)
  /\ got' = [got EXCEPT ![j] = @ \cup sending[j]]
  /\ sending' = [sending EXCEPT ![j] = {}]
  /\ job' = [job EXCEPT ![j] = "reading"]
  /\ UNCHANGED <<shown, running, phase, todo, seen, spoilt, faults, restarts>>

Return(j) ==
  /\ job[j] = "reading"
  /\ todo[j] = {}
  /\ job' = [job EXCEPT ![j] = "off"]
  /\ UNCHANGED <<shown, running, phase, todo, sending, got, memory, faults, restarts>>

\* Mutant: no try around the feed, and gather without return_exceptions: the call
\* ends, and its other jobs go on.
Fails_NotCaught(j) ==
  /\ job[j] \in {"fetching", "publishing"}
  /\ faults < MaxFaults
  /\ faults' = faults + 1
  /\ phase' = [phase EXCEPT ![j[1]] = "ended"]
  /\ job' = [job EXCEPT ![j] = "off"]
  /\ todo' = [todo EXCEPT ![j] = {}]
  /\ sending' = [sending EXCEPT ![j] = {}]
  /\ got' = [got EXCEPT ![j] = {}]
  /\ spoilt' = spoilt \cup sending[j]
  /\ UNCHANGED <<shown, running, seen, times, restarts>>

\* Fetching raises, or publishing does, before or after the broker has the event:
\* the job is over, and returns no article at all.
Fails(j) ==
  /\ job[j] \in {"fetching", "publishing"}
  /\ faults < MaxFaults
  /\ faults' = faults + 1
  /\ Accepted(j) \/ UNCHANGED times
  /\ spoilt' = spoilt \cup sending[j]
  /\ job' = [job EXCEPT ![j] = "off"]
  /\ todo' = [todo EXCEPT ![j] = {}]
  /\ sending' = [sending EXCEPT ![j] = {}]
  /\ got' = [got EXCEPT ![j] = {}]
  /\ UNCHANGED <<shown, running, phase, seen, restarts>>

-----------------------------------------------------------------------------
\* The agent stops or dies, and is started again with nothing in its memory; the
\* tasks under way are not delivered again.
Restart ==
  /\ running
  /\ restarts < MaxRestarts
  /\ restarts' = restarts + 1
  /\ running' = FALSE
  /\ phase' = [c \in Calls |-> IF c = Loop THEN "idle"
                               ELSE IF phase[c] = "gathering" THEN "ended" ELSE phase[c]]
  /\ job' = [j \in Jobs |-> "off"]
  /\ todo' = Quiet
  /\ sending' = Quiet
  /\ got' = Quiet
  /\ seen' = {}
  /\ times' = [a \in Articles |-> 0]
  /\ spoilt' = {}
  /\ UNCHANGED <<shown, faults>>

Advance(j) == Fetch(j) \/ Look(j) \/ Publish(j) \/ Return(j)
Step(c) == Begin(c) \/ Finish(c)

Next ==
  \/ \E f \in Feeds : Changes(f)
  \/ \E c \in Calls : Step(c)
  \/ \E j \in Jobs : Advance(j) \/ Fails(j)
  \/ Launch
  \/ Restart

Spec == Init /\ [][Next]_vars

\* The event loop of the agent runs its tasks, and feeds and broker answer.
Fairness ==
  /\ WF_vars(Launch)
  /\ WF_vars(Step(Loop))
  /\ \A j \in Jobs : WF_vars(Advance(j))

FairSpec == Spec /\ Fairness

-----------------------------------------------------------------------------
(* Properties. *)

\* Types, and a call that is not gathering has no job under way.
TypeOK ==
  /\ shown \in [Feeds -> SUBSET Articles]
  /\ running \in BOOLEAN
  /\ phase \in [Calls -> {"idle", "gathering", "ended"}]
  /\ job \in [Jobs -> {"off", "fetching", "reading", "publishing"}]
  /\ todo \in [Jobs -> SUBSET Articles]
  /\ sending \in [Jobs -> SUBSET Articles]
  /\ got \in [Jobs -> SUBSET Articles]
  /\ seen \subseteq Articles
  /\ times \in [Articles -> Nat]
  /\ spoilt \subseteq Articles
  /\ faults \in 0 .. MaxFaults
  /\ restarts \in 0 .. MaxRestarts
  /\ \A j \in Jobs : phase[j[1]] # "gathering" => job[j] = "off"

\* "In-memory dedup" (agent.py:79): as long as the agent runs, no two jobs publish
\* one article, however the loop, the tasks and their feeds interleave and fail.
PublishedOnce ==
  /\ \A a \in Articles : times[a] <= 1
  /\ \A i, j \in Jobs : i # j => sending[i] \cap sending[j] = {}

\* What _seen_ids holds back from every later fetch (agent.py:178-179) was published
\* by the one job that returns it, is being published, or was lost by a failure.
SeenIsAccountedFor ==
  \A a \in seen :
    \/ \E j \in Jobs : a \in sending[j]
    \/ times[a] = 1
    \/ a \in spoilt

\* articles_ingested (agent.py:109) counts nothing twice: two jobs of any calls
\* never return the same article, and what they return was published.
ReturnedOnce ==
  \A i, j \in Jobs :
    /\ \A a \in got[i] : times[a] = 1
    /\ i # j => got[i] \cap got[j] = {}

\* An article is published once, held back for a reason, and returned once.
ArticlesAreAccountedFor == PublishedOnce /\ SeenIsAccountedFor /\ ReturnedOnce

\* The loop (agent.py:135-145) gets to every article a feed keeps showing, through
\* failures, restarts and whatever the tasks do.
EveryArticleIsMet ==
  \A a \in Articles, f \in feedsOf[Loop] : <>[](a \in shown[f]) => <>(a \in seen)
=============================================================================
