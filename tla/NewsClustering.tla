--------------------------- MODULE NewsClustering ---------------------------
(***************************************************************************)
(* The story clusters of the clustering agent                              *)
(* (src/agents/news-clustering-agent/agent.py): a dict in memory that its  *)
(* tasks read before they ask the LLM and change when its answer is in,    *)
(* and one event for each change, published afterwards. Module             *)
(* AgentExecution has the tasks. A cluster is named by the task that made  *)
(* it, of which it has one at most.                                        *)
(*                                                                         *)
(* The prompt shows the first ten clusters of the dict, but the answer is  *)
(* looked up among all there are when it is in: what was shown is data of  *)
(* the prompt, and left out.                                               *)
(***************************************************************************)
EXTENDS Integers, FiniteSets

CONSTANTS
  Tasks,
  Articles,
  articleOf,   \* task -> the article it is given; two tasks may have the same
  None         \* no cluster

ASSUME ArticleAssumption == articleOf \in [Tasks -> Articles]
ASSUME NoneAssumption == None \notin Tasks
ASSUME FiniteAssumption == IsFiniteSet(Tasks)

VARIABLES
  arts,       \* cluster -> article_ids, empty if there is no such cluster
  entries,    \* cluster -> number of entries of its timeline
  changing,   \* task -> the cluster whose event it publishes, or None
  payload,    \* task -> article_ids in that event
  announced,  \* cluster -> articles some accepted event shows
  spoilt,     \* tasks whose publication raised, with the cluster
  halfway     \* tasks that raised after the append, with the cluster

clusterVars == <<arts, entries, changing, payload, announced, spoilt, halfway>>

Clusters == {c \in Tasks : arts[c] # {}}

ClusterInit ==
  /\ arts = [c \in Tasks |-> {}]
  /\ entries = [c \in Tasks |-> 0]
  /\ changing = [t \in Tasks |-> None]
  /\ payload = [t \in Tasks |-> {}]
  /\ announced = [c \in Tasks |-> {}]
  /\ spoilt = {}
  /\ halfway = {}

\* The event shows the cluster as it is now.
Announce(t, c, A) ==
  /\ changing' = [changing EXCEPT ![t] = c]
  /\ payload' = [payload EXCEPT ![t] = A]

\* Mutant: the event shows the cluster as it was.
AddTo_ShowsOld(t, c) ==
  /\ articleOf[t] \notin arts[c]
  /\ arts' = [arts EXCEPT ![c] = @ \cup {articleOf[t]}]
  /\ entries' = [entries EXCEPT ![c] = @ + 1]
  /\ Announce(t, c, arts[c])
  /\ UNCHANGED <<announced, spoilt, halfway>>

\* Mutant: a cluster that got an article is not announced.
AddTo_Silent(t, c) ==
  /\ articleOf[t] \notin arts[c]
  /\ arts' = [arts EXCEPT ![c] = @ \cup {articleOf[t]}]
  /\ entries' = [entries EXCEPT ![c] = @ + 1]
  /\ UNCHANGED <<changing, payload, announced, spoilt, halfway>>

\* Mutant: the entry is appended whether the cluster has the article or not.
AddTo_Again(t, c) ==
  LET A == arts[c] \cup {articleOf[t]} IN
  /\ arts' = [arts EXCEPT ![c] = A]
  /\ entries' = [entries EXCEPT ![c] = @ + 1]
  /\ Announce(t, c, A)
  /\ UNCHANGED <<announced, spoilt, halfway>>

\* The article joins a cluster that does not have it.
AddTo(t, c) ==
  LET A == arts[c] \cup {articleOf[t]} IN
  /\ articleOf[t] \notin arts[c]
  /\ arts' = [arts EXCEPT ![c] = A]
  /\ entries' = [entries EXCEPT ![c] = @ + 1]
  /\ Announce(t, c, A)
  /\ UNCHANGED <<announced, spoilt, halfway>>

\* The article is appended, and building its entry raises (a title or an id that is no
\* string): it stays in the cluster, without an entry and without an event.
AddHalfway(t, c) ==
  /\ articleOf[t] \notin arts[c]
  /\ arts' = [arts EXCEPT ![c] = @ \cup {articleOf[t]}]
  /\ halfway' = halfway \cup {<<t, c>>}
  /\ UNCHANGED <<entries, changing, payload, announced, spoilt>>

Create(t) ==
  LET A == {articleOf[t]} IN
  /\ arts' = [arts EXCEPT ![t] = A]
  /\ entries' = [entries EXCEPT ![t] = 1]
  /\ Announce(t, t, A)
  /\ UNCHANGED <<announced, spoilt, halfway>>

\* publish returns: the broker has the event.
Accepted(t) ==
  /\ announced' = [announced EXCEPT ![changing[t]] = @ \cup payload[t]]
  /\ changing' = [changing EXCEPT ![t] = None]
  /\ UNCHANGED <<arts, entries, payload, spoilt, halfway>>

\* publish raises, before or after the broker has the event; the change stays.
Refused(t) ==
  /\ \/ announced' = [announced EXCEPT ![changing[t]] = @ \cup payload[t]]
     \/ UNCHANGED announced
  /\ changing' = [changing EXCEPT ![t] = None]
  /\ spoilt' = spoilt \cup {<<t, changing[t]>>}
  /\ UNCHANGED <<arts, entries, payload, halfway>>

-----------------------------------------------------------------------------
(* Properties. *)

ClusterTypeOK ==
  /\ arts \in [Tasks -> SUBSET Articles]
  /\ entries \in [Tasks -> Nat]
  /\ changing \in [Tasks -> Tasks \cup {None}]
  /\ payload \in [Tasks -> SUBSET Articles]
  /\ announced \in [Tasks -> SUBSET Articles]
  /\ spoilt \subseteq Tasks \X Tasks
  /\ halfway \subseteq Tasks \X Tasks

\* "Publish event updated" (agent.py:157): whatever the order in which tasks change
\* and announce the clusters they share, an article of a cluster is shown by an event,
\* or will be by one under way, unless a task that changed the cluster raised: while
\* it published the article, or between appending it and publishing.
ClustersAreAnnounced ==
  \A c \in Clusters : \A a \in arts[c] :
    \/ a \in announced[c]
    \/ \E t \in Tasks : changing[t] = c /\ a \in payload[t]
    \/ \E t \in Tasks : <<t, c>> \in spoilt /\ a \in payload[t]
    \/ \E t \in Tasks : <<t, c>> \in halfway /\ a = articleOf[t]

\* "if article_id not in cluster.article_ids" (agent.py:146): tasks that have the same
\* article, and tasks that asked about a cluster before others changed it, leave one
\* entry in its timeline for each of its articles, but for those whose task raised
\* after the append (:147), which have none.
Left(c) == {t \in Tasks : <<t, c>> \in halfway}
OneEntryPerArticle ==
  \A c \in Tasks : entries[c] + Cardinality(Left(c)) = Cardinality(arts[c])
=============================================================================
