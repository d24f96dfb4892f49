------------------------ MODULE AgentExecutionProofs ------------------------
(***************************************************************************)
(* Proofs about AgentExecution and the clusters of NewsClustering, for any *)
(* agents, tasks, articles, answers and failures.                          *)
(***************************************************************************)
EXTENDS AgentExecution, FiniteSetTheorems, TLAPS

\* A step either leaves the clusters alone, or is one of these.
ClusterStep(t) ==
  \/ AnswerClustering(t) /\ Create(t) /\ Goes(t, "publishing") /\ UNCHANGED out
  \/ /\ AnswerClustering(t) /\ Goes(t, "publishing") /\ UNCHANGED out
     /\ \E c \in Clusters : AddTo(t, c)
  \/ AnswerClustering(t) /\ Ends(t, "raised") /\ \E c \in Clusters : AddHalfway(t, c)
  \/ PublishCluster(t)
  \/ PublishClusterRaises(t)

QuietStep(t) ==
  \/ Refuse(t)
  \/ Ask(t)
  \/ AnswerOnce(t) \/ Unusable(t) \/ AnswerResearch(t) \/ AnswerClaims(t)
  \/ AnswerClustering(t) /\ UNCHANGED clusterVars /\ \E o \in {"completed", "raised"} : Ends(t, o)
  \/ PublishItem(t) \/ PublishItemRaises(t) \/ ItemsOver(t)

LEMMA NextSplits == Next => \E t \in Tasks : ClusterStep(t) \/ QuietStep(t)
<1> SUFFICES ASSUME NEW t \in Tasks,
                    \/ Refuse(t) \/ Ask(t) \/ Answer(t) \/ Publishes(t)
                    \/ PublishItemRaises(t) \/ PublishClusterRaises(t)
             PROVE  ClusterStep(t) \/ QuietStep(t)
  BY DEF Next, GoesOn
<1>1. CASE AnswerClustering(t)
  BY <1>1 DEF AnswerClustering, ClusterStep, QuietStep
<1> QED
  BY <1>1 DEF Answer, Publishes, ClusterStep, QuietStep

LEMMA QuietKeepsClusters == ASSUME NEW t \in Tasks, QuietStep(t) PROVE UNCHANGED clusterVars
BY DEF QuietStep, Refuse, Ask, AnswerOnce, Unusable, AnswerResearch, AnswerClaims, PublishItem,
       PublishItemRaises, ItemsOver

-----------------------------------------------------------------------------
(* Types. *)

\* A task that has made a cluster, or raised halfway, has had its answer; the articles of
\* a cluster are as many as its entries and the tasks that raised halfway with it.
ClusterInv ==
  /\ \A t \in Tasks : arts[t] # {} => stage[t] \in {"publishing", "ended"}
  /\ \A t, c \in Tasks : <<t, c>> \in halfway => stage[t] = "ended"
  /\ \A c \in Tasks : IsFiniteSet(arts[c])
  /\ OneEntryPerArticle

TInv == TypeOK /\ ClusterInv

LEMMA InitTypes == Init => TInv
<1> SUFFICES ASSUME Init PROVE TInv
  OBVIOUS
<1> USE ArticleAssumption, NoneAssumption, FiniteAssumption, AgentsAssumption, MaxAssumption
<1>1. ClusterTypeOK
  BY DEF Init, ClusterInit, ClusterTypeOK
<1>2. TypeOK
  BY <1>1 DEF Init, ClusterInit, TypeOK
<1>3. ClusterInv
  <2>1. \A c \in Tasks : Left(c) = {}
    BY DEF Init, ClusterInit, Left
  <2> QED
    BY <2>1, FS_EmptySet DEF Init, ClusterInit, ClusterInv, OneEntryPerArticle
<1> QED
  BY <1>2, <1>3 DEF TInv

LEMMA RefusalsType == \A a \in Kinds : Refusals[a] \subseteq {"failed", "completed", "raised"}
BY DEF Kinds, Refusals, ResearchRefusal, ClaimsRefusal, ClusteringRefusal, VerificationRefusal,
       SummaryRefusal, ReportRefusal, ContextRefusal, SecurityRefusal

LEMMA QuietTypes == ASSUME TInv, NEW t \in Tasks, QuietStep(t) PROVE TInv'
<1> USE MaxAssumption, NoneAssumption
<1>0. UNCHANGED clusterVars
  BY QuietKeepsClusters
<1>1. ClusterTypeOK'
  BY <1>0 DEF TInv, TypeOK, ClusterTypeOK, clusterVars
<1>2. ClusterInv'
  <2>1. \A u \in Tasks : /\ stage[u] \in {"publishing", "ended"} => stage'[u] \in {"publishing", "ended"}
                         /\ stage[u] = "ended" => stage'[u] = "ended"
    BY DEF TInv, TypeOK, QuietStep, Refuse, Ask, AnswerOnce, Unusable, AnswerResearch, AnswerClaims,
           AnswerClustering, PublishItem, PublishItemRaises, ItemsOver, Ends, Goes
  <2> QED
    BY <1>0, <2>1 DEF TInv, ClusterInv, OneEntryPerArticle, Left, clusterVars
<1> USE DEF TInv, TypeOK, Ends, Goes
<1>3. CASE Refuse(t)
  <2>1. PICK o \in {"failed", "completed", "raised"} : Ends(t, o)
    BY <1>3, RefusalsType DEF Refuse
  <2> QED
    BY <1>0, <1>1, <1>2, <1>3, <2>1 DEF Refuse, clusterVars
<1>4. CASE Ask(t)
  BY <1>0, <1>1, <1>2, <1>4 DEF Ask, Forms, ResearchForms, VerificationForms, clusterVars
<1>5. CASE AnswerOnce(t)
  <2>1. PICK o \in {"failed", "completed", "raised"} : Ends(t, o)
    BY <1>5 DEF AnswerOnce, Outcome, Replies, TextOutcome, OneTry, VerificationOutcome, SummaryOutcome,
       ReportOutcome, ContextOutcome, SecurityOutcome
  <2> QED
    BY <1>0, <1>1, <1>2, <1>5, <2>1 DEF AnswerOnce, clusterVars
<1>6. CASE Unusable(t)
  BY <1>0, <1>1, <1>2, <1>6 DEF Unusable, clusterVars
<1>7. CASE AnswerResearch(t)
  BY <1>0, <1>1, <1>2, <1>7 DEF AnswerResearch, Reads, clusterVars
<1>8. CASE AnswerClaims(t)
  <2>1. PICK n \in 0 .. MaxItems : \E k \in 0 .. n :
          /\ Reads(t, n, k, TRUE)
          /\ IF k = n THEN Goes(t, "publishing") /\ UNCHANGED out ELSE Ends(t, "failed")
    BY <1>8 DEF AnswerClaims
  <2>2. /\ items' \in [Tasks -> Nat] /\ sound' \in [Tasks -> Nat] /\ fits' \subseteq Tasks
        /\ UNCHANGED <<agent, form, sent, faults, changing>>
        /\ agent = "claims" /\ stage[t] = "asking"
    BY <1>0, <1>8, <2>1 DEF AnswerClaims, Reads, clusterVars
  <2>3. CASE Goes(t, "publishing") /\ UNCHANGED out
    BY <1>1, <1>2, <2>2, <2>3
  <2>4. CASE Ends(t, "failed")
    BY <1>1, <1>2, <2>2, <2>4
  <2> QED
    BY <2>1, <2>3, <2>4
<1>9. CASE AnswerClustering(t) /\ UNCHANGED clusterVars /\ \E o \in {"completed", "raised"} : Ends(t, o)
  BY <1>0, <1>1, <1>2, <1>9 DEF AnswerClustering, clusterVars
<1>10. CASE PublishItem(t)
  BY <1>0, <1>1, <1>2, <1>10 DEF PublishItem, clusterVars
<1>11. CASE PublishItemRaises(t)
  BY <1>0, <1>1, <1>2, <1>11 DEF PublishItemRaises, clusterVars
<1>12. CASE ItemsOver(t)
  BY <1>0, <1>1, <1>2, <1>12 DEF ItemsOver, clusterVars
<1> QED
  BY <1>3, <1>4, <1>5, <1>6, <1>7, <1>8, <1>9, <1>10, <1>11, <1>12 DEF QuietStep

\* An answer that changes a cluster leaves the task publishing it.
LEMMA ChangeTypes ==
  ASSUME TypeOK, ClusterTypeOK', NEW t \in Tasks, NEW c \in Tasks,
         AnswerClustering(t), Goes(t, "publishing"), UNCHANGED out,
         changing' = [changing EXCEPT ![t] = c]
  PROVE  TypeOK'
<1>1. /\ agent = "clustering" /\ stage[t] = "asking"
      /\ UNCHANGED <<agent, form, items, sound, sent, out, faults>>
      /\ fits' \subseteq Tasks
  BY DEF AnswerClustering, TypeOK
<1>2. /\ stage' \in [Tasks -> {"idle", "asking", "publishing", "ended"}]
      /\ \A u \in Tasks : u # t => stage'[u] = stage[u] /\ changing'[u] = changing[u]
      /\ stage'[t] = "publishing" /\ changing'[t] = c
  BY DEF TypeOK, ClusterTypeOK, Goes
<1>3. \A u \in Tasks : out'[u] = "none" <=> stage'[u] # "ended"
  BY <1>1, <1>2 DEF TypeOK
<1>4. \A u \in Tasks : changing'[u] # None <=> agent' = "clustering" /\ stage'[u] = "publishing"
  BY <1>1, <1>2, NoneAssumption DEF TypeOK
<1> QED
  BY <1>1, <1>2, <1>3, <1>4 DEF TypeOK

\* What a cluster had left behind stays, and is no more.
LEMMA LeftStays ==
  ASSUME halfway' = halfway, NEW c
  PROVE  Left(c)' = Left(c)
BY DEF Left

\* Tasks are finitely many.
LEMMA LeftCounts ==
  ASSUME NEW c
  PROVE  IsFiniteSet(Left(c)) /\ Cardinality(Left(c)) \in Nat
<1>1. Left(c) \subseteq Tasks
  BY DEF Left
<1> QED
  BY <1>1, FiniteAssumption, FS_Subset, FS_CardinalityType

LEMMA CreateTypes ==
  ASSUME TInv, NEW t \in Tasks, AnswerClustering(t), Create(t), Goes(t, "publishing"),
         UNCHANGED out
  PROVE  TInv'
<1> USE ArticleAssumption, NoneAssumption DEF TInv, TypeOK, ClusterTypeOK, ClusterInv, Goes
<1>1. /\ agent = "clustering" /\ stage[t] = "asking" /\ arts[t] = {}
      /\ UNCHANGED <<agent, form, items, sound, sent, out, faults>>
      /\ fits' \subseteq Tasks
  BY DEF AnswerClustering
<1>2. /\ arts' = [arts EXCEPT ![t] = {articleOf[t]}]
      /\ entries' = [entries EXCEPT ![t] = 1]
      /\ changing' = [changing EXCEPT ![t] = t]
      /\ payload' = [payload EXCEPT ![t] = {articleOf[t]}]
      /\ UNCHANGED <<announced, spoilt, halfway>>
  BY DEF Create, Announce
<1>3. IsFiniteSet({articleOf[t]}) /\ Cardinality({articleOf[t]}) = 1
  BY FS_Singleton
<1>4. ClusterTypeOK'
  <2>1. arts' \in [Tasks -> SUBSET Articles] /\ payload' \in [Tasks -> SUBSET Articles]
    BY <1>2
  <2>2. entries' \in [Tasks -> Nat] /\ changing' \in [Tasks -> Tasks \cup {None}]
    BY <1>2
  <2> QED
    BY <1>2, <2>1, <2>2
<1>5. OneEntryPerArticle'
  <2>1. entries[t] + Cardinality(Left(t)) = 0
    BY <1>1, FS_EmptySet DEF OneEntryPerArticle
  <2>2. Cardinality(Left(t)) = 0
    BY <2>1, LeftCounts
  <2> SUFFICES ASSUME NEW c \in Tasks
               PROVE  entries'[c] + Cardinality(Left(c)) = Cardinality(arts'[c])
    BY <1>2, LeftStays DEF OneEntryPerArticle
  <2>3. CASE c = t
    BY <1>2, <1>3, <2>2, <2>3
  <2>4. CASE c # t
    BY <1>2, <2>4 DEF OneEntryPerArticle
  <2> QED
    BY <2>3, <2>4
<1>6. ClusterInv'
  <2>1. \A u, c \in Tasks : <<u, c>> \in halfway => stage'[u] = "ended"
    BY <1>1
  <2> QED
    BY <1>1, <1>2, <1>3, <1>5, <2>1
<1>7. TypeOK'
  BY <1>2, <1>4, ChangeTypes
<1> QED
  BY <1>6, <1>7

\* One article more for a cluster.
LEMMA AddCounts ==
  ASSUME TInv, NEW c \in Clusters, NEW a, a \notin arts[c]
  PROVE  /\ IsFiniteSet(arts[c] \cup {a})
         /\ Cardinality(arts[c] \cup {a}) = entries[c] + Cardinality(Left(c)) + 1
<1>1. IsFiniteSet(arts[c]) /\ entries[c] + Cardinality(Left(c)) = Cardinality(arts[c])
  BY DEF TInv, ClusterInv, OneEntryPerArticle, Clusters
<1> QED
  BY <1>1, FS_AddElement

LEMMA AddTypes ==
  ASSUME TInv, NEW t \in Tasks, NEW c \in Clusters, AnswerClustering(t), AddTo(t, c),
         Goes(t, "publishing"), UNCHANGED out
  PROVE  TInv'
<1> USE ArticleAssumption, NoneAssumption DEF TInv, TypeOK, ClusterTypeOK, ClusterInv, Goes
<1>1. c \in Tasks /\ arts[c] # {} /\ stage[t] = "asking"
  BY DEF AnswerClustering, Clusters
<1>2. /\ arts' = [arts EXCEPT ![c] = arts[c] \cup {articleOf[t]}]
      /\ entries' = [entries EXCEPT ![c] = @ + 1]
      /\ changing' = [changing EXCEPT ![t] = c]
      /\ payload' = [payload EXCEPT ![t] = arts[c] \cup {articleOf[t]}]
      /\ UNCHANGED <<announced, spoilt, halfway>>
      /\ articleOf[t] \notin arts[c]
  BY DEF AddTo, Announce
<1>3. /\ IsFiniteSet(arts[c] \cup {articleOf[t]})
      /\ Cardinality(arts[c] \cup {articleOf[t]}) = entries[c] + Cardinality(Left(c)) + 1
  BY <1>2, AddCounts
<1>4. ClusterTypeOK'
  <2>1. arts' \in [Tasks -> SUBSET Articles] /\ payload' \in [Tasks -> SUBSET Articles]
    BY <1>1, <1>2
  <2>2. entries' \in [Tasks -> Nat] /\ changing' \in [Tasks -> Tasks \cup {None}]
    BY <1>1, <1>2
  <2> QED
    BY <1>2, <2>1, <2>2
<1>5. OneEntryPerArticle'
  <2> SUFFICES ASSUME NEW d \in Tasks
               PROVE  entries'[d] + Cardinality(Left(d)) = Cardinality(arts'[d])
    BY <1>2, LeftStays DEF OneEntryPerArticle
  <2>1. CASE d = c
    BY <1>2, <1>3, <2>1, LeftCounts
  <2>2. CASE d # c
    BY <1>2, <2>2 DEF OneEntryPerArticle
  <2> QED
    BY <2>1, <2>2
<1>6. ClusterInv'
  <2>1. \A u, d \in Tasks : <<u, d>> \in halfway => stage'[u] = "ended"
    BY <1>1
  <2> QED
    BY <1>1, <1>2, <1>3, <1>5, <2>1
<1>7. TypeOK'
  BY <1>1, <1>2, <1>4, ChangeTypes
<1> QED
  BY <1>6, <1>7

LEMMA HalfwayTypes ==
  ASSUME TInv, NEW t \in Tasks, NEW c \in Clusters, AnswerClustering(t), AddHalfway(t, c),
         Ends(t, "raised")
  PROVE  TInv'
<1> USE ArticleAssumption, NoneAssumption DEF TInv, TypeOK, ClusterTypeOK, ClusterInv
<1>1. /\ c \in Tasks /\ arts[c] # {} /\ agent = "clustering" /\ stage[t] = "asking"
      /\ UNCHANGED <<agent, form, items, sound, sent, faults>>
      /\ fits' \subseteq Tasks
  BY DEF AnswerClustering, Clusters
<1>2. /\ arts' = [arts EXCEPT ![c] = arts[c] \cup {articleOf[t]}]
      /\ halfway' = halfway \cup {<<t, c>>}
      /\ UNCHANGED <<entries, changing, payload, announced, spoilt>>
      /\ articleOf[t] \notin arts[c]
      /\ stage' = [stage EXCEPT ![t] = "ended"] /\ out' = [out EXCEPT ![t] = "raised"]
  BY DEF AddHalfway, Ends, Goes
<1>3. /\ IsFiniteSet(arts[c] \cup {articleOf[t]})
      /\ Cardinality(arts[c] \cup {articleOf[t]}) = entries[c] + Cardinality(Left(c)) + 1
  BY <1>2, AddCounts
<1>4. ClusterTypeOK'
  BY <1>1, <1>2
<1>5. OneEntryPerArticle'
  <2> SUFFICES ASSUME NEW d \in Tasks
               PROVE  entries[d] + Cardinality(Left(d)') = Cardinality(arts'[d])
    BY <1>2 DEF OneEntryPerArticle
  <2>1. CASE d = c
    <3>1. Left(d)' = Left(c) \cup {t} /\ t \notin Left(c)
      BY <1>1, <1>2, <2>1 DEF Left
    <3>2. IsFiniteSet(Left(c))
      BY LeftCounts
    <3>3. Cardinality(Left(c) \cup {t}) = Cardinality(Left(c)) + 1
      BY ONLY <3>1, <3>2, FS_AddElement
    <3>4. Cardinality(Left(d)') = Cardinality(Left(c)) + 1
      BY ONLY <3>1, <3>3
    <3> QED
      BY <1>1, <1>2, <1>3, <2>1, <3>4, LeftCounts
  <2>2. CASE d # c
    <3>1. Left(d)' = Left(d)
      BY <1>2, <2>2 DEF Left
    <3> QED
      BY <1>2, <2>2, <3>1 DEF OneEntryPerArticle
  <2> QED
    BY <2>1, <2>2
<1>6. ClusterInv'
  BY <1>1, <1>2, <1>3, <1>5
<1>7. TypeOK'
  BY <1>1, <1>2, <1>4
<1> QED
  BY <1>6, <1>7

LEMMA PublishTypes ==
  ASSUME TInv, NEW t \in Tasks, PublishCluster(t) \/ PublishClusterRaises(t)
  PROVE  TInv'
<1> USE NoneAssumption, MaxAssumption
<1>1. /\ agent = "clustering" /\ stage[t] = "publishing"
      /\ changing[t] \in Tasks
      /\ UNCHANGED <<agent, form, items, sound, fits, sent, arts, entries, payload, halfway>>
      /\ changing' = [changing EXCEPT ![t] = None]
  BY DEF PublishCluster, PublishClusterRaises, Accepted, Refused, TInv, TypeOK, ClusterTypeOK
<1>2. /\ announced' \in [Tasks -> SUBSET Articles]
      /\ spoilt' \subseteq Tasks \X Tasks
      /\ faults' \in 0 .. MaxFaults
  <2>1. CASE PublishCluster(t)
    BY <1>1, <2>1 DEF PublishCluster, Accepted, TInv, TypeOK, ClusterTypeOK
  <2>2. CASE PublishClusterRaises(t)
    BY <1>1, <2>2 DEF PublishClusterRaises, Refused, TInv, TypeOK, ClusterTypeOK
  <2> QED
    BY <2>1, <2>2
<1>3. PICK o \in {"completed", "failed", "raised"} :
        /\ stage' = [stage EXCEPT ![t] = "ended"]
        /\ out' = [out EXCEPT ![t] = o]
  BY DEF PublishCluster, PublishClusterRaises, Ends, Goes
<1>4. ClusterTypeOK'
  BY <1>1, <1>2 DEF TInv, TypeOK, ClusterTypeOK
<1>5. ClusterInv'
  BY <1>1, <1>3 DEF TInv, ClusterInv, OneEntryPerArticle, Left, TypeOK
<1>6. /\ \A u \in Tasks : out'[u] = "none" <=> stage'[u] # "ended"
      /\ \A u \in Tasks : changing'[u] # None <=> agent = "clustering" /\ stage'[u] = "publishing"
  BY <1>1, <1>3 DEF TInv, TypeOK, ClusterTypeOK
<1>7. TypeOK'
  BY <1>1, <1>2, <1>3, <1>4, <1>6 DEF TInv, TypeOK
<1> QED
  BY <1>5, <1>7 DEF TInv

LEMMA TypesStep == TInv /\ [Next]_vars => TInv'
<1> SUFFICES ASSUME TInv, [Next]_vars PROVE TInv'
  OBVIOUS
<1>1. CASE UNCHANGED vars
  BY <1>1 DEF vars, taskVars, clusterVars, TInv, TypeOK, ClusterTypeOK, ClusterInv, OneEntryPerArticle, Left
<1>2. ASSUME NEW t \in Tasks, QuietStep(t) PROVE TInv'
  BY <1>2, QuietTypes
<1>3. ASSUME NEW t \in Tasks, ClusterStep(t) PROVE TInv'
  BY <1>3, CreateTypes, AddTypes, HalfwayTypes, PublishTypes DEF ClusterStep
<1> QED
  BY <1>1, <1>2, <1>3, NextSplits

LEMMA AlwaysTInv == Spec => []TInv
  BY InitTypes, TypesStep, PTL DEF Spec

\* Types; a task publishes a cluster exactly while it has changed one.
THEOREM TypeCorrect == Spec => []TypeOK
<1>1. TInv => TypeOK
  BY DEF TInv
<1> QED
  BY <1>1, AlwaysTInv, PTL

\* "if article_id not in cluster.article_ids" (news-clustering-agent/agent.py:146): a
\* cluster has one entry in its timeline for each of its articles, whatever tasks with
\* the same article do meanwhile, and none for each that was left there by a task that
\* raised after the append (:147).
THEOREM TimelineMatchesArticles == Spec => []OneEntryPerArticle
<1>1. TInv => OneEntryPerArticle
  BY DEF TInv, ClusterInv
<1> QED
  BY <1>1, AlwaysTInv, PTL

-----------------------------------------------------------------------------
(* Clusters and their events. *)

\* What failed to announce its cluster has ended, and keeps the payload it had.
SpoiltInv == \A t, c \in Tasks : <<t, c>> \in spoilt => stage[t] = "ended"

CInv == TInv /\ SpoiltInv /\ ClustersAreAnnounced

LEMMA InitClusters == Init => CInv
BY InitTypes DEF Init, ClusterInit, CInv, SpoiltInv, ClustersAreAnnounced, Clusters

LEMMA EndedStays ==
  ASSUME TypeOK, NEW t \in Tasks, ClusterStep(t) \/ QuietStep(t), NEW u \in Tasks, stage[u] = "ended"
  PROVE  stage'[u] = "ended"
BY DEF TypeOK, ClusterStep, QuietStep, Refuse, Ask, AnswerOnce, Unusable, AnswerResearch, AnswerClaims,
       AnswerClustering, PublishItem, PublishItemRaises, ItemsOver, PublishCluster,
       PublishClusterRaises, Ends, Goes

LEMMA QuietClusters == ASSUME CInv, NEW t \in Tasks, QuietStep(t) PROVE CInv'
<1>1. UNCHANGED clusterVars
  BY QuietKeepsClusters
<1>2. TInv' /\ TInv
  BY QuietTypes DEF CInv
<1>3. SpoiltInv'
  BY <1>1, <1>2, EndedStays DEF CInv, SpoiltInv, clusterVars, TInv
<1> QED
  BY <1>1, <1>2, <1>3 DEF CInv, ClustersAreAnnounced, Clusters, clusterVars

\* A task that changes a cluster announces all of its articles, and takes no witness
\* away: it published nothing before.
LEMMA ChangeAnnounces ==
  ASSUME CInv, NEW t \in Tasks, stage[t] = "asking", NEW c \in Tasks, NEW A,
         \A d \in Clusters' : d = c \/ d \in Clusters,
         arts' = [arts EXCEPT ![c] = A], Announce(t, c, A), UNCHANGED <<announced, spoilt, halfway>>
  PROVE  ClustersAreAnnounced'
<1> USE DEF CInv, TInv, TypeOK, ClusterTypeOK
<1>1. changing'[t] = c /\ payload'[t] = A /\ changing[t] = None
  BY DEF Announce
<1>2. \A u \in Tasks : u # t => changing'[u] = changing[u] /\ payload'[u] = payload[u]
  BY DEF Announce
<1>3. \A d \in Tasks : <<t, d>> \notin spoilt
  BY DEF SpoiltInv
<1>a. UNCHANGED <<announced, spoilt, halfway>>
  OBVIOUS
<1>b. ClustersAreAnnounced
  OBVIOUS
<1> SUFFICES ASSUME NEW d \in Clusters', NEW a \in arts'[d]
             PROVE  \/ a \in announced[d]
                    \/ \E u \in Tasks : changing'[u] = d /\ a \in payload'[u]
                    \/ \E u \in Tasks : <<u, d>> \in spoilt /\ a \in payload'[u]
                    \/ \E u \in Tasks : <<u, d>> \in halfway /\ a = articleOf[u]
  <2> HIDE DEF CInv, TInv, TypeOK, ClusterTypeOK
  <2> QED
    BY <1>a, Zenon DEF ClustersAreAnnounced
<1>4. CASE d = c
  BY <1>1, <1>4
<1>5. CASE d # c
  <2>1. d \in Clusters /\ d \in Tasks /\ a \in arts[d]
    BY <1>5 DEF Clusters
  <2>2. \/ a \in announced[d]
        \/ \E u \in Tasks : changing[u] = d /\ a \in payload[u]
        \/ \E u \in Tasks : <<u, d>> \in spoilt /\ a \in payload[u]
        \/ \E u \in Tasks : <<u, d>> \in halfway /\ a = articleOf[u]
    <3> HIDE DEF CInv, TInv, TypeOK, ClusterTypeOK
    <3> QED
      BY <1>b, <2>1, Zenon DEF ClustersAreAnnounced
  <2>3. d # None
    BY <2>1, NoneAssumption
  <2> QED
    BY <1>1, <1>2, <1>3, <2>1, <2>2, <2>3
<1> QED
  BY <1>4, <1>5

LEMMA CreateClusters ==
  ASSUME CInv, NEW t \in Tasks, AnswerClustering(t), Create(t), Goes(t, "publishing"), UNCHANGED out
  PROVE  CInv'
<1>1. TInv' /\ TInv
  BY CreateTypes DEF CInv
<1>2. stage[t] = "asking" /\ arts[t] = {}
  BY <1>1 DEF AnswerClustering, TInv, TypeOK, ClusterTypeOK, ClusterInv
<1>3. SpoiltInv'
  BY <1>2 DEF CInv, SpoiltInv, Create, Goes, TInv, TypeOK
<1>4. \A d \in Clusters' : d = t \/ d \in Clusters
  BY <1>1 DEF Create, Clusters, TInv, TypeOK, ClusterTypeOK
<1>5. ClustersAreAnnounced'
  BY <1>2, <1>4, ChangeAnnounces DEF Create
<1> QED
  BY <1>1, <1>3, <1>5 DEF CInv

LEMMA AddClusters ==
  ASSUME CInv, NEW t \in Tasks, NEW c \in Clusters, AnswerClustering(t), AddTo(t, c),
         Goes(t, "publishing"), UNCHANGED out
  PROVE  CInv'
<1>1. TInv' /\ TInv
  BY AddTypes DEF CInv
<1>2. stage[t] = "asking" /\ c \in Tasks
  BY DEF AnswerClustering, Clusters
<1>3. SpoiltInv'
  BY <1>2 DEF CInv, SpoiltInv, AddTo, Goes, TInv, TypeOK
<1>4. Clusters' = Clusters
  BY <1>1 DEF AddTo, Clusters, TInv, TypeOK, ClusterTypeOK
<1>5. ClustersAreAnnounced'
  BY <1>2, <1>4, ChangeAnnounces DEF AddTo
<1> QED
  BY <1>1, <1>3, <1>5 DEF CInv

\* A task that raises halfway is the witness of the article it leaves.
LEMMA HalfwayClusters ==
  ASSUME CInv, NEW t \in Tasks, NEW c \in Clusters, AnswerClustering(t), AddHalfway(t, c),
         Ends(t, "raised")
  PROVE  CInv'
<1>1. TInv' /\ TInv
  BY HalfwayTypes DEF CInv
<1>2. /\ c \in Tasks
      /\ arts' = [arts EXCEPT ![c] = arts[c] \cup {articleOf[t]}]
      /\ halfway' = halfway \cup {<<t, c>>}
      /\ UNCHANGED <<changing, payload, announced, spoilt>>
      /\ stage' = [stage EXCEPT ![t] = "ended"]
  BY DEF AddHalfway, Clusters, Ends, Goes
<1>3. SpoiltInv'
  BY <1>1, <1>2 DEF CInv, SpoiltInv, TInv, TypeOK
<1>4. ClustersAreAnnounced'
  <2> SUFFICES ASSUME NEW d \in Clusters', NEW a \in arts'[d]
               PROVE  \/ a \in announced[d]
                      \/ \E u \in Tasks : changing[u] = d /\ a \in payload[u]
                      \/ \E u \in Tasks : <<u, d>> \in spoilt /\ a \in payload[u]
                      \/ \E u \in Tasks : <<u, d>> \in halfway' /\ a = articleOf[u]
    BY <1>2 DEF ClustersAreAnnounced
  <2>1. CASE d = c /\ a = articleOf[t]
    BY <1>2, <2>1
  <2>2. CASE ~(d = c /\ a = articleOf[t])
    <3>1. d \in Clusters /\ a \in arts[d]
      BY <1>1, <1>2, <2>2 DEF Clusters, TInv, TypeOK, ClusterTypeOK
    <3> QED
      BY <1>2, <3>1 DEF CInv, ClustersAreAnnounced
  <2> QED
    BY <2>1, <2>2
<1> QED
  BY <1>1, <1>3, <1>4 DEF CInv

LEMMA PublishClusters ==
  ASSUME CInv, NEW t \in Tasks, PublishCluster(t) \/ PublishClusterRaises(t)
  PROVE  CInv'
<1> DEFINE e == changing[t]
<1>1. TInv' /\ TInv
  BY PublishTypes DEF CInv
<1>2. /\ UNCHANGED <<arts, payload, halfway>> /\ stage[t] = "publishing" /\ agent = "clustering"
      /\ stage' = [stage EXCEPT ![t] = "ended"] /\ changing' = [changing EXCEPT ![t] = None]
  BY DEF PublishCluster, PublishClusterRaises, Accepted, Refused, Ends, Goes
<1>3. e \in Tasks
  BY <1>1, <1>2 DEF TInv, TypeOK, ClusterTypeOK
<1>4. /\ spoilt \subseteq spoilt' /\ spoilt' \subseteq spoilt \cup {<<t, e>>}
      /\ \A d \in Tasks : announced[d] \subseteq announced'[d]
      /\ payload[t] \subseteq announced'[e] \/ <<t, e>> \in spoilt'
  BY <1>1, <1>3 DEF PublishCluster, PublishClusterRaises, Accepted, Refused, TInv, TypeOK, ClusterTypeOK
<1>5. SpoiltInv'
  <2>1. \A u \in Tasks : stage[u] = "ended" \/ u = t => stage'[u] = "ended"
    BY <1>1, <1>2 DEF TInv, TypeOK
  <2> QED
    BY <1>4, <2>1 DEF CInv, SpoiltInv
<1>6. ClustersAreAnnounced'
  <2> SUFFICES ASSUME NEW d \in Clusters, NEW a \in arts[d]
               PROVE  \/ a \in announced'[d]
                      \/ \E u \in Tasks : changing'[u] = d /\ a \in payload[u]
                      \/ \E u \in Tasks : <<u, d>> \in spoilt' /\ a \in payload[u]
                      \/ \E u \in Tasks : <<u, d>> \in halfway /\ a = articleOf[u]
    BY <1>2 DEF ClustersAreAnnounced, Clusters
  <2>1. d \in Tasks
    BY DEF Clusters
  <2>2. CASE a \in announced[d] \/ \E u \in Tasks : <<u, d>> \in spoilt /\ a \in payload[u]
    BY <1>4, <2>1, <2>2
  <2>3. ASSUME NEW u \in Tasks, changing[u] = d, a \in payload[u], u # t
        PROVE  changing'[u] = d /\ a \in payload[u]
    BY <1>1, <1>2, <2>3 DEF TInv, TypeOK, ClusterTypeOK
  <2>4. CASE d = e /\ a \in payload[t]
    BY <1>4, <2>4
  <2> QED
    BY <2>2, <2>3, <2>4 DEF CInv, ClustersAreAnnounced
<1> QED
  BY <1>1, <1>5, <1>6 DEF CInv

LEMMA ClustersStep == CInv /\ [Next]_vars => CInv'
<1> SUFFICES ASSUME CInv, [Next]_vars PROVE CInv'
  OBVIOUS
<1>1. CASE UNCHANGED vars
  BY <1>1, TypesStep DEF vars, taskVars, clusterVars, CInv, SpoiltInv, ClustersAreAnnounced, Clusters
<1>2. ASSUME NEW t \in Tasks, QuietStep(t) PROVE CInv'
  BY <1>2, QuietClusters
<1>3. ASSUME NEW t \in Tasks, ClusterStep(t) PROVE CInv'
  BY <1>3, CreateClusters, AddClusters, HalfwayClusters, PublishClusters DEF ClusterStep
<1> QED
  BY <1>1, <1>2, <1>3, NextSplits

LEMMA AlwaysCInv == Spec => []CInv
  BY InitClusters, ClustersStep, PTL DEF Spec

\* "Publish event updated" (news-clustering-agent/agent.py:157): every article of every
\* cluster is shown by an event, is in one under way, or was left by a task that raised
\* while it published it or between the append (:147) and the publication, in whatever
\* order the tasks that share the cluster change and announce it.
THEOREM ArticlesAreAnnounced == Spec => []ClustersAreAnnounced
<1>1. CInv => ClustersAreAnnounced
  BY DEF CInv
<1> QED
  BY <1>1, AlwaysCInv, PTL

-----------------------------------------------------------------------------
(* Items. *)

\* Before the answer there are no items; of claims, the items that are published all
\* fit; what is sent fits.
ItemInv ==
  \A t \in Tasks :
    /\ stage[t] \in {"idle", "asking"} \/ agent \notin {"research", "claims"} =>
         sent[t] = 0 /\ items[t] = 0 /\ sound[t] = 0
    /\ sent[t] <= sound[t] /\ sound[t] <= items[t]
    /\ agent = "claims" /\ stage[t] = "publishing" => sound[t] = items[t]
    /\ agent = "claims" /\ sound[t] < items[t] => sent[t] = 0
    /\ out[t] = "completed" => sent[t] = items[t]

LEMMA InitItems == Init => ItemInv
BY DEF Init, ItemInv

LEMMA ClusterStepItems == ASSUME ItemInv, NEW t \in Tasks, ClusterStep(t) PROVE ItemInv'
BY DEF ItemInv, ClusterStep, AnswerClustering, PublishCluster, PublishClusterRaises

LEMMA QuietItems == ASSUME TypeOK, ItemInv, NEW t \in Tasks, QuietStep(t) PROVE ItemInv'
<1> USE DEF TypeOK, ItemInv, Ends, Goes
<1>1. CASE Refuse(t)
  BY <1>1 DEF Refuse
<1>2. CASE Ask(t)
  BY <1>2 DEF Ask
<1>3. CASE AnswerOnce(t)
  BY <1>3 DEF AnswerOnce
<1>4. CASE Unusable(t)
  BY <1>4 DEF Unusable
<1>5. CASE AnswerResearch(t)
  BY <1>5, MaxAssumption DEF AnswerResearch, Reads
<1>6. CASE AnswerClaims(t)
  BY <1>6, MaxAssumption DEF AnswerClaims, Reads
<1>7. CASE AnswerClustering(t) /\ UNCHANGED clusterVars /\ \E o \in {"completed", "raised"} : Ends(t, o)
  BY <1>7 DEF AnswerClustering
<1>8. CASE PublishItem(t)
  BY <1>8 DEF PublishItem
<1>9. CASE PublishItemRaises(t)
  BY <1>9 DEF PublishItemRaises
<1>10. CASE ItemsOver(t)
  BY <1>10 DEF ItemsOver
<1> QED
  BY <1>1, <1>2, <1>3, <1>4, <1>5, <1>6, <1>7, <1>8, <1>9, <1>10 DEF QuietStep

\* A task that reports completed has announced every item of its answer, and of an
\* answer with a claim that does not fit none is announced (research-agent/agent.py:
\* 157-197, news-claim-agent/agent.py:142-195).
THEOREM ReportsFit == Spec => []AnnouncedFitsReport
<1>1. Init => ItemInv
  BY InitItems
<1>2. TypeOK /\ ItemInv /\ [Next]_vars => ItemInv'
  <2>1. ASSUME ItemInv, UNCHANGED vars PROVE ItemInv'
    BY <2>1 DEF ItemInv, vars, taskVars
  <2> QED
    BY <2>1, NextSplits, ClusterStepItems, QuietItems
<1>3. ItemInv => AnnouncedFitsReport
  BY DEF ItemInv, AnnouncedFitsReport
<1> QED
  BY <1>1, <1>2, <1>3, TypeCorrect, PTL DEF Spec
=============================================================================
