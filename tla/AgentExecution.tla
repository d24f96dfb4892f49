--------------------------- MODULE AgentExecution ---------------------------
(***************************************************************************)
(* What the agents that ask an LLM make of a task: execute() of the agents *)
(* under src/agents/ but the ingestion agent, between the call by          *)
(* _process_task (module TaskDelivery) and its return. One process of one  *)
(* agent runs several tasks at once; they meet at the awaits on the LLM    *)
(* and on the publisher.                                                   *)
(*                                                                         *)
(* An execution ends completed or failed, as its TaskOutput says, or it    *)
(* raises. Prompts and texts are left out. What the LLM answers is a       *)
(* choice: the call raises, the answer is not JSON (garbled), is JSON that *)
(* does not fit (odd: no object, a value no schema takes), or is sound;    *)
(* the research and claims agents find in it a list of items, the first    *)
(* few of which may be sound although the answer is odd.                   *)
(***************************************************************************)
EXTENDS NewsClustering

CONSTANTS
  Agents,      \* the agents that this process may be one of
  MaxItems,    \* bound: items in one answer
  MaxFaults    \* bound: publications that raise

Kinds == {"research", "claims", "clustering", "verification", "summary", "report",
          "context", "security"}

ASSUME AgentsAssumption == Agents \subseteq Kinds
ASSUME MaxAssumption == MaxItems \in Nat /\ MaxFaults \in Nat

VARIABLES
  agent,     \* the agent this process is (never changes)
  stage,     \* task -> idle, asking, publishing, or ended
  form,      \* task -> json, or text when the answer is not looked into
  items,     \* task -> items in the answer
  sound,     \* task -> leading items that fit their schema
  fits,      \* tasks whose answer fits otherwise
  sent,      \* task -> items the broker has an event of
  out,       \* task -> none, completed, failed, or raised
  faults

taskVars == <<stage, form, items, sound, fits, sent, out>>
vars == <<agent, taskVars, clusterVars, faults>>

Init ==
  /\ agent \in Agents
  /\ stage = [t \in Tasks |-> "idle"]
  /\ form = [t \in Tasks |-> "json"]
  /\ items = [t \in Tasks |-> 0]
  /\ sound = [t \in Tasks |-> 0]
  /\ fits = {}
  /\ sent = [t \in Tasks |-> 0]
  /\ out = [t \in Tasks |-> "none"]
  /\ faults = 0
  /\ ClusterInit

Goes(t, s) == stage' = [stage EXCEPT ![t] = s]
Ends(t, o) == Goes(t, "ended") /\ out' = [out EXCEPT ![t] = o]

-----------------------------------------------------------------------------
(* Before the LLM is asked: how execute may end for what it was given. A     *)
(* capability the agent does not have is answered with failed; an input of   *)
(* another shape raises where the code looks into it.                        *)

ResearchRefusal == {"failed"}                            \* no query
ClaimsRefusal == {"failed", "completed", "raised"}       \* no content: completed
ClusteringRefusal == {"failed", "completed", "raised"}   \* no title: completed
VerificationRefusal == {"failed", "raised"}              \* no claim text
SummaryRefusal == {"failed", "raised"}                   \* no event
ReportRefusal == {"failed"}
ContextRefusal == {"failed", "raised"}
SecurityRefusal == {"failed", "raised"}

Refusals ==
  [research |-> ResearchRefusal, claims |-> ClaimsRefusal, clustering |-> ClusteringRefusal,
   verification |-> VerificationRefusal, summary |-> SummaryRefusal, report |-> ReportRefusal,
   context |-> ContextRefusal, security |-> SecurityRefusal]

Refuse(t) ==
  /\ stage[t] = "idle"
  /\ \E o \in Refusals[agent] : Ends(t, o)
  /\ UNCHANGED <<agent, form, items, sound, fits, sent, clusterVars, faults>>

\* Two capabilities of the research agent and two of the verification agent hand the
\* text of the answer on.
ResearchForms == {"json", "text"}
VerificationForms == {"json", "text"}
Forms == CASE agent = "research" -> ResearchForms
           [] agent = "verification" -> VerificationForms
           [] OTHER -> {"json"}

Ask(t) ==
  /\ stage[t] = "idle"
  /\ Goes(t, "asking")
  /\ \E f \in Forms : form' = [form EXCEPT ![t] = f]
  /\ UNCHANGED <<agent, items, sound, fits, sent, out, clusterVars, faults>>

-----------------------------------------------------------------------------
(* When the LLM has answered. *)

Replies == {"raises", "garbled", "odd", "sound"}

\* complete_simple outside of a try.
TextOutcome == [r \in Replies |-> IF r = "raises" THEN "raised" ELSE "completed"]

\* One try around the call, the parsing and the output.
OneTry == [r \in Replies |-> IF r = "sound" THEN "completed" ELSE "failed"]
VerificationOutcome == OneTry
SummaryOutcome == OneTry
ContextOutcome == OneTry
SecurityOutcome == OneTry

\* The same, but what is not JSON is the report.
ReportOutcome == [r \in Replies |-> IF r \in {"garbled", "sound"} THEN "completed" ELSE "failed"]

Outcome(t) ==
  CASE form[t] = "text" -> TextOutcome
    [] agent = "verification" -> VerificationOutcome
    [] agent = "summary" -> SummaryOutcome
    [] agent = "report" -> ReportOutcome
    [] agent = "context" -> ContextOutcome
    [] OTHER -> SecurityOutcome

AnswerOnce(t) ==
  /\ stage[t] = "asking"
  /\ form[t] = "text" \/ agent \notin {"research", "claims", "clustering"}
  /\ \E r \in Replies : Ends(t, Outcome(t)[r])
  /\ UNCHANGED <<agent, form, items, sound, fits, sent, clusterVars, faults>>

\* Nothing of the answer can be used: the call, the parsing or the object fails.
Unusable(t) ==
  /\ stage[t] = "asking"
  /\ form[t] = "json"
  /\ agent \in {"research", "claims"}
  /\ Ends(t, "failed")
  /\ UNCHANGED <<agent, form, items, sound, fits, sent, clusterVars, faults>>

Reads(t, n, k, ok) ==
  /\ items' = [items EXCEPT ![t] = n]
  /\ sound' = [sound EXCEPT ![t] = k]
  /\ fits' = IF ok THEN fits \cup {t} ELSE fits

\* Research: the items are built and published one by one.
AnswerResearch(t) ==
  /\ agent = "research" /\ form[t] = "json"
  /\ stage[t] = "asking"
  /\ \E n \in 0 .. MaxItems : \E k \in 0 .. n, ok \in BOOLEAN : Reads(t, n, k, ok)
  /\ Goes(t, "publishing")
  /\ UNCHANGED <<agent, form, sent, out, clusterVars, faults>>

\* Claims: all items are built first; the confidence of the output is a constant.
AnswerClaims(t) ==
  /\ agent = "claims"
  /\ stage[t] = "asking"
  /\ \E n \in 0 .. MaxItems : \E k \in 0 .. n :
       /\ Reads(t, n, k, TRUE)
       /\ IF k = n THEN Goes(t, "publishing") /\ UNCHANGED out ELSE Ends(t, "failed")
  /\ UNCHANGED <<agent, form, sent, clusterVars, faults>>

\* Clustering: a call that fails, or an answer that is not JSON, makes a new cluster;
\* an odd answer raises, now or with the confidence of the output at the end.
AnswerClustering(t) ==
  /\ agent = "clustering"
  /\ stage[t] = "asking"
  /\ \/ \* a new story, or no answer
        /\ Create(t)
        /\ Goes(t, "publishing") /\ UNCHANGED out
     \/ \* a cluster there is by now, shown or not, that does not have the article
        /\ \E c \in Clusters : AddTo(t, c)
        /\ Goes(t, "publishing") /\ UNCHANGED out
     \/ \* the same, with an article that no entry takes
        /\ \E c \in Clusters : AddHalfway(t, c)
        /\ Ends(t, "raised")
     \/ \* one that has it, or an id that is unknown: nothing to publish
        /\ \E o \in {"completed", "raised"} : Ends(t, o)
        /\ UNCHANGED clusterVars
  /\ fits' \in {fits, fits \cup {t}}
  /\ UNCHANGED <<agent, form, items, sound, sent, faults>>

-----------------------------------------------------------------------------
(* Publishing. *)

\* Mutant: an item that does not fit is skipped.
ItemsOver_Skips(t) ==
  /\ agent \in {"research", "claims"}
  /\ stage[t] = "publishing"
  /\ sent[t] = sound[t]
  /\ Ends(t, IF t \in fits THEN "completed" ELSE "failed")
  /\ UNCHANGED <<agent, form, items, sound, fits, sent, clusterVars, faults>>

\* Mutant: the end is when all items are published.
ItemsOver_All(t) ==
  /\ agent \in {"research", "claims"}
  /\ stage[t] = "publishing"
  /\ sent[t] = items[t]
  /\ Ends(t, IF t \in fits THEN "completed" ELSE "failed")
  /\ UNCHANGED <<agent, form, items, sound, fits, sent, clusterVars, faults>>

\* The item after those published does not fit, or all are published.
ItemsOver(t) ==
  /\ agent \in {"research", "claims"}
  /\ stage[t] = "publishing"
  /\ sent[t] = sound[t]
  /\ Ends(t, IF sound[t] = items[t] /\ t \in fits THEN "completed" ELSE "failed")
  /\ UNCHANGED <<agent, form, items, sound, fits, sent, clusterVars, faults>>

PublishItem(t) ==
  /\ agent \in {"research", "claims"}
  /\ stage[t] = "publishing"
  /\ sent[t] < sound[t]
  /\ sent' = [sent EXCEPT ![t] = @ + 1]
  /\ UNCHANGED <<agent, stage, form, items, sound, fits, out, clusterVars, faults>>

\* publish raises, before or after the broker has the event.
PublishItemRaises(t) ==
  /\ agent \in {"research", "claims"}
  /\ stage[t] = "publishing"
  /\ sent[t] < sound[t]
  /\ faults < MaxFaults
  /\ faults' = faults + 1
  /\ \E d \in {0, 1} : sent' = [sent EXCEPT ![t] = @ + d]
  /\ Ends(t, "failed")
  /\ UNCHANGED <<agent, form, items, sound, fits, clusterVars>>

PublishCluster(t) ==
  /\ agent = "clustering"
  /\ stage[t] = "publishing"
  /\ Accepted(t)
  /\ Ends(t, IF t \in fits THEN "completed" ELSE "raised")
  /\ UNCHANGED <<agent, form, items, sound, fits, sent, faults>>

PublishClusterRaises(t) ==
  /\ agent = "clustering"
  /\ stage[t] = "publishing"
  /\ faults < MaxFaults
  /\ faults' = faults + 1
  /\ Refused(t)
  /\ Ends(t, "raised")
  /\ UNCHANGED <<agent, form, items, sound, fits, sent>>

-----------------------------------------------------------------------------
Answer(t) ==
  AnswerOnce(t) \/ Unusable(t) \/ AnswerResearch(t) \/ AnswerClaims(t) \/ AnswerClustering(t)
Publishes(t) == PublishItem(t) \/ ItemsOver(t) \/ PublishCluster(t)
GoesOn(t) == Answer(t) \/ Publishes(t)

Next ==
  \E t \in Tasks :
    \/ Refuse(t) \/ Ask(t) \/ GoesOn(t)
    \/ PublishItemRaises(t) \/ PublishClusterRaises(t)

Spec == Init /\ [][Next]_vars

\* The HTTP client of the LLM and the publisher return or raise in the end.
Fairness == \A t \in Tasks : WF_vars(GoesOn(t))

FairSpec == Spec /\ Fairness

-----------------------------------------------------------------------------
(* Properties. *)

\* Types; only clustering changes clusters.
TypeOK ==
  /\ agent \in Kinds
  /\ stage \in [Tasks -> {"idle", "asking", "publishing", "ended"}]
  /\ form \in [Tasks -> {"json", "text"}]
  /\ items \in [Tasks -> Nat]
  /\ sound \in [Tasks -> Nat]
  /\ fits \subseteq Tasks
  /\ sent \in [Tasks -> Nat]
  /\ out \in [Tasks -> {"none", "completed", "failed", "raised"}]
  /\ faults \in 0 .. MaxFaults
  /\ ClusterTypeOK
  /\ \A t \in Tasks : out[t] = "none" <=> stage[t] # "ended"
  /\ \A t \in Tasks : changing[t] # None <=> agent = "clustering" /\ stage[t] = "publishing"

\* What others hear of the items of an answer fits what the task reports: completed
\* means that all were announced (research-agent:157-197, news-claim-agent:142-195), and
\* of an answer with a claim that does not fit, none is (all are built first).
AnnouncedFitsReport ==
  \A t \in Tasks :
    /\ out[t] = "completed" => sent[t] = items[t]
    /\ agent = "claims" /\ sound[t] < items[t] => sent[t] = 0

\* Whatever the LLM answers, an execution that has asked it ends.
EveryTaskEnds == \A t \in Tasks : stage[t] = "asking" ~> stage[t] = "ended"
=============================================================================
