---- MODULE PlannerMemory ----
(***************************************************************************)
(* What a planner may do with retrieved lessons: conflict sets over the    *)
(* retrieved records, the selection record, the post-planning check of a   *)
(* memory-influenced plan, the attribution of the outcome to the lessons,  *)
(* the ranking feedback derived from it and the lesson relationship graph. *)
(*                                                                         *)
(* A feedback item overrides the defaults the attribution fills in, so it  *)
(* is modelled with "default" where the caller leaves a field out.         *)
(* Weights are counted in tenths.                                          *)
(***************************************************************************)
EXTENDS Integers, Sequences, FiniteSets, FiniteSetsExt, Functions

CONSTANTS Retrievable,  \* [id, key, relation]: records retrieval may return
          Blank,        \* the empty conflict key
          Selections,   \* [used, ignored, effect, reason]: what callers record
          Contexts,     \* task contexts; distinct contexts have distinct fingerprints
          Items,        \* feedback items as callers pass them
          Profiles,     \* sealed and planned profiles
          Plans,        \* [used, effects, reason, delta, fields, source, memoryIds]
          Edges,        \* lesson relationship edges
          MaxRetrieved, MaxItems, MaxRecords

VARIABLES retrieved, conflicts, selections, verdicts, attributions, gates, graph

vars == <<retrieved, conflicts, selections, verdicts, attributions, gates, graph>>

MemoryAllowedEffects == {"planner_hint", "retrieval_ranking", "composer_candidate_bias"}

FeedbackEffects == {"ranking_adjustment", "planner_hint_adjustment"}

MaxWeightDelta == 2

ProfileAuthorityFields == {"tools", "knowledge_scopes", "memory_scopes", "data_scopes",
                           "policies", "validators", "limits", "failure_policy"}

Relations == {"reinforces", "contradicts", "supersedes", "refines", "duplicates"}

RankingEffects == {"promote_related", "demote_superseded", "dedupe_duplicate", "surface_conflict", "none"}

Init ==
    /\ retrieved = <<>> /\ conflicts = {} /\ selections = {} /\ verdicts = {}
    /\ attributions = {} /\ gates = {} /\ graph = <<>>

Keys(records) == {records[i].key : i \in DOMAIN records} \ {Blank}
Grouped(records, key) == {i \in DOMAIN records : records[i].key = key}
Ids(records, key) == {records[i].id : i \in Grouped(records, key)}
\* The last record of a key names the relation.
ConflictSet(records, key) ==
    [key |-> key, ids |-> Ids(records, key), relation |-> records[Max(Grouped(records, key))].relation]

\* The number of records decides instead of the number of lessons.
ConflictSetsMutant(records) ==
    {ConflictSet(records, k) : k \in {k \in Keys(records) : Cardinality(Grouped(records, k)) >= 2}}
Conflicting(records) == {k \in Keys(records) : Cardinality(Ids(records, k)) >= 2}
\* build_lesson_conflict_sets
ConflictSets(records) == {ConflictSet(records, k) : k \in Conflicting(records)}

Retrieve(record) ==
    /\ Len(retrieved) < MaxRetrieved
    /\ retrieved' = Append(retrieved, record)
    /\ conflicts' = ConflictSets(retrieved')
    /\ UNCHANGED <<selections, verdicts, attributions, gates, graph>>

\* validate_planner_memory_selection_record; a reason is "structured", blank or
\* "thought". The builder sets the authority fields itself.
SelectionValid(s) ==
    /\ s.used # {} /\ s.used \cap s.ignored = {}
    /\ s.effect \in MemoryAllowedEffects
    /\ s.reason = "structured"

\* build_planner_memory_selection_record
Select(s) ==
    /\ Len(retrieved) > 0 /\ Cardinality(selections) < MaxRecords
    /\ SelectionValid(s)
    /\ selections' = selections \cup {s}
    /\ UNCHANGED <<retrieved, conflicts, verdicts, attributions, gates, graph>>

\* _runtime_profile_delta_violations
ProfileDelta(profile, planned) == {f \in ProfileAuthorityFields : profile[f] # planned[f]}

\* _memory_effect_violations, _authority_field_violations and
\* _memory_authority_justification_violations find nothing
PlanNonAuthoritative(plan) ==
    /\ plan.effects # {} /\ plan.effects \subseteq MemoryAllowedEffects
    /\ plan.reason # "" /\ plan.delta = {}
    /\ plan.fields = {}
    /\ plan.source \notin {"memory", "procedural_memory", "agent_memory"}
    /\ plan.memoryIds = {}

\* PostPlanningMemoryInvariantValidator.validate
PlanApproved(plan, profile, planned) ==
    plan.used # {} => PlanNonAuthoritative(plan) /\ ProfileDelta(profile, planned) = {}

CheckPlan(plan, profile, planned) ==
    /\ Cardinality(verdicts) < MaxRecords
    /\ verdicts' = verdicts \cup {[plan |-> plan, profile |-> profile, planned |-> planned,
                                   approved |-> PlanApproved(plan, profile, planned)]}
    /\ UNCHANGED <<retrieved, conflicts, selections, attributions, gates, graph>>

\* The defaults of build_lesson_attribution_record under the caller's fields.
Filled(item, context) ==
    [item EXCEPT !.context = IF @ = "default" THEN context ELSE @,
                 !.bound = IF @ = "default" THEN "yes" ELSE @]

\* The fingerprint of an item is not compared.
FeedbackValidMutant(item, context, known) ==
    /\ item.memory \in known /\ item.effect \in FeedbackEffects
    /\ item.delta \in (-MaxWeightDelta)..MaxWeightDelta
    /\ CASE item.direction = "promote" -> item.delta > 0
         [] item.direction = "demote" -> item.delta < 0
         [] item.direction = "neutral" -> item.delta = 0
         [] OTHER -> FALSE
    /\ item.bound = "yes" /\ item.authority = {} /\ item.reason # ""

\* _validate_lesson_ranking_feedback, for one item
FeedbackValid(item, context, known) ==
    /\ item.memory \in known
    /\ item.effect \in FeedbackEffects
    /\ item.delta \in (-MaxWeightDelta)..MaxWeightDelta
    /\ CASE item.direction = "promote" -> item.delta > 0
         [] item.direction = "demote" -> item.delta < 0
         [] item.direction = "neutral" -> item.delta = 0
         [] OTHER -> FALSE
    /\ item.bound = "yes" /\ item.context = context
    /\ item.authority = {} /\ item.reason # ""

\* build_lesson_attribution_record: all items are valid or nothing is recorded.
Attribute(s, context, items) ==
    /\ Cardinality(attributions) < MaxRecords
    /\ SelectionValid(s)
    /\ LET filled == {Filled(item, context) : item \in items}
       IN  /\ \A item \in filled : FeedbackValid(item, context, s.used \cup s.ignored)
           /\ attributions' = attributions \cup
                 {[selection |-> s, context |-> context, feedback |-> filled]}
    /\ UNCHANGED <<retrieved, conflicts, selections, verdicts, gates, graph>>

\* build_lesson_ranking_feedback_gate
BuildGate(a) ==
    /\ \A item \in a.feedback : FeedbackValid(item, a.context, a.selection.used \cup a.selection.ignored)
    /\ gates' = gates \cup {[selection |-> a.selection, context |-> a.context, items |-> a.feedback]}
    /\ UNCHANGED <<retrieved, conflicts, selections, verdicts, attributions, graph>>

\* validate_lesson_relationship_edge
EdgeValid(edge) ==
    /\ edge.source # edge.target
    /\ edge.relation \in Relations /\ edge.ranking \in RankingEffects
    /\ edge.reason # "" /\ edge.evidence = "runtime" /\ edge.authority = {}

\* build_lesson_relationship_graph, the counts per relation
RelationCounts(edges) ==
    [r \in {edges[i].relation : i \in DOMAIN edges} |->
       Cardinality({i \in DOMAIN edges : edges[i].relation = r})]

AddEdge(edge) ==
    /\ Len(graph) < MaxItems
    /\ EdgeValid(edge)
    /\ graph' = Append(graph, edge)
    /\ UNCHANGED <<retrieved, conflicts, selections, verdicts, attributions, gates>>

Next ==
    \/ \E record \in Retrievable : Retrieve(record)
    \/ \E s \in Selections : Select(s)
    \/ \E plan \in Plans, profile \in Profiles, planned \in Profiles : CheckPlan(plan, profile, planned)
    \/ \E s \in selections, context \in Contexts : \E items \in SUBSET Items :
          Cardinality(items) <= MaxItems /\ Attribute(s, context, items)
    \/ \E a \in attributions : BuildGate(a)
    \/ \E edge \in Edges : AddEdge(edge)

Spec == Init /\ [][Next]_vars

-----------------------------------------------------------------------------

\* Two lessons retrieved under one conflict key are shown together to the
\* planner, in one conflict set, and every conflict set needs a choice between
\* at least two lessons of one key (build_lesson_conflict_sets).
ConflictsAreSurfaced ==
    /\ \A i, j \in DOMAIN retrieved :
          retrieved[i].key = retrieved[j].key /\ retrieved[i].key # Blank /\ retrieved[i].id # retrieved[j].id =>
             Cardinality({c \in conflicts : c.key = retrieved[i].key
                                             /\ {retrieved[i].id, retrieved[j].id} \subseteq c.ids}) = 1
    /\ \A c \in conflicts : \E x, y \in c.ids : x # y

\* Feedback that reaches ranking belongs to the selection and the context of
\* its own run, whatever the caller's item overrode: a lesson is not promoted
\* for a context in which it was not seen (build_lesson_attribution_record).
FeedbackIsContextBound ==
    \A g \in gates : \A item \in g.items :
       /\ item.context = g.context /\ item.authority = {}
       /\ item.memory \in g.selection.used \cup g.selection.ignored

\* A plan that uses lessons and is approved keeps the scopes of the sealed
\* profile: it satisfies assert_scope_monotonicity in both directions.
ApprovedPlansKeepScopes ==
    \A v \in verdicts : v.approved /\ v.plan.used # {} =>
       \A f \in {"tools", "knowledge_scopes", "data_scopes", "memory_scopes"} :
          v.planned[f] \subseteq v.profile[f] /\ v.profile[f] \subseteq v.planned[f]

\* The relation counts of the graph account for every edge once.
CountsCoverEdges ==
    LET counts == RelationCounts(graph)
    IN  FoldFunctionOnSet(+, 0, counts, DOMAIN counts) = Len(graph)
====
