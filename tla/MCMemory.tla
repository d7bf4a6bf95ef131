---- MODULE MCMemory ----
(***************************************************************************)
(* The way of a lesson: MemoryPromotion over both stores, and what the     *)
(* planner makes of the lessons it retrieves (PlannerMemory).  Retrieval   *)
(* is Cloudflare's, so the two share no state; scene, chosen at the start, *)
(* says which part moves, and with which store.                            *)
(***************************************************************************)
EXTENDS MemoryPromotion

VARIABLES scene, retrieved, conflicts, selections, verdicts, attributions, gates, graph

plannerVars == <<retrieved, conflicts, selections, verdicts, attributions, gates, graph>>

----
(* Promotion. *)

Lesson == [summary |-> TRUE, extra |-> {}, applicability |-> TRUE, evidence |-> "runtime",
           authoritative |-> FALSE, influence |-> "planner_hint", allowed |-> {"planner_hint"},
           forbidden |-> RequiredForbiddenEffects, language |-> {}, generalization |-> "none",
           prior |-> "none"]

AllContents ==
    {Lesson,
     [Lesson EXCEPT !.language = {"secret"}],
     [Lesson EXCEPT !.extra = {"raw_tool_output"}],
     [Lesson EXCEPT !.forbidden = {}, !.prior = "blocked"]}

SmallContents == {Lesson, [Lesson EXCEPT !.allowed = {"tool_grant"}]}

TwoAuthorities ==
    {[scopes |-> {"project"}, policies |-> {"taxonomy"}],
     [scopes |-> {"tenant"}, policies |-> {"taxonomy"}]}

OneAuthority == {[scopes |-> {"project"}, policies |-> {"taxonomy"}]}

Fact == [step |-> "planner", scope |-> "public", sensitivity |-> "internal", complete |-> TRUE]

SomeProposals == {Fact, [Fact EXCEPT !.sensitivity = "secret"], [Fact EXCEPT !.step = "executor"]}

\* The in-memory store, with two scopes and every way a content may fall short.
InMemory == INSTANCE MemoryPromotion WITH
    Store <- "memory", Scopes <- {"project", "tenant"}, Policies <- {"taxonomy"}, Contents <- AllContents,
    Authorities <- TwoAuthorities, Proposals <- {}

----
(* The planner. *)

SomeRetrievable == {[id |-> "m1", key |-> "k", relation |-> "conflicts"],
                  [id |-> "m2", key |-> "k", relation |-> "contradicts"],
                  [id |-> "m3", key |-> "", relation |-> "conflicts"],
                  [id |-> "m3", key |-> "l", relation |-> "conflicts"]}

SomeSelections ==
    [used : {{}, {"m1"}, {"m1", "m2"}}, ignored : {{}, {"m2"}}, effect : {"planner_hint", "tool_grant"},
     reason : {"structured"}]
      \cup {[used |-> {"m1"}, ignored |-> {}, effect |-> "planner_hint", reason |-> "thought"]}

Promote == [memory |-> "m1", effect |-> "ranking_adjustment", direction |-> "promote", delta |-> 2,
            context |-> "default", bound |-> "default", authority |-> {}, reason |-> "helped"]

SomeItems == {Promote,
            [Promote EXCEPT !.context = "c2"],
            [Promote EXCEPT !.memory = "m2", !.direction = "demote", !.delta = -1],
            [Promote EXCEPT !.delta = 3],
            [Promote EXCEPT !.bound = "no"],
            [Promote EXCEPT !.authority = {"tool"}]}

Lessons == INSTANCE PlannerMemory WITH
    Retrievable <- SomeRetrievable, Blank <- "", Selections <- SomeSelections, Contexts <- {"c1", "c2"}, Items <- SomeItems,
    Profiles <- {}, Plans <- {}, Edges <- {}, MaxRetrieved <- 3, MaxItems <- 2, MaxRecords <- 1

\* Profiles as the planner may leave them, plans, and edges between lessons.
Sealed == [f \in Lessons!ProfileAuthorityFields |-> {"a"}]

SomeProfiles == {Sealed, [Sealed EXCEPT !["data_scopes"] = {"a", "b"}], [Sealed EXCEPT !["limits"] = {"b"}]}

Hint == [used |-> {"m1"}, effects |-> {"planner_hint"}, reason |-> "r", delta |-> {}, fields |-> {},
         source |-> "profile", memoryIds |-> {}]

SomePlans == {Hint, [Hint EXCEPT !.used = {}], [Hint EXCEPT !.fields = {"tool_grants"}],
            [Hint EXCEPT !.source = "memory"]}

Edge == [source |-> "m1", target |-> "m2", relation |-> "contradicts", ranking |-> "surface_conflict",
         reason |-> "r", evidence |-> "runtime", authority |-> {}]

SomeEdges == {Edge, [Edge EXCEPT !.target = "m3"], [Edge EXCEPT !.relation = "refines", !.ranking = "none"],
            [Edge EXCEPT !.target = "m1"]}

Plans == INSTANCE PlannerMemory WITH
    Retrievable <- {}, Blank <- "", Selections <- SomeSelections, Contexts <- {"c1", "c2"}, Items <- SomeItems,
    Profiles <- SomeProfiles, Plans <- SomePlans, Edges <- SomeEdges, MaxRetrieved <- 2, MaxItems <- 3, MaxRecords <- 1

----
MemoryInit ==
    /\ scene \in {"postgres", "memory", "lessons", "plans"}
    /\ IF scene = "memory" THEN InMemory!Init ELSE Init
    /\ Lessons!Init

MemoryNext ==
    \/ scene = "postgres" /\ Next /\ UNCHANGED <<scene, plannerVars>>
    \/ scene = "memory" /\ InMemory!Next /\ UNCHANGED <<scene, plannerVars>>
    \/ scene = "lessons" /\ Lessons!Next /\ UNCHANGED <<scene, vars>>
    \/ scene = "plans" /\ Plans!Next /\ UNCHANGED <<scene, vars>>

MemorySpec == MemoryInit /\ [][MemoryNext]_<<scene, vars, plannerVars>>

----
(* Properties, beside those of MemoryPromotion. *)

\* With the in-memory store nothing is submitted while the latest verdict on
\* its id is a rejection: callers hold the row that the validator updates.
LatestVerdictGoverns == [][scene = "memory" => SubmitsApproved]_vars

\* What the planner is shown leaves nothing out: two lessons retrieved under one
\* conflict key stand in one conflict set, every set asks for a choice between at
\* least two lessons, and the relation counts account for every edge once
\* (build_lesson_conflict_sets, lesson relationship graph).
LessonsAreShown == Lessons!ConflictsAreSurfaced /\ Plans!CountsCoverEdges

\* Lessons stay advice: feedback that reaches ranking belongs to the selection
\* and the context of its own run, whatever the caller's item overrode, and an
\* approved plan that uses lessons keeps the scopes of the sealed profile
\* (build_lesson_attribution_record, assert_scope_monotonicity).
LessonsAreAdvice == Lessons!FeedbackIsContextBound /\ Plans!ApprovedPlansKeepScopes
====
