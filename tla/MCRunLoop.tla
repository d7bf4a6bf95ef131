------------------------------ MODULE MCRunLoop ------------------------------
(* Instances of RunLoop for TLC: profiles that reach every error and every *)
(* failure policy.                                                         *)
EXTENDS RunLoop

Policy(validator, policy, budget) ==
  [on_validator_failure |-> validator, on_policy_denial |-> policy,
   on_budget_exhausted |-> budget]
Stop == Policy("fail_closed", "fail_closed", "fail_closed")
Recompose == Policy("recompose_once", "recompose_once", "recompose_once")

\* A profile of the git-diff-analysis skill: two planned actions, both reads.
Review(calls, reads, recompositions, policy) ==
  [generation |-> 1, risk_level |-> "low",
   tools |-> {"git-read", "filesystem-read"}, policies |-> {},
   data_scopes |-> {"repository-readonly"},
   skills |-> <<"git-diff-analysis">>,
   roles |-> [given |-> TRUE, runtime |-> <<"git-diff-analysis">>,
              non_runtime |-> <<>>, shared |-> <<>>],
   pinned |-> [module \in {"git-read", "filesystem-read", "repository-readonly",
                           "git-diff-analysis"} |-> "0.1.0"],
   limits |-> [max_tool_calls |-> calls, max_data_reads |-> reads,
               max_recompositions |-> recompositions],
   failure_policy |-> policy, authority |-> NoError]

Full == Review(2, 2, 1, Stop)
QueueProfiles ==
  {Full,
   Review(1, 2, 1, Recompose),                         \* the second call is refused
   Review(2, 1, 0, Recompose),                         \* the second read is refused
   [Full EXCEPT !.tools = {"git-read"}],               \* the second tool is denied
   [Full EXCEPT !.data_scopes = {}],                   \* counted, then denied
   [Full EXCEPT !.authority = Denied("tenant_not_active")],
   [Full EXCEPT !.pinned = [m \in {"git-diff-analysis"} |-> "0.1.0"]],
   [Full EXCEPT !.pinned["git-diff-analysis"] = "0.2.0"],
   [Full EXCEPT !.roles.runtime = <<>>],
   [Full EXCEPT !.skills = <<"dependency-audit">>,     \* its tool has no adapter
                !.roles.given = FALSE, !.tools = {"filesystem-list"},
                !.pinned = [m \in {"dependency-audit", "filesystem-list",
                                   "repository-readonly"} |-> "0.1.0"]],
   [Full EXCEPT !.roles.given = FALSE, !.skills = <<>>]}

DirectProfiles ==
  {Full, Review(2, 2, 0, Recompose), Review(1, 2, 2, Recompose),
   Review(2, 2, 2, Policy("recompose_once", "fail_closed", "fail_closed")),
   [Full EXCEPT !.pinned["git-diff-analysis"] = "0.2.0"]}

(***************************************************************************)
(* Two scenes, chosen at the start: a queue worker's loop with a caller who*)
(* may cancel (the constants of the .cfg), and run_with_recomposition with *)
(* several generations.                                                    *)
(***************************************************************************)
VARIABLE scene
Direct == INSTANCE RunLoop WITH Mode <- "direct", Profiles <- DirectProfiles

LoopInit == scene \in {"queue", "direct"} /\ Init
LoopNext ==
  /\ scene' = scene
  /\ \/ scene = "queue" /\ Next
     \/ scene = "direct" /\ Direct!Next

\* The loop is a running thread: it takes its next step unless it has finished.
Advance ==
  /\ scene' = scene
  /\ \/ scene = "queue" /\ LoopStep
     \/ scene = "direct" /\ Direct!LoopStep
LoopSpec == LoopInit /\ [][LoopNext]_<<vars, scene>> /\ WF_<<vars, scene>>(Advance)
=============================================================================
