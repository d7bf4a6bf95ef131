--------------------------- MODULE ProfileEnforcer ---------------------------
(***************************************************************************)
(* RuntimeProfileEnforcer (runtime/enforcement.py), the tool policy table  *)
(* (runtime/tool_policies.py) and the executable skill handlers            *)
(* (runtime/skill_handlers.py, runtime/planning.py) as operators.  A raised*)
(* ProfileEnforcementError is a value [stop, code]; NoError is a return.   *)
(* A profile is a record with the fields                                   *)
(*   generation, risk_level, tools, policies, data_scopes, skills (Seq),   *)
(*   roles (the skill_execution_roles), pinned (module -> version), limits,*)
(*   failure_policy and authority (what _validate_tenant_authority raises).*)
(* Tenant authority itself is the module TenantAuthority.                  *)
(***************************************************************************)
EXTENDS Naturals, Integers, Sequences, FiniteSets, Functions

NoError == [stop |-> "none", code |-> "none"]
Denied(code) == [stop |-> "policy_denied", code |-> code]
LimitExceeded(limit) == [stop |-> limit, code |-> limit]

\* The checks of the code run in order and the first one that fails raises.
FirstError(checks) ==
  IF \A i \in DOMAIN checks : checks[i] = NoError THEN NoError
  ELSE checks[CHOOSE i \in DOMAIN checks :
                /\ checks[i] # NoError
                /\ \A j \in 1..(i - 1) : checks[j] = NoError]
Unless(ok, error) == IF ok THEN NoError ELSE error

-----------------------------------------------------------------------------
(* The tool policy table.                                                  *)

RepositoryReaders == {"filesystem-read", "filesystem-list", "git-read", "test-runner"}
ToolRequiredDataScopes(tool) ==
  CASE tool \in RepositoryReaders -> {"repository-readonly"}
    [] tool = "filesystem-write" -> {"repository-write"}
    [] OTHER -> {}
ToolRequiredPolicies(tool) ==
  IF tool = "filesystem-write" THEN {"write-approval-required"} ELSE {}
ToolRiskLevel(tool) ==
  CASE tool \in {"filesystem-read", "filesystem-list", "git-read"} -> "low"
    [] tool = "test-runner" -> "medium"
    [] OTHER -> "high"
RiskRank(level) ==
  CASE level = "low" -> 0 [] level = "medium" -> 1 [] level = "high" -> 2
    [] OTHER -> 3

-----------------------------------------------------------------------------
(* The enforcer.  Its counters start with the generations already used.    *)

NewCounters(p) ==
  [tool_calls |-> 0, data_reads |-> 0, recompositions |-> p.generation - 1]

\* check_duration: late says that more than max_duration_seconds have passed.
CheckDuration(late) == Unless(~late, LimitExceeded("max_duration"))

\* _increment_limit: a refused increment leaves the counter as it was.
IncrementLimit(p, counters, counter, limit) ==
  IF counters[counter] + 1 > p.limits[limit]
  THEN [error |-> LimitExceeded(limit), counters |-> counters]
  ELSE [error |-> NoError,
        counters |-> [counters EXCEPT ![counter] = @ + 1]]

RecordRecompositionRequest(p, counters) ==
  IncrementLimit(p, counters, "recompositions", "max_recompositions")

\* The checks record_tool_invocation makes before it counts the call.
ToolAccess(p, tool, late) ==
  FirstError(<<
    CheckDuration(late),
    Unless(tool \in p.tools, Denied("tool_not_in_runtime_profile")),
    Unless(RiskRank(ToolRiskLevel(tool)) <= RiskRank(p.risk_level),
           Denied("tool_risk_exceeds_profile")),
    Unless(ToolRequiredPolicies(tool) \subseteq p.policies,
           Denied("policy_not_in_runtime_profile"))>>)

\* Mutant: the data read is not counted.
CountDataReadMutant(p, counters, tool) ==
  IF ToolRequiredDataScopes(tool) \subseteq p.data_scopes
  THEN [error |-> NoError, counters |-> counters]
  ELSE [error |-> Denied("data_scope_not_in_runtime_profile"), counters |-> counters]

\* The data scopes and the data read of a tool that needs a scope, checked after
\* the call is counted.
CountDataRead(p, counters, tool) ==
  IF ToolRequiredDataScopes(tool) = {}
  THEN [error |-> NoError, counters |-> counters]
  ELSE IF ToolRequiredDataScopes(tool) \subseteq p.data_scopes
  THEN IncrementLimit(p, counters, "data_reads", "max_data_reads")
  ELSE [error |-> Denied("data_scope_not_in_runtime_profile"), counters |-> counters]

RecordToolInvocation(p, counters, tool, late) ==
  LET access == ToolAccess(p, tool, late)
      call == IncrementLimit(p, counters, "tool_calls", "max_tool_calls")
  IN  IF access # NoError THEN [error |-> access, counters |-> counters]
      ELSE IF call.error # NoError THEN call
      ELSE CountDataRead(p, call.counters, tool)

\* selected_modules, as far as a profile record names modules.
SelectedModules(p) ==
  Range(p.skills) \cup p.tools \cup p.policies \cup p.data_scopes

\* Mutant: the generation is not compared with the recomposition budget.
ValidateProfileForRuntimeMutant(p) ==
  FirstError(<<
    Unless(SelectedModules(p) \subseteq DOMAIN p.pinned,
           Denied("selected_module_version_missing")),
    p.authority>>)

ValidateProfileForRuntime(p) ==
  FirstError(<<
    Unless(SelectedModules(p) \subseteq DOMAIN p.pinned,
           Denied("selected_module_version_missing")),
    Unless(p.generation - 1 <= p.limits.max_recompositions,
           LimitExceeded("max_recompositions")),
    p.authority>>)

-----------------------------------------------------------------------------
(* Planning: the skill handlers of the selected runtime skills.            *)

HandlerVersion == "0.1.0"
HandlerActions ==
  [skill \in {"git-diff-analysis", "research-context-synthesis",
              "task-execution-planning", "dependency-audit",
              "document-synthesis", "general-task-summary"} |->
     CASE skill = "git-diff-analysis" -> <<"git-read", "filesystem-read">>
       [] skill = "task-execution-planning" ->
            <<"git-read", "filesystem-list", "filesystem-read">>
       [] skill = "dependency-audit" ->
            <<"filesystem-list", "filesystem-read", "filesystem-read">>
       [] OTHER -> <<>>]

\* _validate_skill_execution_roles: the roles partition the selected skills.
SkillRolesError(p) ==
  LET assigned == p.roles.runtime \o p.roles.non_runtime \o p.roles.shared
  IN  FirstError(<<
        Unless(Range(assigned) \subseteq Range(p.skills),
               Denied("skill_execution_roles_unselected")),
        Unless(Range(p.skills) \subseteq Range(assigned),
               Denied("skill_execution_roles_missing")),
        Unless(IsInjective(assigned), Denied("skill_execution_roles_overlap"))>>)

\* The executable skills: all selected ones when the profile assigns no roles.
ExecutableSkills(p) ==
  IF p.roles.given THEN p.roles.runtime \o p.roles.shared ELSE p.skills

\* build_plan for one skill: selected, version-pinned, and with a handler.
SkillError(p, skill) ==
  FirstError(<<
    Unless(skill \in Range(p.skills), Denied("skill_not_in_runtime_profile")),
    Unless(skill \in DOMAIN p.pinned, Denied("selected_skill_version_missing")),
    Unless(/\ skill \in DOMAIN HandlerActions
           /\ p.pinned[skill] = HandlerVersion,
           Denied("skill_handler_not_registered"))>>)

\* The entries of the lists, in order.
Concatenated(lists) ==
  LET upTo[n \in 0..Len(lists)] == IF n = 0 THEN <<>> ELSE upTo[n - 1] \o lists[n]
  IN  upTo[Len(lists)]

\* build_runtime_plan: the actions of every executable skill, in role order.
BuildRuntimePlan(p) ==
  LET skills == ExecutableSkills(p)
      roles == IF p.roles.given THEN SkillRolesError(p) ELSE NoError
      error == FirstError(<<roles>> \o
                          [i \in DOMAIN skills |-> SkillError(p, skills[i])])
  IN  [error |-> error,
       actions |-> IF error # NoError THEN <<>>
                   ELSE Concatenated([i \in DOMAIN skills |-> HandlerActions[skills[i]]])]
=============================================================================
