---------------------------- MODULE RunLoopProofs ----------------------------
(***************************************************************************)
(* The runtime loop implements RunLifecycle, and the trace of a run is a   *)
(* faithful account of its tables, a success was validated, budgets and    *)
(* recompositions are kept and a cancellation is prompt, for every mode,   *)
(* set of profiles, set of adapters and number of validators.              *)
(*                                                                         *)
(* LInv is inductive (StepLemma), and so is TInv on top of it (TraceStep,  *)
(* in RunTraceProofs), by the facts on counting and on the enforcer that   *)
(* are called Laws there and proved here.                                  *)
(***************************************************************************)
EXTENDS RunTraceProofs, FiniteSetTheorems, WellFoundedInduction

-----------------------------------------------------------------------------
(* Errors of the enforcer and of the plan.                                 *)

\* A set of numbers that is not empty has a least one.
LEMMA LeastNumber ==
  ASSUME NEW T, T \subseteq Nat, T # {}
  PROVE  \E x \in T : \A y \in T : x <= y
<1> DEFINE R == OpToRel(<, Nat)
<1>1. IsWellFoundedOn(R, Nat)
  BY NatLessThanWellFounded, Zenon
<1>2. \A a, b \in Nat : a < b => <<a, b>> \in R
  BY Zenon DEF OpToRel
<1> HIDE DEF R
<1>3. \E x \in T : \A y \in T : ~ (<<y, x>> \in R)
  BY <1>1, WFMin, Zenon
<1>4. PICK x \in T : \A y \in T : ~ (<<y, x>> \in R)
  BY <1>3, Zenon
<1>5. \A y \in T : ~ (y < x)
  BY <1>2, <1>4, Zenon
<1>6. \A y \in T : x <= y
  BY <1>5
<1>. QED BY <1>6, Zenon

\* The first error of a list of checks is one of the list.
LEMMA FirstErrorLemma ==
  ASSUME NEW checks, NEW n \in Nat, DOMAIN checks = 1..n,
         \A k \in 1..n : OKError(checks[k])
  PROVE  OKError(FirstError(checks))
<1> DEFINE T == {k \in 1..n : checks[k] # NoError}
<1>1. T \subseteq Nat
  OBVIOUS
<1>2. CASE T = {}
  BY <1>2, Zenon DEF FirstError, OKError
<1>3. CASE T # {}
  <2>1. PICK x \in T : \A y \in T : x <= y
    BY <1>1, <1>3, LeastNumber, Zenon
  <2>2. /\ checks[x] # NoError
        /\ \A j \in 1..(x - 1) : checks[j] = NoError
    BY <2>1
  <2> DEFINE i == CHOOSE i \in DOMAIN checks :
                    /\ checks[i] # NoError
                    /\ \A j \in 1..(i - 1) : checks[j] = NoError
  <2>3. i \in DOMAIN checks
    BY <2>1, <2>2, Zenon
  <2>4. OKError(checks[i])
    BY <2>3, Zenon
  <2>5. FirstError(checks) = checks[i]
    BY <1>3, Zenon DEF FirstError
  <2>. QED BY <2>4, <2>5, Zenon
<1>. QED BY <1>2, <1>3, Zenon

\* What Denied and LimitExceeded make.
LEMMA ErrorsLemma ==
  /\ OKError(NoError)
  /\ \A code : OKError(Denied(code))
  /\ OKError(LimitExceeded("max_duration"))
  /\ OKError(LimitExceeded("max_tool_calls"))
  /\ OKError(LimitExceeded("max_data_reads"))
  /\ OKError(LimitExceeded("max_recompositions"))
  BY Zenon DEF OKError, Denied, LimitExceeded, StopReasons

\* A check that passes or raises one of these errors.
LEMMA UnlessLemma ==
  ASSUME NEW ok, NEW error, OKError(error)
  PROVE  OKError(Unless(ok, error))
<1>1. OKError(NoError)
  BY ErrorsLemma, Zenon
<1>. QED BY <1>1, Zenon DEF Unless

\* Lists of three and of four checks.
LEMMA ThreeChecks ==
  ASSUME NEW a, NEW b, NEW c, OKError(a), OKError(b), OKError(c)
  PROVE  OKError(FirstError(<<a, b, c>>))
<1> DEFINE checks == <<a, b, c>>
<1>1. DOMAIN checks = 1..3 /\ \A k \in 1..3 : checks[k] \in {a, b, c}
  OBVIOUS
<1>2. \A k \in 1..3 : OKError(checks[k])
  BY <1>1, Zenon
<1> HIDE DEF checks
<1>3. OKError(FirstError(checks))
  BY <1>1, <1>2, FirstErrorLemma, Zenon
<1>. QED BY <1>3, Zenon DEF checks

\* What any of four checks raises is an error of the loop.
LEMMA FourChecks ==
  ASSUME NEW a, NEW b, NEW c, NEW d, OKError(a), OKError(b), OKError(c), OKError(d)
  PROVE  OKError(FirstError(<<a, b, c, d>>))
<1> DEFINE checks == <<a, b, c, d>>
<1>1. DOMAIN checks = 1..4 /\ \A k \in 1..4 : checks[k] \in {a, b, c, d}
  OBVIOUS
<1>2. \A k \in 1..4 : OKError(checks[k])
  BY <1>1, Zenon
<1> HIDE DEF checks
<1>3. OKError(FirstError(checks))
  BY <1>1, <1>2, FirstErrorLemma, Zenon
<1>. QED BY <1>3, Zenon DEF checks

\* A sealed profile is checked to an error of the set.
LEMMA ValidateLemma ==
  ASSUME NEW p, ProfileOK(p)
  PROVE  OKError(ValidateProfileForRuntime(p))
<1>1. OKError(p.authority)
  BY Zenon DEF ProfileOK, OKError, StopReasons
<1> DEFINE pins == Unless(SelectedModules(p) \subseteq DOMAIN p.pinned,
                          Denied("selected_module_version_missing"))
           budget == Unless(p.generation - 1 <= p.limits.max_recompositions,
                            LimitExceeded("max_recompositions"))
<1>2. OKError(Denied("selected_module_version_missing"))
  BY ErrorsLemma, Zenon
<1>3. OKError(pins)
  BY <1>2, UnlessLemma, Zenon
<1>4. OKError(budget)
  BY ErrorsLemma, UnlessLemma, Zenon
<1> HIDE DEF pins, budget
<1>5. OKError(FirstError(<<pins, budget, p.authority>>))
  BY <1>1, <1>3, <1>4, ThreeChecks, Zenon
<1>. QED BY <1>5, Zenon DEF ValidateProfileForRuntime, pins, budget

\* So are the roles and the handlers of skills, and with them a plan.
LEMMA SkillLemma ==
  ASSUME NEW p
  PROVE  OKError(SkillRolesError(p)) /\ \A s : OKError(SkillError(p, s))
<1>1. /\ OKError(Denied("skill_execution_roles_unselected"))
      /\ OKError(Denied("skill_execution_roles_missing"))
      /\ OKError(Denied("skill_execution_roles_overlap"))
      /\ OKError(Denied("skill_not_in_runtime_profile"))
      /\ OKError(Denied("selected_skill_version_missing"))
      /\ OKError(Denied("skill_handler_not_registered"))
  BY ErrorsLemma, Zenon
<1>2. OKError(SkillRolesError(p))
  <2> DEFINE assigned == p.roles.runtime \o p.roles.non_runtime \o p.roles.shared
             a == Unless(Range(assigned) \subseteq Range(p.skills), Denied("skill_execution_roles_unselected"))
             b == Unless(Range(p.skills) \subseteq Range(assigned), Denied("skill_execution_roles_missing"))
             c == Unless(IsInjective(assigned), Denied("skill_execution_roles_overlap"))
  <2>1. OKError(a) /\ OKError(b) /\ OKError(c)
    BY <1>1, UnlessLemma, Zenon
  <2> HIDE DEF a, b, c
  <2>2. OKError(FirstError(<<a, b, c>>))
    BY <2>1, ThreeChecks, Zenon
  <2>. QED BY <2>2, Zenon DEF SkillRolesError, a, b, c
<1>3. ASSUME NEW s PROVE OKError(SkillError(p, s))
  <2> DEFINE a == Unless(s \in Range(p.skills), Denied("skill_not_in_runtime_profile"))
             b == Unless(s \in DOMAIN p.pinned, Denied("selected_skill_version_missing"))
             c == Unless(/\ s \in DOMAIN HandlerActions
                         /\ p.pinned[s] = HandlerVersion, Denied("skill_handler_not_registered"))
  <2>1. OKError(a) /\ OKError(b) /\ OKError(c)
    BY <1>1, UnlessLemma, Zenon
  <2> HIDE DEF a, b, c
  <2>2. OKError(FirstError(<<a, b, c>>))
    BY <2>1, ThreeChecks, Zenon
  <2>. QED BY <2>2, Zenon DEF SkillError, a, b, c
<1>. QED BY <1>2, <1>3, Zenon

\* What build_runtime_plan raises is an error of the loop.
LEMMA PlanLemma ==
  ASSUME NEW p, ProfileOK(p)
  PROVE  OKError(BuildRuntimePlan(p).error)
<1> DEFINE skills == ExecutableSkills(p)
           roles == IF p.roles.given THEN SkillRolesError(p) ELSE NoError
           rest == [i \in DOMAIN skills |-> SkillError(p, skills[i])]
<1>1. skills \in Seq(STRING)
  <2>1. p.roles.runtime \o p.roles.shared \in Seq(STRING)
    BY DEF ProfileOK
  <2>2. p.skills \in Seq(STRING)
    BY Zenon DEF ProfileOK
  <2>. QED BY <2>1, <2>2, Zenon DEF ExecutableSkills
<1>2. OKError(roles)
  BY SkillLemma, ErrorsLemma, Zenon
<1>3. \A s : OKError(SkillError(p, s))
  BY SkillLemma, Zenon
<1> HIDE DEF skills
<1>4. PICK n \in Nat : DOMAIN skills = 1..n
  BY <1>1
<1>5. /\ rest \in Seq({rest[k] : k \in 1..n})
      /\ DOMAIN rest = 1..n
      /\ \A k \in 1..n : OKError(rest[k])
  BY <1>3, <1>4
<1> HIDE DEF rest, roles
<1> DEFINE checks == <<roles>> \o rest
<1>6. OKError(FirstError(checks))
  <2>1. Len(rest) = n
    BY <1>5
  <2>2. /\ DOMAIN checks = 1..(n + 1)
        /\ checks[1] = roles
        /\ \A k \in 2..(n + 1) : checks[k] = rest[k - 1]
    BY <1>5, <2>1
  <2>3. \A k \in 1..(n + 1) : OKError(checks[k])
    BY <1>2, <1>5, <2>2
  <2> HIDE DEF checks
  <2>. QED BY <2>2, <2>3, FirstErrorLemma
<1>7. BuildRuntimePlan(p).error = FirstError(<<roles>> \o rest)
  BY Zenon DEF BuildRuntimePlan, skills, rest, roles
<1>. QED BY <1>6, <1>7, Zenon

\* And an invocation.
LEMMA AccessFails ==
  ASSUME NEW p, NEW counters, NEW tool, NEW over
  PROVE  OKError(RecordToolInvocation(p, counters, tool, over).error)
<1>1. OKError(ToolAccess(p, tool, over))
  <2> DEFINE a == CheckDuration(over)
             b == Unless(tool \in p.tools, Denied("tool_not_in_runtime_profile"))
             c == Unless(RiskRank(ToolRiskLevel(tool)) <= RiskRank(p.risk_level),
                         Denied("tool_risk_exceeds_profile"))
             d == Unless(ToolRequiredPolicies(tool) \subseteq p.policies,
                         Denied("policy_not_in_runtime_profile"))
  <2>1. /\ OKError(Denied("tool_not_in_runtime_profile"))
        /\ OKError(Denied("tool_risk_exceeds_profile"))
        /\ OKError(Denied("policy_not_in_runtime_profile"))
        /\ OKError(LimitExceeded("max_duration"))
    BY ErrorsLemma, Zenon
  <2>2. OKError(a)
    BY <2>1, UnlessLemma, Zenon DEF CheckDuration
  <2>3. OKError(b) /\ OKError(c) /\ OKError(d)
    BY <2>1, UnlessLemma, Zenon
  <2> HIDE DEF a, b, c, d
  <2>4. OKError(FirstError(<<a, b, c, d>>))
    BY <2>2, <2>3, FourChecks, Zenon
  <2>. QED BY <2>4, Zenon DEF ToolAccess, a, b, c, d
<1>2. ASSUME NEW c
      PROVE  /\ OKError(IncrementLimit(p, c, "tool_calls", "max_tool_calls").error)
             /\ OKError(IncrementLimit(p, c, "data_reads", "max_data_reads").error)
  BY ErrorsLemma, Zenon DEF IncrementLimit
<1>3. ASSUME NEW c PROVE OKError(CountDataRead(p, c, tool).error)
  <2>1. OKError(Denied("data_scope_not_in_runtime_profile"))
    BY ErrorsLemma, Zenon
  <2>. QED BY <1>2, <2>1, ErrorsLemma, Zenon DEF CountDataRead
<1>. QED BY <1>1, <1>2, <1>3, Zenon DEF RecordToolInvocation

-----------------------------------------------------------------------------
(* Rows and profiles.                                                      *)

\* The profile of a generation in progress.
LEMMA CurrentProfile ==
  ASSUME LInv, runs # <<>>
  PROVE  ProfileOK(Profile)
<1>1. Len(profiles) \in Nat /\ Len(profiles) # 0
  BY DEF LInv
<1>2. profiles[Len(profiles)] \in SealedProfiles
  BY <1>1 DEF LInv
<1>. QED BY <1>2, SealedLemma, Zenon DEF LInv, Profile, Gen

\* The rows complete_run writes.
LEMMA OutcomeLemma ==
  /\ [status |-> "succeeded", stop |-> "completed"] \in Lifecycle!Outcomes
  /\ [status |-> "cancelled", stop |-> "cancelled"] = Lifecycle!Cancelled
  /\ Lifecycle!Cancelled \in Lifecycle!Outcomes
  /\ \A r \in StopReasons \cup {SealReason} :
       [status |-> "failed", stop |-> r] \in Lifecycle!Outcomes
  BY ZenonT(30) DEF Lifecycle!Outcomes, Lifecycle!Cancelled

\* A step of the loop that writes no row and stays inside its generation.
Inside ==
  /\ loop.pc \notin SettledLabels
  /\ loop'.pc \notin SettledLabels
  /\ {"pc", "target", "actions", "results", "counters", "error"} \subseteq DOMAIN loop'
  /\ loop'.target \in Targets
  /\ loop'.pc = "error" => loop'.error.stop \in StopReasons
  /\ UNCHANGED <<runs, profiles, caller>>

\* A step that settles the current generation.
Settles(row) ==
  /\ loop.pc \notin SettledLabels
  /\ row \in Lifecycle!Outcomes
  /\ runs' = [runs EXCEPT ![Len(runs)] = row]
  /\ {"pc", "target", "actions", "results", "counters", "error"} \subseteq DOMAIN loop'
  /\ loop'.target \in Targets
  /\ loop'.pc \in {"compose", "done"}
  /\ loop'.pc = "compose" => Mode = "direct" /\ row.stop = "needs_recomposition"
  /\ UNCHANGED <<profiles, caller>>

\* Such steps keep the invariant and are steps of RunLifecycle.
LEMMA InsideLemma ==
  ASSUME LInv, Inside
  PROVE  LInv' /\ UNCHANGED <<runs, SettledRuns>>
<1>1. LInv'
  BY Zenon DEF LInv, Inside, SettledLabels
<1>2. UNCHANGED <<runs, SettledRuns>>
  BY Zenon DEF Inside, SettledLabels, SettledRuns, Gen
<1>. QED BY <1>1, <1>2, Zenon

\* Writing the outcome of a row that is not settled is a Settle of the lifecycle.
LEMMA SettlesLemma ==
  ASSUME LInv, NEW row, Settles(row)
  PROVE  LInv' /\ Lifecycle!Settle
<1>1. /\ runs \in Seq(Rows)
      /\ Len(runs) \in Nat \ {0}
      /\ row \in Rows
  BY DEF LInv, Settles, Rows
<1>2. /\ runs' \in Seq(Rows)
      /\ Len(runs') = Len(runs)
      /\ runs'[Len(runs)] = row
      /\ runs' # <<>>
  BY <1>1 DEF Settles
<1>3. LInv'
  BY <1>2, Zenon DEF LInv, Settles, SettledLabels
<1>4. SettledRuns = Len(runs) - 1 /\ SettledRuns' = Len(runs)
  BY <1>2, Zenon DEF Settles, SettledLabels, SettledRuns, Gen
<1>5. SettledRuns < Len(runs)
  BY <1>1, <1>4
<1>6. \E outcome \in Lifecycle!Outcomes : runs' = [runs EXCEPT ![Len(runs)] = outcome]
  BY Zenon DEF Settles
<1>7. Lifecycle!Settle
  BY <1>4, <1>5, <1>6, Zenon DEF Lifecycle!Settle
<1>. QED BY <1>3, <1>7, Zenon

-----------------------------------------------------------------------------
(* The steps of the loop.                                                  *)

\* Composing a generation begins a row or fails before there is one.
LEMMA StartLemma ==
  ASSUME LInv, StartRun \/ StartFails
  PROVE  LInv' /\ (Lifecycle!Begin \/ UNCHANGED <<runs, SettledRuns>>)
<1>1. CASE StartRun
  <2>1. PICK p \in Profiles :
          /\ profiles' = Append(profiles, Sealed(p))
          /\ loop' = [NewLoop EXCEPT !.pc = "seal", !.counters = NewCounters(Sealed(p))]
    BY <1>1, Zenon DEF StartRun
  <2>2. /\ loop'.pc = "seal"
        /\ {"pc", "target", "actions", "results", "counters", "error"} \subseteq DOMAIN loop'
        /\ loop'.target = "none"
    <3>1. /\ DOMAIN NewLoop = {"pc", "target", "actions", "results", "counters", "error"}
          /\ NewLoop.target = "none"
      BY Zenon DEF NewLoop
    <3>. QED BY <2>1, <3>1, Zenon
  <2>3. Len(runs) \in Nat /\ Sealed(p) \in SealedProfiles
    <3>1. Len(runs) \in Nat /\ Len(runs) + 1 \in Nat
      BY DEF LInv
    <3>2. Sealed(p) \in SealedProfiles
      <4>1. Sealed(p) \in SealedAs(Len(runs) + 1)
        BY Zenon DEF Sealed, Gen, SealedAs
      <4>. QED BY <3>1, <4>1, Zenon DEF SealedProfiles
    <3>. QED BY <3>1, <3>2, Zenon
  <2>4. /\ runs' = Append(runs, Running)
        /\ runs' \in Seq(Rows)
        /\ Len(runs') = Len(runs) + 1
        /\ runs'[Len(runs')] = Running
        /\ runs' # <<>>
    <3>1. runs' = Append(runs, Running)
      BY <1>1, Zenon DEF StartRun
    <3>2. Running \in Rows /\ runs \in Seq(Rows)
      BY Zenon DEF Rows, LInv
    <3>. QED BY <3>1, <3>2, SMTT(40)
  <2>5. profiles' \in Seq(SealedProfiles) /\ Len(profiles') = Len(profiles) + 1
    BY <2>1, <2>3, SMTT(40) DEF LInv
  <2>6. caller' = caller
    BY <1>1, Zenon DEF StartRun, cancellation
  <2>7. LInv'
    <3>1. Len(profiles') = Len(runs')
      BY <2>4, <2>5, Zenon DEF LInv
    <3>2. runs'[Len(runs')] \in {Running, Lifecycle!Cancelled}
      BY <2>4, Zenon
    <3>3. Mode = "direct" => caller' = "idle"
      BY <2>6, Zenon DEF LInv
    <3>4. loop'.target \in Targets
      BY <2>2, Zenon DEF Targets
    <3>. QED BY <2>2, <2>4, <2>5, <3>1, <3>2, <3>3, <3>4, Zenon DEF LInv
  <2>8. SettledRuns = Len(runs) /\ SettledRuns' = Len(runs)
    <3>1. SettledRuns = Len(runs)
      BY <1>1, Zenon DEF StartRun, At, SettledRuns, Gen
    <3>2. SettledRuns' = Len(runs') - 1
      BY <2>2, Zenon DEF SettledRuns, Gen
    <3>. QED BY <2>3, <2>4, <3>1, <3>2, SMTT(40)
  <2>9. Lifecycle!Begin
    <3>1. loop.pc = "compose"
      BY <1>1, Zenon DEF StartRun, At
    <3>2. runs # <<>> => runs[Len(runs)].stop = "needs_recomposition"
      BY <3>1, Zenon DEF LInv
    <3>3. Running = Lifecycle!Running
      BY Zenon DEF Running, Lifecycle!Running
    <3>. QED BY <2>4, <2>8, <3>2, <3>3, ZenonT(30) DEF Lifecycle!Begin
  <2>. QED BY <2>7, <2>9, Zenon
<1>2. CASE StartFails
  <2>1. /\ UNCHANGED <<runs, profiles, caller>>
        /\ loop.pc = "compose"
        /\ loop' = [loop EXCEPT !.pc = "raised"]
    BY <1>2, Zenon DEF StartFails, At, Goto, cancellation
  <2>2. LInv'
    BY <2>1, Zenon DEF LInv, SettledLabels
  <2>3. UNCHANGED <<runs, SettledRuns>>
    BY <2>1, Zenon DEF LInv, SettledRuns, Gen
  <2>. QED BY <2>2, <2>3, Zenon
<1>. QED BY <1>1, <1>2, Zenon

\* Moving to a label inside the loop stays inside.
LEMMA GotoLemma ==
  ASSUME LInv, Within, NEW label, label \notin SettledLabels, label # "error", Goto(label)
  PROVE  Inside
  BY Zenon DEF LInv, Within, Goto, Inside

\* A cancellation check stays inside.
LEMMA CheckLemma ==
  ASSUME LInv, Within, NEW target \in Targets, CheckThen(target)
  PROVE  Inside
  BY Zenon DEF LInv, Within, CheckThen, Inside, SettledLabels

\* Raising an error of the loop stays inside.
LEMMA RaiseLemma ==
  ASSUME LInv, Within, NEW error, OKError(error), error # NoError, Raise(error)
  PROVE  Inside
  BY Zenon DEF LInv, Within, Raise, Inside, SettledLabels, OKError

\* Going on after a check that found nothing stays inside.
LEMMA ProceedLemma ==
  ASSUME LInv, Within, Proceed(loop.target)
  PROVE  Inside
<1>1. loop.target \in Targets
  BY Zenon DEF LInv
<1>2. CASE loop.target \in {"before_context", "before_planner", "before_executor",
                            "before_validator"}
  <2>1. PICK target \in {"context", "planner", "executor", "validator"} : CheckThen(target)
    BY <1>2, Zenon DEF Proceed
  <2>2. target \in Targets
    BY Zenon DEF Targets
  <2>. QED BY <2>1, <2>2, CheckLemma, Zenon
<1>3. CASE loop.target \in {"none", "context", "planner", "executor", "validator", "invoke"}
  <2>1. Goto(loop.target)
    BY <1>3, Zenon DEF Proceed
  <2>2. loop.target \notin SettledLabels /\ loop.target # "error"
    BY <1>3, Zenon DEF SettledLabels
  <2>. QED BY <2>1, <2>2, GotoLemma, Zenon
<1>. QED BY <1>1, <1>2, <1>3, Zenon DEF Targets

\* The seal, the profile and the cancellation checkpoints.
LEMMA ChecksLemma ==
  ASSUME LInv, AssertProfileSeal \/ ValidateProfile \/ CheckRun \/ CheckItem
  PROVE  Inside
<1>1. Within
  BY Zenon DEF AssertProfileSeal, ValidateProfile, CheckRun, CheckItem, At, cancellation,
         Within, SettledLabels
<1>2. CASE AssertProfileSeal
  <2>1. PICK label \in {"validate", "fail_read", "abandoned"} : Goto(label)
    BY <1>2, Zenon DEF AssertProfileSeal
  <2>. QED BY <1>1, <2>1, GotoLemma, Zenon DEF SettledLabels
<1>3. CASE ValidateProfile
  <2> DEFINE error == ValidateProfileForRuntime(Profile)
  <2>1. OKError(error)
    <3>1. runs # <<>>
      BY <1>1, Zenon DEF LInv, Within
    <3>. QED BY <3>1, CurrentProfile, ValidateLemma, Zenon
  <2>2. error = NoError => CheckThen("before_context")
    BY <1>3, Zenon DEF ValidateProfile
  <2>3. error # NoError => Raise(error)
    BY <1>3, Zenon DEF ValidateProfile
  <2> HIDE DEF error
  <2>4. "before_context" \in Targets
    BY Zenon DEF Targets
  <2>. QED BY <1>1, <2>1, <2>2, <2>3, <2>4, CheckLemma, RaiseLemma, Zenon
<1>4. CASE CheckRun
  <2>1. Goto("cancelled") \/ Goto("check_item") \/ Proceed(loop.target)
    BY <1>4, Zenon DEF CheckRun
  <2>. QED BY <1>1, <2>1, GotoLemma, ProceedLemma, Zenon DEF SettledLabels
<1>5. CASE CheckItem
  <2>1. Goto("cancelled") \/ Proceed(loop.target)
    BY <1>5, Zenon DEF CheckItem
  <2>. QED BY <1>1, <2>1, GotoLemma, ProceedLemma, Zenon DEF SettledLabels
<1>. QED BY <1>2, <1>3, <1>4, <1>5, Zenon

\* The phases.
LEMMA DurationLemma ==
  ASSUME LInv, NEW kind \in Range(Kinds), DurationExceeded(kind)
  PROVE  Inside
<1>1. kind \in {"context", "planner", "executor", "validator"}
  BY DEF Range, Kinds
<1>2. Within
  BY <1>1, Zenon DEF DurationExceeded, At, cancellation, Within, SettledLabels
<1>3. OKError(CheckDuration(late))
  BY ErrorsLemma, UnlessLemma, Zenon DEF CheckDuration
<1>. QED BY <1>2, <1>3, RaiseLemma, Zenon DEF DurationExceeded

\* The context step stays inside.
LEMMA ContextLemma ==
  ASSUME LInv, ContextStep
  PROVE  Inside
<1>1. Within
  BY Zenon DEF ContextStep, At, cancellation, Within, SettledLabels
<1>2. \/ CheckThen("before_planner")
      \/ Raise(Denied("retrieval_response_metadata_invalid"))
      \/ Goto("abandoned")
  BY Zenon DEF ContextStep, StepRuns, StepLeftRunning
<1>3. /\ OKError(Denied("retrieval_response_metadata_invalid"))
      /\ Denied("retrieval_response_metadata_invalid") # NoError
  BY ErrorsLemma, Zenon DEF Denied, NoError
<1>4. "before_planner" \in Targets /\ "abandoned" \notin SettledLabels
  BY Zenon DEF Targets, SettledLabels
<1>. QED BY <1>1, <1>2, <1>3, <1>4, CheckLemma, RaiseLemma, GotoLemma, Zenon

\* The planner step stays inside, whatever the plan raises.
LEMMA PlannerLemma ==
  ASSUME LInv, PlannerStep
  PROVE  Inside
<1> DEFINE plan == BuildRuntimePlan(Profile)
<1>1. Within
  BY Zenon DEF PlannerStep, At, cancellation, Within, SettledLabels
<1>2. OKError(plan.error)
  <2>1. runs # <<>>
    BY <1>1, Zenon DEF LInv, Within
  <2>. QED BY <2>1, CurrentProfile, PlanLemma, Zenon
<1>3. CASE plan.error = NoError
  <2>1. loop' = [loop EXCEPT !.pc = "check_run", !.target = "before_executor",
                             !.actions = plan.actions]
    BY <1>3, Zenon DEF PlannerStep, StepRuns
  <2> HIDE DEF plan
  <2>. QED BY <1>1, <2>1, Zenon DEF LInv, Within, Inside, SettledLabels, Targets
<1>4. CASE plan.error # NoError
  <2>1. Raise(plan.error)
    BY <1>4, Zenon DEF PlannerStep, StepLeftRunning
  <2> HIDE DEF plan
  <2>. QED BY <1>1, <1>2, <1>4, <2>1, RaiseLemma, Zenon
<1>. QED BY <1>3, <1>4, Zenon

\* The executor completes its step and then raises.
LEMMA ExecutorFailsLemma ==
  ASSUME LInv, Within, NEW extra, NEW error, NEW counters, OKError(error), error # NoError,
         ExecutorFails(extra, error, counters)
  PROVE  Inside
<1>1. loop' = [loop EXCEPT !.pc = "error", !.error = error, !.counters = counters]
  BY Zenon DEF ExecutorFails
<1>. QED BY <1>1, Zenon DEF LInv, Within, Inside, SettledLabels, OKError

\* The executor steps stay inside, whatever the enforcer raises.
LEMMA ExecutorLemma ==
  ASSUME LInv, ExecutorStarts \/ InvokeTool \/ ToolReturns \/ ExecutorSucceeds
  PROVE  Inside
<1>1. Within
  BY Zenon DEF ExecutorStarts, InvokeTool, ToolReturns, ExecutorSucceeds, At, cancellation,
         Within, SettledLabels
<1>2. ASSUME NEW rest PROVE NextAction(rest) \in {"executed", "check_run"}
  BY Zenon DEF NextAction
<1>3. CASE ExecutorStarts
  <2> DEFINE label == NextAction(loop.actions)
  <2>1. loop' = [loop EXCEPT !.pc = label, !.target = "invoke"]
    BY <1>3, Zenon DEF ExecutorStarts
  <2>2. label \in {"executed", "check_run"}
    BY <1>2, Zenon
  <2> HIDE DEF label
  <2>. QED BY <1>1, <2>1, <2>2, Zenon DEF LInv, Within, Inside, SettledLabels, Targets
<1>4. CASE InvokeTool
  <2> DEFINE tool == Head(loop.actions)
             access == RecordToolInvocation(Profile, loop.counters, tool, late)
             missing == [stop |-> "tool_error", code |-> "tool_adapter_missing"]
             denied == <<StopEvent("access_attempted", access.error.stop)>>
  <2>1. \/ access.error # NoError /\ ExecutorFails(denied, access.error, access.counters)
        \/ ExecutorFails(<<>>, missing, access.counters)
        \/ loop' = [loop EXCEPT !.pc = "invoked", !.counters = access.counters]
    BY <1>4, Zenon DEF InvokeTool
  <2>2. OKError(access.error)
    BY AccessFails, Zenon
  <2>3. OKError(missing) /\ missing # NoError
    BY Zenon DEF OKError, NoError, StopReasons
  <2> HIDE DEF access, missing, denied
  <2>4. ASSUME loop' = [loop EXCEPT !.pc = "invoked", !.counters = access.counters]
        PROVE  Inside
    BY <1>1, <2>4, Zenon DEF LInv, Within, Inside, SettledLabels
  <2>. QED BY <1>1, <2>1, <2>2, <2>3, <2>4, ExecutorFailsLemma, Zenon
<1>5. CASE ToolReturns
  <2>1. PICK status \in {"succeeded", "failed"}, hook \in {"passed", "failed"} :
          LET error == CASE hook = "failed" -> Denied("runtime_after_tool_hook_failed")
                         [] status = "failed" ->
                              [stop |-> "tool_error", code |-> "tool_execution_failed"]
                         [] OTHER -> NoError
          IN  IF error # NoError
              THEN ExecutorFails(ToolEvents(status, hook), error, loop.counters)
              ELSE /\ Emit(ToolEvents(status, hook))
                   /\ loop' = [loop EXCEPT !.pc = NextAction(Tail(loop.actions)),
                                           !.actions = Tail(@), !.results = @ + 1]
                   /\ UNCHANGED steps
    BY <1>5, Zenon DEF ToolReturns
  <2> DEFINE error == CASE hook = "failed" -> Denied("runtime_after_tool_hook_failed")
                        [] status = "failed" ->
                             [stop |-> "tool_error", code |-> "tool_execution_failed"]
                        [] OTHER -> NoError
             label == NextAction(Tail(loop.actions))
  <2>2. OKError(error)
    BY Zenon DEF OKError, Denied, StopReasons
  <2>3. CASE error # NoError
    <3>1. ExecutorFails(ToolEvents(status, hook), error, loop.counters)
      BY <2>1, <2>3, Zenon
    <3> HIDE DEF error
    <3>. QED BY <1>1, <2>2, <2>3, <3>1, ExecutorFailsLemma, Zenon
  <2>4. CASE error = NoError
    <3>1. loop' = [loop EXCEPT !.pc = label, !.actions = Tail(@), !.results = @ + 1]
      BY <2>1, <2>4, Zenon
    <3>2. label \in {"executed", "check_run"}
      BY <1>2, Zenon
    <3> HIDE DEF label
    <3>. QED BY <1>1, <3>1, <3>2, Zenon DEF LInv, Within, Inside, SettledLabels
  <2>. QED BY <2>3, <2>4, Zenon
<1>6. CASE ExecutorSucceeds
  <2>1. CheckThen("before_validator") /\ "before_validator" \in Targets
    BY <1>6, Zenon DEF ExecutorSucceeds, Targets
  <2>. QED BY <1>1, <2>1, CheckLemma, Zenon
<1>. QED BY <1>3, <1>4, <1>5, <1>6, Zenon

\* The validator step stays inside.
LEMMA ValidatorLemma ==
  ASSUME LInv, ValidatorStep
  PROVE  Inside
<1> DEFINE failed == [stop |-> "validator_failed", code |-> "validator_failed"]
<1>1. Within
  BY Zenon DEF ValidatorStep, At, cancellation, Within, SettledLabels
<1>2. Goto("succeed") \/ Raise(failed)
  BY Zenon DEF ValidatorStep
<1>3. OKError(failed) /\ failed # NoError
  BY Zenon DEF OKError, NoError, StopReasons
<1> HIDE DEF failed
<1>4. "succeed" \notin SettledLabels
  BY Zenon DEF SettledLabels
<1>. QED BY <1>1, <1>2, <1>3, <1>4, GotoLemma, RaiseLemma, Zenon

-----------------------------------------------------------------------------
(* How a generation is settled.                                            *)

\* complete_run with an outcome of the lifecycle settles the row.
LEMMA CompleteLemma ==
  ASSUME LInv, loop.pc \notin SettledLabels, UNCHANGED <<profiles, caller>>,
         NEW status, NEW stop, NEW label \in {"compose", "done"},
         [status |-> status, stop |-> stop] \in Lifecycle!Outcomes,
         CompleteRun(status, stop), Goto(label),
         label = "compose" => Mode = "direct" /\ stop = "needs_recomposition"
  PROVE  \E row : Settles(row)
<1> DEFINE row == [status |-> status, stop |-> stop]
<1>1. row.stop = stop
  BY Zenon
<1>2. runs' = [runs EXCEPT ![Len(runs)] = row]
  BY Zenon DEF CompleteRun, Gen
<1> HIDE DEF row
<1>3. row \in Lifecycle!Outcomes
  BY Zenon DEF row
<1>4. Settles(row)
  BY <1>1, <1>2, <1>3, Zenon DEF Settles, LInv, Goto
<1>. QED BY <1>4, Zenon

\* The reason a failure is recorded under is a stop reason.
LEMMA FailReasonLemma ==
  ASSUME NEW p, NEW error, error.stop \in StopReasons
  PROVE  FailReason(p, error) \in StopReasons
  BY Zenon DEF FailReason, StopReasons

\* The four ways to end a run settle its row.
LEMMA EndsLemma ==
  ASSUME LInv, RunSucceeds \/ CancelRun \/ HandleRuntimeError \/ WorkerFailsRun
  PROVE  \E row : Settles(row)
<1>1. loop.pc \notin SettledLabels /\ UNCHANGED <<profiles, caller>>
  BY Zenon DEF RunSucceeds, CancelRun, HandleRuntimeError, WorkerFailsRun, At, cancellation,
         SettledLabels
<1>2. CASE RunSucceeds
  <2>1. CompleteRun("succeeded", "completed") /\ Goto("done")
    BY <1>2, Zenon DEF RunSucceeds
  <2>. QED BY <1>1, <2>1, OutcomeLemma, CompleteLemma, Zenon
<1>3. CASE CancelRun
  <2>1. CompleteRun("cancelled", "cancelled") /\ Goto("done")
    BY <1>3, Zenon DEF CancelRun
  <2>. QED BY <1>1, <2>1, OutcomeLemma, CompleteLemma, Zenon
<1>4. CASE HandleRuntimeError
  <2> DEFINE reason == FailReason(Profile, loop.error)
  <2>1. loop.error.stop \in StopReasons
    BY <1>4, Zenon DEF HandleRuntimeError, At, LInv
  <2>2. reason \in StopReasons
    BY <2>1, FailReasonLemma, Zenon
  <2>3. \/ CompleteRun("failed", "needs_recomposition") /\ Goto(AfterRecompositionRequest)
        \/ CompleteRun("failed", reason) /\ Goto("done")
    BY <1>4, Zenon DEF HandleRuntimeError
  <2> HIDE DEF reason
  <2>4. ASSUME CompleteRun("failed", "needs_recomposition"),
               Goto(AfterRecompositionRequest)
        PROVE  \E row : Settles(row)
    <3>1. /\ AfterRecompositionRequest \in {"compose", "done"}
          /\ AfterRecompositionRequest = "compose" => Mode = "direct"
      BY Zenon DEF AfterRecompositionRequest
    <3>2. [status |-> "failed", stop |-> "needs_recomposition"] \in Lifecycle!Outcomes
      BY OutcomeLemma, Zenon DEF StopReasons
    <3>. QED BY <1>1, <2>4, <3>1, <3>2, CompleteLemma, Zenon
  <2>5. ASSUME CompleteRun("failed", reason), Goto("done")
        PROVE  \E row : Settles(row)
    <3>1. [status |-> "failed", stop |-> reason] \in Lifecycle!Outcomes
      BY <2>2, OutcomeLemma, Zenon
    <3>. QED BY <1>1, <2>5, <3>1, CompleteLemma, Zenon
  <2>. QED BY <2>3, <2>4, <2>5, Zenon
<1>5. CASE WorkerFailsRun
  <2>1. CompleteRun("failed", SealReason) /\ Goto("done")
    BY <1>5, Zenon DEF WorkerFailsRun
  <2>2. [status |-> "failed", stop |-> SealReason] \in Lifecycle!Outcomes
    BY OutcomeLemma, Zenon
  <2>. QED BY <1>1, <2>1, <2>2, CompleteLemma, Zenon
<1>. QED BY <1>2, <1>3, <1>4, <1>5, Zenon

\* A worker that finds the row cancelled leaves it so: the generation counts as
\* settled with the caller's row.
LEMMA WorkerReadsLemma ==
  ASSUME LInv, WorkerReadsRun
  PROVE  Inside \/ \E row : Settles(row)
<1>1. Within
  BY Zenon DEF WorkerReadsRun, At, cancellation, Within, SettledLabels
<1>2. CASE runs[Len(runs)].status = "running"
  <2>1. Goto("fail_write")
    BY <1>2, Zenon DEF WorkerReadsRun, Gen
  <2>. QED BY <1>1, <2>1, GotoLemma, Zenon DEF SettledLabels
<1>3. CASE runs[Len(runs)].status # "running"
  <2>1. Goto("done")
    BY <1>3, Zenon DEF WorkerReadsRun, Gen
  <2>2. runs[Len(runs)] = Lifecycle!Cancelled /\ runs \in Seq(Rows)
    BY <1>1, <1>3 DEF Within, LInv, Running
  <2>3. runs' = [runs EXCEPT ![Len(runs)] = Lifecycle!Cancelled]
    BY <1>1, <2>2 DEF Within
  <2>4. Settles(Lifecycle!Cancelled)
    BY <1>1, <2>1, <2>3, OutcomeLemma, Zenon DEF Settles, Within, LInv, Goto
  <2>. QED BY <2>4, Zenon
<1>. QED BY <1>2, <1>3, Zenon

-----------------------------------------------------------------------------
(* The caller, and the theorem.                                            *)

\* The caller cancels the row or leaves it alone; time and rest leave it alone.
LEMMA CallerLemma ==
  ASSUME LInv, CallerStep \/ DurationPasses \/ Rest \/ UNCHANGED vars
  PROVE  LInv' /\ (Lifecycle!CallerCancels \/ UNCHANGED <<runs, SettledRuns>>)
<1>1. CASE CancelItem
  <2>1. /\ UNCHANGED <<runs, profiles, loop>>
        /\ Mode = "queue" /\ runs # <<>>
    BY <1>1, Zenon DEF CancelItem
  <2>2. LInv'
    BY <2>1, Zenon DEF LInv
  <2>. QED BY <2>1, <2>2, Zenon DEF SettledRuns, Gen
<1>2. CASE CallerReadsRun
  <2>1. /\ UNCHANGED <<runs, profiles, loop>>
        /\ caller = "read_run"
    BY <1>2, Zenon DEF CallerReadsRun
  <2>2. Mode # "direct" /\ runs # <<>>
    BY <2>1, Zenon DEF LInv
  <2>3. LInv'
    BY <2>1, <2>2, Zenon DEF LInv
  <2>. QED BY <2>1, <2>3, Zenon DEF SettledRuns, Gen
<1>3. CASE CallerCancelsRun
  <2>1. /\ UNCHANGED <<profiles, loop>>
        /\ caller = "write_run" /\ caller' = "finished"
    BY <1>3, Zenon DEF CallerCancelsRun
  <2>2. Mode # "direct" /\ runs # <<>> /\ runs \in Seq(Rows)
    BY <2>1, Zenon DEF LInv
  <2>3. runs' = [runs EXCEPT ![Len(runs)] = Lifecycle!Cancelled]
    BY <1>3, OutcomeLemma, Zenon DEF CallerCancelsRun, CompleteRun, Gen
  <2>4. Lifecycle!Cancelled \in Rows
    BY OutcomeLemma, Zenon DEF Rows
  <2>5. /\ runs' \in Seq(Rows)
        /\ Len(runs') = Len(runs)
        /\ runs'[Len(runs')] = Lifecycle!Cancelled
        /\ runs' # <<>>
    BY <2>2, <2>3, <2>4
  <2>6. loop.pc # "compose"
    BY <2>2, Zenon DEF LInv
  <2>7. LInv'
    BY <2>1, <2>2, <2>5, <2>6, Zenon DEF LInv
  <2>8. SettledRuns' = SettledRuns
    BY <2>1, <2>5, Zenon DEF SettledRuns, Gen
  <2>. QED BY <2>2, <2>3, <2>7, <2>8, Zenon DEF Lifecycle!CallerCancels
<1>4. CASE DurationPasses \/ Rest \/ UNCHANGED vars
  <2>1. UNCHANGED <<runs, profiles, loop, caller>>
    BY <1>4, Zenon DEF DurationPasses, Rest, vars, cancellation
  <2>2. LInv'
    BY <2>1, Zenon DEF LInv
  <2>. QED BY <2>1, <2>2, Zenon DEF SettledRuns, Gen
<1>. QED BY <1>1, <1>2, <1>3, <1>4, Zenon DEF CallerStep

\* The loop starts where the lifecycle starts.
LEMMA InitLemma ==
  ASSUME Init
  PROVE  LInv /\ Lifecycle!Init
<1>1. /\ loop.pc = "compose" /\ loop.target = "none"
      /\ {"pc", "target", "actions", "results", "counters", "error"} \subseteq DOMAIN loop
  BY Zenon DEF Init, NewLoop
<1>2. runs = <<>> /\ profiles = <<>> /\ caller = "idle"
  BY Zenon DEF Init
<1>3. LInv
  BY <1>1, <1>2 DEF LInv, SettledLabels, Targets
<1>4. Lifecycle!Init
  BY <1>1, <1>2, Zenon DEF Lifecycle!Init, SettledRuns, Gen
<1>. QED BY <1>3, <1>4, Zenon

\* Every step keeps the invariant and is a step or a stutter of the lifecycle.
LEMMA StepLemma ==
  ASSUME LInv, [Next]_vars
  PROVE  LInv' /\ [Lifecycle!Next]_<<runs, SettledRuns>>
<1>1. CASE StartRun \/ StartFails
  BY <1>1, StartLemma, Zenon DEF Lifecycle!Next
<1>2. CASE \/ AssertProfileSeal \/ ValidateProfile \/ CheckRun \/ CheckItem
           \/ \E kind \in Range(Kinds) : DurationExceeded(kind)
           \/ ContextStep \/ PlannerStep \/ ExecutorStarts \/ InvokeTool \/ ToolReturns
           \/ ExecutorSucceeds \/ ValidatorStep
  <2>1. Inside
    BY <1>2, ChecksLemma, DurationLemma, ContextLemma, PlannerLemma, ExecutorLemma,
       ValidatorLemma
  <2>. QED BY <2>1, InsideLemma, Zenon
<1>3. CASE \/ RunSucceeds \/ CancelRun \/ HandleRuntimeError
           \/ WorkerReadsRun \/ WorkerFailsRun
  <2>1. Inside \/ \E row : Settles(row)
    BY <1>3, EndsLemma, WorkerReadsLemma, Zenon
  <2>. QED BY <2>1, InsideLemma, SettlesLemma, Zenon DEF Lifecycle!Next
<1>4. CASE CallerStep \/ DurationPasses \/ Rest \/ UNCHANGED vars
  BY <1>4, CallerLemma, Zenon DEF Lifecycle!Next
<1>. QED BY <1>1, <1>2, <1>3, <1>4, Zenon DEF Next, LoopStep

\* The rows of runtime_runs behave as RunLifecycle says whatever the composer emits,
\* the tools and validators answer and the caller does: one row per generation, a new
\* one only after needs_recomposition, each settled by the loop once, none of an
\* earlier generation touched again (loop.py, entrypoint.py, mark_cancelled).
THEOREM LoopImplementsLifecycle == Spec => ImplementsLifecycle
<1>1. Init => LInv /\ Lifecycle!Init
  BY InitLemma, Zenon
<1>2. LInv /\ [Next]_vars => LInv' /\ [Lifecycle!Next]_<<runs, SettledRuns>>
  BY StepLemma, Zenon
<1>. QED BY <1>1, <1>2, PTL DEF Spec, ImplementsLifecycle, Lifecycle!Spec

-----------------------------------------------------------------------------
(* Counting events, and the tools a plan names.                            *)

\* The indices counted are finitely many.
LEMMA TallyFinite ==
  ASSUME NEW S, NEW s \in Seq(S), NEW types
  PROVE  /\ IsFiniteSet({i \in DOMAIN s : s[i].type \in types})
         /\ Tally(s, types) \in Nat
<1>1. IsFiniteSet(1..Len(s))
  BY FS_Interval
<1>2. {i \in DOMAIN s : s[i].type \in types} \in SUBSET (1..Len(s))
  OBVIOUS
<1>3. IsFiniteSet({i \in DOMAIN s : s[i].type \in types})
  BY <1>1, <1>2, FS_Subset, Zenon
<1>. QED BY <1>3, FS_CardinalityType, Zenon DEF Tally

\* Counting is additive.
LEMMA TallyAdds ==
  ASSUME NEW S, NEW s \in Seq(S), NEW t \in Seq(S), NEW types
  PROVE  Tally(s \o t, types) = Tally(s, types) + Tally(t, types)
<1> DEFINE A == {i \in DOMAIN s : s[i].type \in types}
           B == {i \in DOMAIN t : t[i].type \in types}
           C == {i \in DOMAIN (s \o t) : (s \o t)[i].type \in types}
           m == Len(s)
           D == {i \in C : i > m}
           f == [i \in B |-> i + m]
<1>1. IsFiniteSet(A) /\ IsFiniteSet(B) /\ IsFiniteSet(C)
  <2>1. s \o t \in Seq(S)
    OBVIOUS
  <2>. QED BY <2>1, TallyFinite, Zenon
<1>2. m \in Nat /\ DOMAIN s = 1..m /\ DOMAIN t = 1..Len(t) /\ Len(t) \in Nat
      /\ DOMAIN (s \o t) = 1..(m + Len(t))
  OBVIOUS
<1>3. /\ \A i \in 1..m : (s \o t)[i] = s[i]
      /\ \A i \in 1..Len(t) : (s \o t)[i + m] = t[i]
  OBVIOUS
<1> HIDE DEF m
<1>4. A = {i \in C : i <= m}
  BY <1>2, <1>3
<1>5. C = A \cup D /\ A \cap D = {}
  BY <1>2, <1>4
<1>6. f \in [B -> D]
  BY <1>2, <1>3
<1>7. \A i, j \in B : f[i] = f[j] => i = j
  BY <1>2
<1>8. \A d \in D : \E i \in B : f[i] = d
  <2> SUFFICES ASSUME NEW d \in D PROVE \E i \in B : f[i] = d
    BY Zenon
  <2>1. d - m \in 1..Len(t) /\ (d - m) + m = d
    BY <1>2
  <2>2. d - m \in B
    BY <1>3, <2>1
  <2>. QED BY <2>1, <2>2, Zenon
<1>9. ExistsBijection(B, D)
  <2> HIDE DEF A, B, D, f
  <2>1. f \in Injection(B, D)
    BY <1>6, <1>7, Zenon DEF Injection, IsInjective
  <2>2. f \in Surjection(B, D)
    BY <1>6, <1>8, Zenon DEF Surjection
  <2>. QED BY <2>1, <2>2, Zenon DEF ExistsBijection, Bijection
<1> HIDE DEF A, B, C, D, f
<1>10. IsFiniteSet(D) /\ Cardinality(D) = Cardinality(B)
  BY <1>1, <1>9, FS_Bijection, Zenon
<1>11. Cardinality(C) = Cardinality(A) + Cardinality(D) - Cardinality({})
  BY <1>1, <1>5, <1>10, FS_Union
<1>12. /\ Cardinality(A) \in Nat /\ Cardinality(B) \in Nat
       /\ Cardinality({}) = 0
  BY <1>1, FS_CardinalityType, FS_EmptySet, Zenon
<1>13. /\ Tally(s \o t, types) = Cardinality(C)
       /\ Tally(s, types) = Cardinality(A)
       /\ Tally(t, types) = Cardinality(B)
  BY Zenon DEF Tally, A, B, C
<1>. QED BY <1>10, <1>11, <1>12, <1>13

\* Two types are counted separately.
LEMMA TallySplits ==
  ASSUME NEW S, NEW s \in Seq(S), NEW a, NEW b, a # b
  PROVE  Tally(s, {a, b}) = Tally(s, {a}) + Tally(s, {b})
<1> DEFINE A == {i \in DOMAIN s : s[i].type \in {a}}
           B == {i \in DOMAIN s : s[i].type \in {b}}
           C == {i \in DOMAIN s : s[i].type \in {a, b}}
<1>1. IsFiniteSet(A) /\ IsFiniteSet(B)
  BY TallyFinite, Zenon
<1>2. C = A \cup B /\ A \cap B = {}
  BY Zenon
<1> HIDE DEF A, B, C
<1>3. Cardinality(C) = Cardinality(A) + Cardinality(B) - Cardinality({})
  BY <1>1, <1>2, FS_Union
<1>4. Cardinality(A) \in Nat /\ Cardinality(B) \in Nat /\ Cardinality({}) = 0
  BY <1>1, FS_CardinalityType, FS_EmptySet, Zenon
<1>. QED BY <1>3, <1>4 DEF Tally, A, B, C

\* What lists of elements of S are concatenated to.
LEMMA ConcatenatedLemma ==
  ASSUME NEW S, NEW seqs \in Seq(Seq(S))
  PROVE  Concatenated(seqs) \in Seq(S)
<1> DEFINE n == Len(seqs)
           Flat(k, f) == f = [i \in 0..k |-> IF i = 0 THEN <<>> ELSE f[i - 1] \o seqs[i]]
           Bad == {k \in Nat : k <= n /\ ~ \E f \in [0..k -> Seq(S)] : Flat(k, f)}
<1>1. n \in Nat /\ <<>> \in Seq(S)
  OBVIOUS
<1>2. \A i \in 1..n : seqs[i] \in Seq(S)
  OBVIOUS
<1> HIDE DEF n
<1>3. Bad = {}
  <2> SUFFICES ASSUME Bad # {} PROVE FALSE
    BY Zenon
  <2>1. PICK x \in Bad : \A y \in Bad : x <= y
    BY LeastNumber, Zenon
  <2>2. CASE x = 0
    <3> DEFINE f == [i \in 0..0 |-> <<>>]
    <3>1. f \in [0..0 -> Seq(S)] /\ Flat(0, f)
      BY <1>1
    <3>. QED BY <2>1, <2>2, <3>1, Zenon
  <2>3. CASE x # 0
    <3>1. x - 1 \in Nat /\ x - 1 <= n /\ x - 1 \notin Bad /\ x \in 1..n
      <4>1. x \in Nat /\ x <= n
        BY <2>1, Zenon
      <4> HIDE DEF Bad
      <4>. QED BY <1>1, <2>1, <2>3, <4>1
    <3>2. PICK f \in [0..(x - 1) -> Seq(S)] : Flat(x - 1, f)
      BY <3>1, Zenon
    <3> DEFINE last == f[x - 1] \o seqs[x]
               g == [i \in 0..x |-> IF i = x THEN last ELSE f[i]]
    <3>3. last \in Seq(S)
      BY <1>2, <3>1
    <3>4. g \in [0..x -> Seq(S)]
      <4> HIDE DEF last
      <4>. QED BY <3>1, <3>3
    <3>5. ASSUME NEW i \in 0..x
          PROVE  g[i] = IF i = 0 THEN <<>> ELSE g[i - 1] \o seqs[i]
      <4>1. CASE i = x
        <5>1. x \in 0..x /\ x - 1 \in 0..x /\ x # 0 /\ x - 1 # x
          BY <3>1
        <5>2. g[x] = last /\ g[x - 1] = f[x - 1]
          BY <5>1, Zenon
        <5>. QED BY <4>1, <5>1, <5>2, Zenon
      <4>2. CASE i # x
        <5>1. i \in 0..(x - 1) /\ (i # 0 => i - 1 \in 0..(x - 1))
          BY <3>1, <4>2
        <5>2. f[i] = IF i = 0 THEN <<>> ELSE f[i - 1] \o seqs[i]
          BY <3>2, <5>1, Zenon
        <5>3. g[i] = f[i] /\ (i # 0 => g[i - 1] = f[i - 1])
          BY <3>1, <4>2, <5>1
        <5>. QED BY <5>2, <5>3, Zenon
      <4>. QED BY <4>1, <4>2, Zenon
    <3> HIDE DEF g
    <3>6. Flat(x, g)
      BY <3>4, <3>5, ZenonT(30)
    <3>. QED BY <2>1, <3>4, <3>6, Zenon
  <2>. QED BY <2>2, <2>3, Zenon
<1>4. \E f : Flat(n, f)
  <2>1. n <= n
    BY <1>1
  <2> HIDE DEF Flat
  <2>. QED BY <1>1, <1>3, <2>1, Zenon
<1> DEFINE F == CHOOSE f : Flat(n, f)
<1>5. Flat(n, F)
  BY <1>4, Zenon
<1>6. Concatenated(seqs) = F[n]
  BY Zenon DEF Concatenated, n
<1> HIDE DEF F
<1> DEFINE Worse == {i \in 0..n : F[i] \notin Seq(S)}
<1>7. Worse = {}
  <2> SUFFICES ASSUME Worse # {} PROVE FALSE
    BY Zenon
  <2>1. Worse \subseteq Nat
    BY <1>1
  <2>2. PICK x \in Worse : \A y \in Worse : x <= y
    <3> HIDE DEF Worse
    <3>. QED BY <2>1, LeastNumber, Zenon
  <2>3. F[x] = IF x = 0 THEN <<>> ELSE F[x - 1] \o seqs[x]
    BY <1>5, <2>2, Zenon
  <2>4. x # 0 => F[x - 1] \in Seq(S) /\ seqs[x] \in Seq(S)
    BY <1>1, <1>2, <2>2
  <2>5. CASE x = 0
    BY <1>1, <2>2, <2>3, <2>5, Zenon
  <2>6. CASE x # 0
    <3>1. F[x - 1] \o seqs[x] \in Seq(S)
      BY <2>4, <2>6
    <3>. QED BY <2>2, <2>3, <2>6, <3>1, ZenonT(30)
  <2>. QED BY <2>5, <2>6, Zenon
<1>. QED BY <1>1, <1>6, <1>7

\* A list of checks that raises nothing has passed every check.
LEMMA AllPassed ==
  ASSUME NEW checks, NEW n \in Nat, DOMAIN checks = 1..n, FirstError(checks) = NoError
  PROVE  \A k \in 1..n : checks[k] = NoError
<1> DEFINE T == {k \in 1..n : checks[k] # NoError}
<1> SUFFICES ASSUME T # {} PROVE FALSE
  BY Zenon
<1>1. T \subseteq Nat
  OBVIOUS
<1>2. PICK x \in T : \A y \in T : x <= y
  <2> HIDE DEF T
  <2>. QED BY <1>1, LeastNumber, Zenon
<1> DEFINE First(i) == checks[i] # NoError /\ \A j \in 1..(i - 1) : checks[j] = NoError
           c == CHOOSE i \in DOMAIN checks : First(i)
<1>3. x \in DOMAIN checks /\ First(x)
  BY <1>2
<1>4. c \in DOMAIN checks /\ First(c)
  <2> HIDE DEF First
  <2>. QED BY <1>3, Zenon
<1>5. FirstError(checks) = checks[c]
  BY <1>3, Zenon DEF FirstError
<1>. QED BY <1>4, <1>5, Zenon

\* A profile the loop goes on with has not used up its recompositions.
LEMMA ValidProfile ==
  ASSUME NEW p, ValidateProfileForRuntime(p) = NoError
  PROVE  p.generation - 1 <= p.limits.max_recompositions
<1> DEFINE a == Unless(SelectedModules(p) \subseteq DOMAIN p.pinned,
                       Denied("selected_module_version_missing"))
           b == Unless(p.generation - 1 <= p.limits.max_recompositions,
                       LimitExceeded("max_recompositions"))
           checks == <<a, b, p.authority>>
<1>1. DOMAIN checks = 1..3 /\ checks[2] = b
  OBVIOUS
<1>2. FirstError(checks) = NoError
  BY Zenon DEF ValidateProfileForRuntime
<1> HIDE DEF checks, b
<1>3. b = NoError
  <2>1. \A k \in 1..3 : checks[k] = NoError
    BY <1>1, <1>2, AllPassed, Zenon
  <2>. QED BY <1>1, <2>1
<1>4. LimitExceeded("max_recompositions") # NoError
  BY Zenon DEF LimitExceeded, NoError
<1>. QED BY <1>3, <1>4, Zenon DEF Unless, b

\* Every action a handler plans is a read of the repository.
LEMMA HandlersRead ==
  \A s \in DOMAIN HandlerActions : HandlerActions[s] \in Seq(RepositoryReaders)
<1>1. /\ <<"git-read", "filesystem-read">> \in Seq(RepositoryReaders)
      /\ <<"git-read", "filesystem-list", "filesystem-read">> \in Seq(RepositoryReaders)
      /\ <<"filesystem-list", "filesystem-read", "filesystem-read">> \in Seq(RepositoryReaders)
      /\ <<>> \in Seq(RepositoryReaders)
  BY DEF RepositoryReaders
<1> HIDE DEF RepositoryReaders
<1>. QED BY <1>1, Zenon DEF HandlerActions

\* A skill the planner accepts has a built-in handler.
LEMMA SkillHandled ==
  ASSUME NEW p, NEW s, SkillError(p, s) = NoError
  PROVE  s \in DOMAIN HandlerActions
<1> DEFINE a == Unless(s \in Range(p.skills), Denied("skill_not_in_runtime_profile"))
           b == Unless(s \in DOMAIN p.pinned, Denied("selected_skill_version_missing"))
           c == Unless(/\ s \in DOMAIN HandlerActions
                       /\ p.pinned[s] = HandlerVersion, Denied("skill_handler_not_registered"))
           checks == <<a, b, c>>
<1>1. DOMAIN checks = 1..3 /\ checks[3] = c
  OBVIOUS
<1>2. FirstError(checks) = NoError
  BY Zenon DEF SkillError
<1> HIDE DEF checks, c
<1>3. c = NoError
  <2>1. \A k \in 1..3 : checks[k] = NoError
    BY <1>1, <1>2, AllPassed, Zenon
  <2>. QED BY <1>1, <2>1
<1>4. Denied("skill_handler_not_registered") # NoError
  BY Zenon DEF Denied, NoError
<1>. QED BY <1>3, <1>4, Zenon DEF Unless, c

\* So is every action of a plan.
LEMMA PlanActions ==
  ASSUME NEW p, ProfileOK(p), BuildRuntimePlan(p).error = NoError
  PROVE  BuildRuntimePlan(p).actions \in Seq(RepositoryReaders)
<1> DEFINE skills == ExecutableSkills(p)
           roles == IF p.roles.given THEN SkillRolesError(p) ELSE NoError
           rest == [i \in DOMAIN skills |-> SkillError(p, skills[i])]
           lists == [i \in DOMAIN skills |-> HandlerActions[skills[i]]]
<1>1. skills \in Seq(STRING)
  <2>1. p.roles.runtime \o p.roles.shared \in Seq(STRING)
    BY DEF ProfileOK
  <2>2. p.skills \in Seq(STRING)
    BY Zenon DEF ProfileOK
  <2>. QED BY <2>1, <2>2, Zenon DEF ExecutableSkills
<1>2. /\ BuildRuntimePlan(p).error = FirstError(<<roles>> \o rest)
      /\ BuildRuntimePlan(p).actions = Concatenated(lists)
  BY Zenon DEF BuildRuntimePlan
<1> HIDE DEF skills
<1>3. PICK n \in Nat : DOMAIN skills = 1..n
  BY <1>1
<1>4. rest \in Seq({rest[k] : k \in 1..n}) /\ DOMAIN rest = 1..n
  <2>1. rest = [k \in 1..n |-> rest[k]]
    BY <1>3, Zenon
  <2> HIDE DEF rest
  <2>. QED BY <2>1
<1> HIDE DEF roles
<1> DEFINE checks == <<roles>> \o rest
<1>5. DOMAIN checks = 1..(n + 1) /\ \A k \in 1..n : checks[k + 1] = rest[k]
  <2> HIDE DEF rest
  <2>1. Len(rest) = n
    BY <1>4
  <2>. QED BY <1>4, <2>1
<1>6. \A k \in 1..n : rest[k] = NoError
  <2> HIDE DEF rest
  <2>1. \A k \in 1..(n + 1) : checks[k] = NoError
    <3>1. FirstError(checks) = NoError
      BY <1>2, Zenon
    <3> HIDE DEF checks
    <3>. QED BY <1>5, <3>1, AllPassed
  <2>2. \A k \in 1..n : k + 1 \in 1..(n + 1)
    OBVIOUS
  <2> HIDE DEF checks
  <2>. QED BY <1>5, <2>1, <2>2
<1>7. \A k \in 1..n : skills[k] \in DOMAIN HandlerActions
  BY <1>3, <1>6, SkillHandled, Zenon
<1>8. \A k \in 1..n : lists[k] \in Seq(RepositoryReaders)
  BY <1>3, <1>7, HandlersRead, Zenon
<1>9. lists \in Seq(Seq(RepositoryReaders))
  BY <1>3, <1>8
<1> HIDE DEF lists
<1>. QED BY <1>2, <1>9, ConcatenatedLemma, Zenon

\* The facts RunTraceProofs rests on.
LEMMA LawsHold == Laws
<1>1. Cardinality({}) = 0 /\ (\A x : Cardinality({x}) = 1) /\ (\A n \in Nat : Cardinality(1..n) = n)
  <2>1. \A n \in Nat : Cardinality(1..n) = n
    BY FS_Interval
  <2>. QED BY <2>1, FS_EmptySet, FS_Singleton, Zenon
<1>2. \A S, types : \A s \in Seq(S) : Tally(s, types) \in Nat
  BY TallyFinite, Zenon
<1>3. Additive
  BY TallyAdds, Zenon DEF Additive
<1>4. Separate
  BY TallySplits, Zenon DEF Separate
<1>5. \A p, counters, tool, over : OKError(RecordToolInvocation(p, counters, tool, over).error)
  BY AccessFails, Zenon
<1>6. \A p : ValidateProfileForRuntime(p) = NoError => p.generation - 1 <= p.limits.max_recompositions
  BY ValidProfile, Zenon
<1>7. \A p : ProfileOK(p) /\ BuildRuntimePlan(p).error = NoError =>
               BuildRuntimePlan(p).actions \in Seq(RepositoryReaders)
  BY PlanActions, Zenon
<1>8. \A kinds \in SUBSET {"context", "planner", "executor", "validator"} : Cardinality(kinds) \in Nat
  <2>1. IsFiniteSet({"context"})
    BY FS_Singleton, Zenon
  <2>2. IsFiniteSet({"context"} \cup {"planner"})
    BY <2>1, FS_AddElement, Zenon
  <2>3. IsFiniteSet(({"context"} \cup {"planner"}) \cup {"executor"})
    BY <2>2, FS_AddElement, Zenon
  <2>4. IsFiniteSet((({"context"} \cup {"planner"}) \cup {"executor"}) \cup {"validator"})
    BY <2>3, FS_AddElement, Zenon
  <2>5. {"context", "planner", "executor", "validator"}
          = (({"context"} \cup {"planner"}) \cup {"executor"}) \cup {"validator"}
    BY Zenon
  <2>. QED BY <2>4, <2>5, FS_Subset, FS_CardinalityType, Zenon
<1>. QED BY <1>1, <1>2, <1>3, <1>4, <1>5, <1>6, <1>7, <1>8, Zenon DEF Laws

-----------------------------------------------------------------------------
(* The trace.                                                              *)

\* TInv holds always.
LEMMA TraceInvariant == Spec => [](LInv /\ TInv)
<1>1. Init => LInv /\ TInv
  BY InitLemma, TraceInit, Zenon
<1>2. LInv /\ TInv /\ [Next]_vars => (LInv /\ TInv)'
  <2>1. ASSUME LInv, TInv, [Next]_vars PROVE LInv' /\ TInv'
    <3>1. LInv'
      BY <2>1, StepLemma, Zenon
    <3>2. TInv'
      BY <2>1, <3>1, LawsHold, TraceStep, Zenon
    <3>. QED BY <3>1, <3>2, Zenon
  <2>. QED BY <2>1, Zenon
<1>. QED BY <1>1, <1>2, PTL DEF Spec

\* No sealed profile's budgets are exceeded: RuntimeEnforcer.record_tool_invocation counts
\* every adapter call before it is made.
THEOREM BudgetsAreKept == Spec => []BudgetsHold
<1>1. LInv /\ TInv => BudgetsHold
  BY EveryGeneration, CountLemma, Zenon DEF BudgetsHold, Kept
<1>. QED BY <1>1, TraceInvariant, PTL

\* A succeeded run was validated: RuntimeLoop.run reaches complete_run("succeeded") only
\* through all four steps, with every verdict passed.
THEOREM SuccessIsValidated == Spec => []SucceededIsValidated
<1>1. ASSUME LInv, TInv PROVE SucceededIsValidated
  <2> SUFFICES ASSUME NEW g \in DOMAIN runs, runs[g].status = "succeeded"
               PROVE  /\ \A kind \in Range(Kinds) : steps[g][kind].status = "succeeded"
                      /\ Last(checkpoints[g]) = "validator"
                      /\ Count(g, {"validator_executed"}) = Validators
                      /\ \A i \in DOMAIN events[g] : events[g][i].stop \in {"none", "completed"}
    BY Zenon DEF SucceededIsValidated
  <2>1. Validated(steps[g], events[g], checkpoints[g])
    BY <1>1, EveryGeneration, ZenonT(30) DEF Kept
  <2>. QED BY <2>1, KindsLemma, CountLemma, Zenon DEF Validated, StepsAre, Clean, Last
<1>. QED BY <1>1, TraceInvariant, PTL

\* Recompositions stay within the budgets of the profiles they follow, and a generation
\* whose own budget is already exceeded does no work (_handle_runtime_error,
\* validate_profile_for_runtime).
THEOREM RecompositionsAreBudgeted == Spec => []RecompositionWithinBudget
<1>1. ASSUME LInv, TInv PROVE RecompositionWithinBudget
  <2> SUFFICES ASSUME NEW g \in DOMAIN runs
               PROVE  /\ g > 1 =>
                           /\ runs[g - 1] = [status |-> "failed", stop |-> "needs_recomposition"]
                           /\ g - 1 <= profiles[g - 1].limits.max_recompositions
                           /\ "recompose_once" \in Range(profiles[g - 1].failure_policy)
                      /\ g - 1 > profiles[g].limits.max_recompositions =>
                           Count(g, {"step_started", "tool_invocation_started"}) = 0
    BY Zenon DEF RecompositionWithinBudget
  <2>1. g \in 1..Gen /\ Gen \in Nat /\ events[g] \in Seq(Events)
    BY <1>1, EveryGeneration, Zenon
  <2>2. ASSUME g > 1
        PROVE  Recomposed(g - 1, runs[g - 1], profiles[g - 1], events[g - 1])
    <3>1. g - 1 \in DOMAIN runs /\ g - 1 < Gen
      BY <1>1, <2>1, <2>2, SMTT(40) DEF LInv, Gen
    <3>. QED BY <1>1, <3>1, EveryGeneration, Zenon
  <2>3. g - 1 > profiles[g].limits.max_recompositions => Work(events[g]) = 0
    BY <1>1, EveryGeneration, ZenonT(30) DEF Kept
  <2>4. Work(events[g]) = Count(g, {"step_started", "tool_invocation_started"})
    BY <2>1, LawsHold, TallyTwo, CountLemma, Zenon DEF Work
  <2>. QED BY <2>2, <2>3, <2>4, Zenon DEF Recomposed
<1>. QED BY <1>1, TraceInvariant, PTL

\* A cancelled item stops the loop before its second next piece of work: every phase and
\* every tool call has _raise_if_cancelled in front of it.
THEOREM CancellationStopsWork == Spec => []CancellationIsPrompt
<1>1. ASSUME LInv, TInv PROVE CancellationIsPrompt
  <2> SUFFICES ASSUME item = "cancelled" PROVE WorkStarted <= workAtCancel + 1
    BY Zenon DEF CancellationIsPrompt
  <2>1. runs # <<>> /\ Prompt(events[Gen], loop.pc, workAtCancel)
    BY <1>1, Zenon DEF TInv, Gen
  <2>2. events[Gen] \in Seq(Events)
    BY <1>1, <2>1, CurrentLemma, Zenon
  <2>3. Work(events[Gen]) = WorkStarted
    BY <2>2, LawsHold, TallyTwo, CountLemma, ZenonT(30) DEF Work, WorkStarted
  <2>. QED BY <2>1, <2>3, Zenon DEF Prompt
<1>. QED BY <1>1, TraceInvariant, PTL

\* The trace is a faithful account of the tables, for every profile, every answer of the
\* tools and validators and every moment of a cancellation (FlightRecorder, loop.py).
THEOREM TracesAreFaithful == Spec => []TraceIsFaithful
<1>1. ASSUME LInv, TInv PROVE TraceIsFaithful
  <2> SUFFICES ASSUME NEW g \in DOMAIN runs
               PROVE
        LET open == {kind \in Range(Kinds) : steps[g][kind].status = "running"}
            invoking == IF g = Gen /\ At("invoked") THEN 1 ELSE 0
        IN  /\ \A i \in 1..(Len(events[g]) - 1) : events[g][i].type \notin TerminalEvents
            /\ Count(g, {"step_started"}) = Count(g, {"step_completed"}) + Cardinality(open)
            /\ Count(g, {"tool_invocation_started"})
                 = Count(g, {"tool_invocation_completed"}) + invoking
            /\ Count(g, {"tool_invocation_completed"})
                 = Count(g, {"runtime_after_tool_hook_evaluated"})
            /\ Count(g, {"checkpoint_created"}) = Len(checkpoints[g])
            /\ (Terminal(g) /\ (g < Gen \/ Finished \/ At("compose"))) =>
                 \/ runs[g].stop = Last(events[g]).stop
                 \/ runs[g].status = "cancelled" /\ caller = "finished"
    BY Zenon DEF TraceIsFaithful
  <2> DEFINE invoking == IF g = Gen /\ At("invoked") THEN 1 ELSE 0
  <2>1. /\ g \in 1..Gen /\ Gen \in Nat /\ events[g] \in Seq(Events)
        /\ Kept(g, runs[g], profiles[g], steps[g], events[g], checkpoints[g], invoking)
        /\ g < Gen => Recomposed(g, runs[g], profiles[g], events[g])
        /\ g = Gen => Present(g, runs[g], profiles[g], steps[g], events[g], checkpoints[g],
                              loop, caller)
    BY <1>1, EveryGeneration, Zenon
  <2> HIDE DEF invoking
  <2>2. /\ EndsOnce(events[g]) /\ events[g] # <<>>
        /\ Accounts(steps[g], events[g], checkpoints[g], invoking)
    BY <2>1, ZenonT(30) DEF Kept
  <2>3. ASSUME Terminal(g), g < Gen \/ Finished \/ At("compose")
        PROVE  \/ runs[g].stop = Last(events[g]).stop
               \/ runs[g].status = "cancelled" /\ caller = "finished"
    <3>1. Last(events[g]) = events[g][Len(events[g])] /\ Len(events[g]) \in DOMAIN events[g]
      BY <2>1, <2>2, SMTT(60) DEF Last
    <3>2. CASE g < Gen
      BY <2>1, <3>1, <3>2, SMTT(60) DEF Recomposed
    <3>3. CASE g = Gen
      <4>1. loop.pc \in SettledLabels
        BY <2>1, <2>3, <3>1, <3>3, ZenonT(30) DEF Present, Unended, Terminal
      <4>. QED BY <2>1, <2>3, <3>1, <3>3, <4>1, ZenonT(30) DEF Present, Terminal
    <3>. QED BY <2>1, <3>2, <3>3, SMTT(60)
  <2>4. /\ Count(g, {"step_started"})
             = Count(g, {"step_completed"}) + Cardinality(Unfinished(steps[g]))
        /\ Count(g, {"tool_invocation_started"})
             = Count(g, {"tool_invocation_completed"}) + invoking
        /\ Count(g, {"tool_invocation_completed"})
             = Count(g, {"runtime_after_tool_hook_evaluated"})
        /\ Count(g, {"checkpoint_created"}) = Len(checkpoints[g])
    BY <2>2, CountLemma, Zenon DEF Accounts
  <2>. QED BY <2>2, <2>3, <2>4, Zenon DEF EndsOnce, Unfinished, invoking
<1>. QED BY <1>1, TraceInvariant, PTL
=============================================================================
