------------------------------- MODULE RunLoop -------------------------------
(***************************************************************************)
(* MinimalRuntimeLoop (runtime/loop.py) with the entry point that composes *)
(* and starts a run (entrypoint.py), the flight recorder (flight_recorder  *)
(* .py) and the tool gateway (tool_gateway.py), for one task.              *)
(*                                                                         *)
(* Mode "queue" is a queue worker: one generation, the cancellation checker*)
(* reads the queue item, and a caller of the API may cancel.  Mode "direct"*)
(* is run_with_recomposition: no queue item, one run row per generation.   *)
(*                                                                         *)
(* The loop is one thread.  It shares with the caller only the item's      *)
(* status and the run row, so one action is a stretch of the loop between  *)
(* two accesses to these (or to the tool adapter, which takes time).       *)
(***************************************************************************)
EXTENDS ProfileEnforcer

CONSTANTS
  Mode,         \* "queue" or "direct"
  Profiles,     \* the profiles the composer may emit, before the generation is set
  Adapters,     \* tools with a registered adapter
  Validators,   \* how many validators a profile selects
  Escapes       \* BOOLEAN: may an exception outside the caught tuple be raised

ASSUME LoopAssumption ==
  /\ Mode \in {"queue", "direct"}
  /\ Validators \in Nat
  /\ Escapes \in BOOLEAN

\* A profile has the fields the loop reads, with the types its schema gives them.
ASSUME ProfilesAssumption ==
  \A p \in Profiles :
    /\ {"generation", "authority", "skills", "roles", "limits", "failure_policy"}
         \subseteq DOMAIN p
    /\ p.limits \in [max_tool_calls : Nat, max_data_reads : Nat, max_recompositions : Nat]
    /\ {"on_validator_failure", "on_policy_denial", "on_budget_exhausted"}
         \subseteq DOMAIN p.failure_policy
    /\ p.authority = NoError \/ p.authority.stop = "policy_denied"
    /\ p.skills \in Seq(STRING)
    /\ p.roles.runtime \in Seq(STRING)
    /\ p.roles.non_runtime \in Seq(STRING)
    /\ p.roles.shared \in Seq(STRING)

VARIABLES
  runs,        \* runtime_runs, one row per generation
  profiles,    \* the sealed profile of each generation
  steps,       \* runtime_steps of each generation, by kind
  events,      \* runtime_events of each generation, in index order
  checkpoints, \* phases of runtime_checkpoints of each generation
  loop,        \* the loop's local state
  item,        \* the status of the queue item
  caller,      \* where the cancelling caller is in mark_cancelled
  workAtCancel,\* history: WorkStarted when the item was cancelled
  late         \* more than max_duration_seconds since the enforcer was made

recorded == <<steps, events, checkpoints>>
cancellation == <<item, caller, workAtCancel>>
vars == <<runs, profiles, steps, events, checkpoints, loop, item, caller,
          workAtCancel, late>>

Kinds == <<"context", "planner", "executor", "validator">>
Gen == Len(runs)
Profile == profiles[Gen]

NotStarted == [status |-> "absent", stop |-> "none"]
Running == [status |-> "running", stop |-> "none"]
Event(type) == [type |-> type, stop |-> "none"]
StopEvent(type, stop) == [type |-> type, stop |-> stop]

StopReasons == {"max_duration", "max_tool_calls", "max_data_reads",
                "max_recompositions", "policy_denied", "validator_failed",
                "tool_error", "needs_recomposition"}
\* The stop reason of _assert_profile_seal, which no vocabulary of the code lists.
SealReason == "profile_integrity_failure"

NewLoop == [pc |-> "compose", target |-> "none", actions |-> <<>>,
            results |-> 0, counters |-> [tool_calls |-> 0, data_reads |-> 0,
                                         recompositions |-> 0],
            error |-> NoError]

Init ==
  /\ runs = <<>> /\ profiles = <<>> /\ steps = <<>>
  /\ events = <<>> /\ checkpoints = <<>>
  /\ loop = NewLoop
  /\ item = "running"
  /\ caller = "idle"
  /\ workAtCancel = 0
  /\ late = FALSE

At(label) == loop.pc = label
Goto(label) == loop' = [loop EXCEPT !.pc = label]
\* _raise_if_cancelled in front of what target names.
CheckThen(target) == loop' = [loop EXCEPT !.pc = "check_run", !.target = target]
Raise(error) == loop' = [loop EXCEPT !.pc = "error", !.error = error]

\* FlightRecorder: record_event, checkpoint, start_step and complete_step.
Emit(new) == events' = [events EXCEPT ![Gen] = @ \o new]
Checkpointed(phase) == checkpoints' = [checkpoints EXCEPT ![Gen] = Append(@, phase)]
SetStep(kind, status, stop) ==
  steps' = [steps EXCEPT ![Gen][kind] = [status |-> status, stop |-> stop]]

\* Events of some types in the trace of generation g, and the phases and tool
\* invocations the current generation has started.
Count(g, types) == Cardinality({i \in DOMAIN events[g] : events[g][i].type \in types})
WorkStarted == Count(Gen, {"step_started", "tool_invocation_started"})

-----------------------------------------------------------------------------
(* RuntimeEntryPoint.start and continue_recomposition.                     *)

\* continue_recomposition asks for the generation after the failed one.
Sealed(p) == [p EXCEPT !.generation = Gen + 1]

\* A profile is composed and sealed, the run row inserted, and the start of the
\* trace recorded.
StartRun ==
  /\ At("compose")
  /\ \E p \in Profiles :
       /\ profiles' = Append(profiles, Sealed(p))
       /\ loop' = [NewLoop EXCEPT !.pc = "seal", !.counters = NewCounters(Sealed(p))]
  /\ runs' = Append(runs, Running)
  /\ steps' = Append(steps, [kind \in Range(Kinds) |-> NotStarted])
  /\ events' = Append(events,
       <<Event("task_analyzed"), Event("candidates_discovered"),
         Event("profile_emitted"), Event("profile_validated"),
         Event("checkpoint_created"), Event("runtime_started")>>)
  /\ checkpoints' = Append(checkpoints, <<"composition">>)
  /\ late' = FALSE
  /\ UNCHANGED cancellation

\* Analysis, tenant status or composition raises before a row is inserted.
StartFails ==
  /\ At("compose")
  /\ Goto("raised")
  /\ UNCHANGED <<runs, profiles, recorded, cancellation, late>>

-----------------------------------------------------------------------------
(* run: the seal, the profile, and the cancellation checkpoints.           *)

\* The artifact is read back.  A broken seal leaves run before its try block: the
\* queue worker then fails the row, a direct driver leaves it as it is.
AssertProfileSeal ==
  /\ At("seal")
  /\ \/ Goto("validate")
     \/ Goto(IF Mode = "queue" THEN "fail_read" ELSE "abandoned")
  /\ UNCHANGED <<runs, profiles, recorded, cancellation, late>>

ValidateProfile ==
  /\ At("validate")
  /\ LET error == ValidateProfileForRuntime(Profile)
     IN  IF error = NoError THEN CheckThen("before_context") ELSE Raise(error)
  /\ UNCHANGED <<runs, profiles, recorded, cancellation, late>>

\* run checks once between two phases, and the phase checks again.
Proceed(target) ==
  CASE target = "before_context" -> CheckThen("context")
    [] target = "before_planner" -> CheckThen("planner")
    [] target = "before_executor" -> CheckThen("executor")
    [] target = "before_validator" -> CheckThen("validator")
    [] OTHER -> Goto(target)

\* _raise_if_cancelled reads the run row, then the item if there is a checker.
CheckRun ==
  /\ At("check_run")
  /\ IF runs[Gen].status = "cancelled" THEN Goto("cancelled")
     ELSE IF Mode = "queue" THEN Goto("check_item")
     ELSE Proceed(loop.target)
  /\ UNCHANGED <<runs, profiles, recorded, cancellation, late>>

\* Mutant: the cancellation checker's answer is ignored.
CheckItemMutant ==
  /\ At("check_item")
  /\ Proceed(loop.target)
  /\ UNCHANGED <<runs, profiles, recorded, cancellation, late>>

CheckItem ==
  /\ At("check_item")
  /\ IF item = "cancelled" THEN Goto("cancelled") ELSE Proceed(loop.target)
  /\ UNCHANGED <<runs, profiles, recorded, cancellation, late>>

-----------------------------------------------------------------------------
(* The phases.                                                             *)

\* check_duration fails before the step row is written.
DurationExceeded(kind) ==
  /\ At(kind)
  /\ CheckDuration(late) # NoError
  /\ Raise(CheckDuration(late))
  /\ UNCHANGED <<runs, profiles, recorded, cancellation, late>>

StepSucceeded(kind) ==
  <<Event("checkpoint_created"), StopEvent("step_completed", "completed")>>

\* start_step, the work, the checkpoint, step_completed and complete_step, for a
\* phase whose work succeeds.
StepRuns(kind, next) ==
  /\ Emit(<<Event("step_started")>> \o StepSucceeded(kind))
  /\ Checkpointed(kind)
  /\ SetStep(kind, "succeeded", "completed")
  /\ next

\* An enforcement error or an escaping exception inside the work of a phase: the
\* step row stays as start_step wrote it.
StepLeftRunning(kind, next) ==
  /\ Emit(<<Event("step_started")>>)
  /\ SetStep(kind, "running", "none")
  /\ next
  /\ UNCHANGED checkpoints

\* _context_step: scopes and the retrieval response are checked (RetrievalContext
\* models the checks), or the Control Plane client raises.
ContextStep ==
  /\ At("context")
  /\ CheckDuration(late) = NoError
  /\ \/ StepRuns("context", CheckThen("before_planner"))
     \/ StepLeftRunning("context", Raise(Denied("retrieval_response_metadata_invalid")))
     \/ Escapes /\ StepLeftRunning("context", Goto("abandoned"))
  /\ UNCHANGED <<runs, profiles, cancellation, late>>

PlannerStep ==
  /\ At("planner")
  /\ CheckDuration(late) = NoError
  /\ LET plan == BuildRuntimePlan(Profile)
     IN  IF plan.error = NoError
         THEN StepRuns("planner",
                loop' = [loop EXCEPT !.pc = "check_run", !.target = "before_executor",
                                     !.actions = plan.actions])
         ELSE StepLeftRunning("planner", Raise(plan.error))
  /\ UNCHANGED <<runs, profiles, cancellation, late>>

\* The executor's for loop: a checkpoint in front of every action.
NextAction(remaining) == IF remaining = <<>> THEN "executed" ELSE "check_run"

ExecutorStarts ==
  /\ At("executor")
  /\ CheckDuration(late) = NoError
  /\ Emit(<<Event("step_started")>>)
  /\ SetStep("executor", "running", "none")
  /\ loop' = [loop EXCEPT !.pc = NextAction(loop.actions), !.target = "invoke"]
  /\ UNCHANGED <<runs, profiles, checkpoints, cancellation, late>>

\* ToolDeniedError and ToolExecutionError complete the step before they go on.
ExecutorFails(extra, error, counters) ==
  /\ Emit(extra \o <<StopEvent("step_completed", error.stop)>>)
  /\ SetStep("executor", "failed", error.stop)
  /\ loop' = [loop EXCEPT !.pc = "error", !.error = error, !.counters = counters]

\* ToolGateway.invoke up to the adapter's call.
InvokeTool ==
  /\ At("invoke")
  /\ LET tool == Head(loop.actions)
         access == RecordToolInvocation(Profile, loop.counters, tool, late)
         missing == [stop |-> "tool_error", code |-> "tool_adapter_missing"]
     IN  \/ /\ access.error # NoError
            /\ ExecutorFails(<<StopEvent("access_attempted", access.error.stop)>>,
                             access.error, access.counters)
         \/ /\ access.error = NoError
            /\ tool \notin Adapters
            /\ ExecutorFails(<<>>, missing, access.counters)
         \/ /\ access.error = NoError
            /\ tool \in Adapters
            /\ Emit(<<Event("access_attempted"), Event("tool_invocation_started")>>)
            /\ loop' = [loop EXCEPT !.pc = "invoked", !.counters = access.counters]
            /\ UNCHANGED steps
  /\ UNCHANGED <<runs, profiles, checkpoints, cancellation, late>>

\* Mutant: the hook runs for successful invocations only.
ToolEventsMutant(status, hook) ==
  IF status = "failed" THEN <<StopEvent("tool_invocation_completed", "tool_error")>>
  ELSE <<Event("tool_invocation_completed"), Event("runtime_after_tool_hook_evaluated")>>

\* The adapter returns or raises; the invocation row and its event are written, and
\* the after-tool hook compares them with the artifacts it reads back.
ToolEvents(status, hook) ==
  <<StopEvent("tool_invocation_completed", IF status = "failed" THEN "tool_error" ELSE "none"),
    StopEvent("runtime_after_tool_hook_evaluated",
              IF hook = "failed" THEN "policy_denied" ELSE "none")>>

ToolReturns ==
  /\ At("invoked")
  /\ \E status \in {"succeeded", "failed"}, hook \in {"passed", "failed"} :
       LET error == CASE hook = "failed" -> Denied("runtime_after_tool_hook_failed")
                      [] status = "failed" ->
                           [stop |-> "tool_error", code |-> "tool_execution_failed"]
                      [] OTHER -> NoError
       IN  IF error # NoError
           THEN ExecutorFails(ToolEvents(status, hook), error, loop.counters)
           ELSE /\ Emit(ToolEvents(status, hook))
                /\ loop' = [loop EXCEPT !.pc = NextAction(Tail(loop.actions)),
                                        !.actions = Tail(@), !.results = @ + 1]
                /\ UNCHANGED steps
  /\ UNCHANGED <<runs, profiles, checkpoints, cancellation, late>>

ExecutorSucceeds ==
  /\ At("executed")
  /\ Emit(StepSucceeded("executor"))
  /\ Checkpointed("executor")
  /\ SetStep("executor", "succeeded", "completed")
  /\ CheckThen("before_validator")
  /\ UNCHANGED <<runs, profiles, cancellation, late>>

\* One validator_executed event per selected validator, all before the verdict.
ValidatorEvents(outcomes) ==
  [i \in DOMAIN outcomes |->
     StopEvent("validator_executed", IF outcomes[i] THEN "none" ELSE "validator_failed")]

\* Mutant: the verdict looks at the last validator only.
ValidationPassedMutant(outcomes) ==
  outcomes = <<>> \/ outcomes[Len(outcomes)]

\* assert_validation_passed.
ValidationPassed(outcomes) == \A i \in DOMAIN outcomes : outcomes[i]

ValidatorStep ==
  /\ At("validator")
  /\ CheckDuration(late) = NoError
  /\ \E outcomes \in [1..Validators -> BOOLEAN] :
       LET begun == <<Event("step_started")>> \o ValidatorEvents(outcomes)
       IN  IF ValidationPassed(outcomes)
           THEN /\ Emit(begun \o StepSucceeded("validator"))
                /\ Checkpointed("validator")
                /\ SetStep("validator", "succeeded", "completed")
                /\ Goto("succeed")
           ELSE /\ Emit(begun \o <<StopEvent("step_completed", "validator_failed")>>)
                /\ SetStep("validator", "failed", "validator_failed")
                /\ Raise([stop |-> "validator_failed", code |-> "validator_failed"])
                /\ UNCHANGED checkpoints
  /\ UNCHANGED <<runs, profiles, cancellation, late>>

-----------------------------------------------------------------------------
(* How a run ends.  complete_run writes whatever the row's status is.      *)

\* Mutant: the stop reason is not written.
CompleteRunMutant(status, stop) == runs' = [runs EXCEPT ![Gen].status = status]

CompleteRun(status, stop) ==
  runs' = [runs EXCEPT ![Gen] = [status |-> status, stop |-> stop]]

RunSucceeds ==
  /\ At("succeed")
  /\ Emit(<<StopEvent("runtime_completed", "completed")>>)
  /\ CompleteRun("succeeded", "completed")
  /\ Goto("done")
  /\ UNCHANGED <<profiles, steps, checkpoints, cancellation, late>>

CancelRun ==
  /\ At("cancelled")
  /\ Emit(<<StopEvent("runtime_cancelled", "cancelled")>>)
  /\ CompleteRun("cancelled", "cancelled")
  /\ Goto("done")
  /\ UNCHANGED <<profiles, steps, checkpoints, cancellation, late>>

\* _failure_policy_field; tool errors have none.
FailurePolicy(p, error) ==
  CASE error.stop = "validator_failed" -> p.failure_policy.on_validator_failure
    [] error.stop = "policy_denied" -> p.failure_policy.on_policy_denial
    [] error.stop \in {"max_duration", "max_tool_calls", "max_data_reads",
                       "max_recompositions"} -> p.failure_policy.on_budget_exhausted
    [] OTHER -> "none"

\* The failure policy allows it and the recomposition is within its budget.
MayRecompose(p, error, counters) ==
  /\ FailurePolicy(p, error) = "recompose_once"
  /\ RecordRecompositionRequest(p, counters).error = NoError

\* _fail_run: with the budget's error when the budget refused the recomposition.
FailReason(p, error) ==
  IF FailurePolicy(p, error) = "recompose_once" THEN "max_recompositions" ELSE error.stop

\* run_with_recomposition starts the next generation; a queue worker does not.
AfterRecompositionRequest == IF Mode = "direct" THEN "compose" ELSE "done"

\* _handle_runtime_error.
HandleRuntimeError ==
  /\ At("error")
  /\ IF MayRecompose(Profile, loop.error, loop.counters)
     THEN /\ Emit(<<StopEvent("recomposition_requested", "needs_recomposition")>>)
          /\ CompleteRun("failed", "needs_recomposition")
          /\ Goto(AfterRecompositionRequest)
     ELSE /\ Emit(<<StopEvent("runtime_failed", FailReason(Profile, loop.error))>>)
          /\ CompleteRun("failed", FailReason(Profile, loop.error))
          /\ Goto("done")
  /\ UNCHANGED <<profiles, steps, checkpoints, cancellation, late>>

\* Mutant: the worker waits for somebody else to close the row.
WorkerReadsRunMutant ==
  /\ At("fail_read")
  /\ Goto(IF runs[Gen].status = "running" THEN "fail_read" ELSE "done")
  /\ UNCHANGED <<runs, profiles, recorded, cancellation, late>>

\* process_one after a broken seal: the row is read, then failed if still open.
WorkerReadsRun ==
  /\ At("fail_read")
  /\ Goto(IF runs[Gen].status = "running" THEN "fail_write" ELSE "done")
  /\ UNCHANGED <<runs, profiles, recorded, cancellation, late>>

WorkerFailsRun ==
  /\ At("fail_write")
  /\ CompleteRun("failed", SealReason)
  /\ Goto("done")
  /\ UNCHANGED <<profiles, recorded, cancellation, late>>

-----------------------------------------------------------------------------
(* The caller of cancel_run, and time.                                     *)

\* mark_cancelled: the item first, then the run row as it was read.
CancelItem ==
  /\ Mode = "queue"
  /\ caller = "idle" /\ item = "running" /\ runs # <<>>
  /\ item' = "cancelled"
  /\ caller' = "read_run"
  /\ workAtCancel' = WorkStarted
  /\ UNCHANGED <<runs, profiles, recorded, loop, late>>

CallerReadsRun ==
  /\ caller = "read_run"
  /\ caller' = IF runs[Gen].status = "running" THEN "write_run" ELSE "finished"
  /\ UNCHANGED <<runs, profiles, recorded, loop, item, workAtCancel, late>>

CallerCancelsRun ==
  /\ caller = "write_run"
  /\ CompleteRun("cancelled", "cancelled")
  /\ caller' = "finished"
  /\ UNCHANGED <<profiles, recorded, loop, item, workAtCancel, late>>

DurationPasses ==
  /\ loop.pc \notin {"compose", "seal", "done", "raised", "abandoned"}
  /\ ~late
  /\ late' = TRUE
  /\ UNCHANGED <<runs, profiles, recorded, loop, cancellation>>

Finished == loop.pc \in {"done", "raised", "abandoned"}
Rest == Finished /\ caller \in {"idle", "finished"} /\ UNCHANGED vars

LoopStep ==
  \/ StartRun \/ StartFails \/ AssertProfileSeal \/ ValidateProfile
  \/ CheckRun \/ CheckItem
  \/ \E kind \in Range(Kinds) : DurationExceeded(kind)
  \/ ContextStep \/ PlannerStep \/ ExecutorStarts \/ InvokeTool \/ ToolReturns
  \/ ExecutorSucceeds \/ ValidatorStep
  \/ RunSucceeds \/ CancelRun \/ HandleRuntimeError
  \/ WorkerReadsRun \/ WorkerFailsRun

CallerStep == CancelItem \/ CallerReadsRun \/ CallerCancelsRun

Next == LoopStep \/ CallerStep \/ DurationPasses \/ Rest

Spec == Init /\ [][Next]_vars

-----------------------------------------------------------------------------
(* Properties.                                                             *)

TerminalEvents == {"runtime_completed", "runtime_failed", "runtime_cancelled",
                   "recomposition_requested"}
Last(list) == list[Len(list)]
Terminal(g) == Last(events[g]).type \in TerminalEvents

\* The trace is a faithful account of the tables: at most one terminal event, and
\* it is the last one; a step_completed for exactly the steps that are not still
\* running; a completion and a hook verdict for every invocation but the one in
\* progress; and the row a finished run shows is the one its last event announces,
\* unless the caller's write landed after complete_run.
TraceIsFaithful ==
  \A g \in DOMAIN runs :
    LET open == {kind \in Range(Kinds) : steps[g][kind].status = "running"}
        invoking == IF g = Gen /\ At("invoked") THEN 1 ELSE 0
    IN  /\ \A i \in 1..(Len(events[g]) - 1) : events[g][i].type \notin TerminalEvents
        /\ Count(g, {"step_started"}) = Count(g, {"step_completed"}) + Cardinality(open)
        /\ Count(g, {"tool_invocation_started"})
             = Count(g, {"tool_invocation_completed"}) + invoking
        /\ Count(g, {"tool_invocation_completed"})
             = Count(g, {"runtime_after_tool_hook_evaluated"})
        /\ Count(g, {"checkpoint_created"}) = Len(checkpoints[g])
        /\ (Terminal(g) /\ (g < Gen \/ Finished \/ At("compose"))) =>
             \/ runs[g].stop = Last(events[g]).stop
             \/ runs[g].status = "cancelled" /\ caller = "finished"

\* A run reported succeeded went through all four steps, every selected validator
\* passed, every invocation passed its hook, and the newest checkpoint is the
\* validator's, which get_result serves as the response.
SucceededIsValidated ==
  \A g \in DOMAIN runs : runs[g].status = "succeeded" =>
    /\ \A kind \in Range(Kinds) : steps[g][kind].status = "succeeded"
    /\ Last(checkpoints[g]) = "validator"
    /\ Count(g, {"validator_executed"}) = Validators
    /\ \A i \in DOMAIN events[g] : events[g][i].stop \in {"none", "completed"}

\* No more adapters run than either budget of the sealed profile allows; every
\* tool of the built-in handlers reads data, so both bound the invocations.
BudgetsHold ==
  \A g \in DOMAIN runs :
    /\ Count(g, {"tool_invocation_started"}) <= profiles[g].limits.max_tool_calls
    /\ Count(g, {"tool_invocation_started"}) <= profiles[g].limits.max_data_reads

\* A generation follows a predecessor whose profile allowed and had budget for one
\* more recomposition, and does no work when its own budget is already exceeded.
RecompositionWithinBudget ==
  \A g \in DOMAIN runs :
    /\ g > 1 => /\ runs[g - 1] = [status |-> "failed", stop |-> "needs_recomposition"]
                /\ g - 1 <= profiles[g - 1].limits.max_recompositions
                /\ "recompose_once" \in Range(profiles[g - 1].failure_policy)
    /\ g - 1 > profiles[g].limits.max_recompositions =>
         Count(g, {"step_started", "tool_invocation_started"}) = 0

\* Once the queue item is cancelled, the loop begins at most one more phase or tool
\* invocation: the one whose checkpoint it had already passed.
CancellationIsPrompt ==
  item = "cancelled" => WorkStarted <= workAtCancel + 1

\* The rows behave as RunLifecycle says.
SettledRuns == IF loop.pc \in {"compose", "done", "raised"} THEN Gen ELSE Gen - 1
Lifecycle == INSTANCE RunLifecycle WITH
               rows <- runs, settled <- SettledRuns,
               StopReasons <- StopReasons \cup {SealReason}
ImplementsLifecycle == Lifecycle!Spec

\* Every run row that is inserted leaves "running", unless an exception that run
\* does not catch has left the loop.
RunOpen == runs # <<>> /\ runs[Gen].status = "running"
RunSettles == RunOpen ~> (~RunOpen \/ At("abandoned"))

-----------------------------------------------------------------------------
(* Statements of the documents that the code does not keep.                *)

\* "Each step must write: ... start and completion timestamps, stop reason": no run
\* ends with a step that was never completed.
StepsAreCompleted ==
  \A g \in DOMAIN runs : Terminal(g) =>
    \A kind \in Range(Kinds) : steps[g][kind].status # "running"

\* "Stop reasons must be constrained to the runtime vocabulary": no run row has a
\* stop reason outside it.
StopReasonsInVocabulary ==
  \A g \in DOMAIN runs :
    runs[g].stop \in StopReasons \cup {"none", "completed", "cancelled"}
=============================================================================
