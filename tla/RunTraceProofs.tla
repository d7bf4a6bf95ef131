--------------------------- MODULE RunTraceProofs ---------------------------
(***************************************************************************)
(* The steps of the runtime loop and the trace of a run, for every mode,   *)
(* set of profiles, set of adapters and number of validators.              *)
(*                                                                         *)
(* LInv is the invariant of the rows, TInv that of the trace.  TInv says   *)
(* of every past generation that its books balance (Kept) and that it      *)
(* asked for its successor (Recomposed), and of the generation in progress *)
(* how far along the path to success it is (OnPath), that the enforcer has *)
(* counted every call in the trace (Spent), and that nothing follows a     *)
(* terminal event.  Every step keeps TInv (TraceStep), given Laws: facts   *)
(* about counting and about the enforcer that no state appears in.         *)
(* RunLoopProofs proves Laws, and the theorems.                            *)
(***************************************************************************)
EXTENDS RunLoop, TLAPS

\* What the loop may handle as an error: no error, or one with a known stop reason.
OKError(e) == e = NoError \/ e.stop \in StopReasons

ProfileOK(p) ==
  /\ p.limits \in [max_tool_calls : Nat, max_data_reads : Nat, max_recompositions : Nat]
  /\ {"on_validator_failure", "on_policy_denial", "on_budget_exhausted"}
       \subseteq DOMAIN p.failure_policy
  /\ p.authority = NoError \/ p.authority.stop = "policy_denied"
  /\ p.skills \in Seq(STRING)
  /\ p.roles.runtime \in Seq(STRING)
  /\ p.roles.non_runtime \in Seq(STRING)
  /\ p.roles.shared \in Seq(STRING)

-----------------------------------------------------------------------------
(* The invariant of the rows.                                              *)

SettledLabels == {"compose", "done", "raised"}
SealedAs(g) == {[p EXCEPT !.generation = g] : p \in Profiles}
SealedProfiles == UNION {SealedAs(g) : g \in Nat}
Rows == {Running} \cup Lifecycle!Outcomes
Targets == {"none", "before_context", "before_planner", "before_executor",
            "before_validator", "context", "planner", "executor", "validator", "invoke"}

\* The rows and profiles are aligned sequences; outside the settled labels the
\* current row is open or was cancelled by the caller; the loop composes again only
\* in direct mode, after needs_recomposition, where no caller can overwrite the row;
\* an error handled has a known stop reason.
LInv ==
  /\ runs \in Seq(Rows)
  /\ profiles \in Seq(SealedProfiles)
  /\ Len(profiles) = Len(runs)
  /\ {"pc", "target", "actions", "results", "counters", "error"} \subseteq DOMAIN loop
  /\ loop.target \in Targets
  /\ loop.pc = "error" => loop.error.stop \in StopReasons
  /\ loop.pc \notin SettledLabels =>
       /\ runs # <<>>
       /\ runs[Len(runs)] \in {Running, Lifecycle!Cancelled}
  /\ loop.pc = "compose" /\ runs # <<>> =>
       /\ Mode = "direct"
       /\ runs[Len(runs)].stop = "needs_recomposition"
  /\ Mode = "direct" => caller = "idle"
  /\ caller \in {"read_run", "write_run"} => runs # <<>>

\* Sealing changes the generation only.

\* Sealing changes the generation only.
LEMMA SealedLemma == \A p \in SealedProfiles : ProfileOK(p)
<1> SUFFICES ASSUME NEW q \in Profiles, NEW g \in Nat
             PROVE  ProfileOK([q EXCEPT !.generation = g])
  BY DEF SealedProfiles, SealedAs
<1>1. /\ {"authority", "skills", "roles", "limits", "failure_policy"} \subseteq DOMAIN q
      /\ ProfileOK(q)
  BY ProfilesAssumption, Zenon DEF ProfileOK
<1> DEFINE s == [q EXCEPT !.generation = g]
<1>2. /\ s.authority = q.authority /\ s.skills = q.skills /\ s.roles = q.roles
      /\ s.limits = q.limits /\ s.failure_policy = q.failure_policy
  BY <1>1, Zenon
<1> HIDE DEF s
<1>3. ProfileOK(s)
  BY <1>1, <1>2, Zenon DEF ProfileOK
<1>. QED BY <1>3, Zenon DEF s

\* The ways a step inside a generation moves on.
Within == loop.pc \notin SettledLabels /\ UNCHANGED <<runs, profiles, caller>>

-----------------------------------------------------------------------------
(* What is taken from outside.                                             *)

\* Events of some types in a trace.
Tally(trace, types) == Cardinality({i \in DOMAIN trace : trace[i].type \in types})

\* Counting, and what the enforcer and the plan answer.
Additive == \A S, types : \A s, t \in Seq(S) : Tally(s \o t, types) = Tally(s, types) + Tally(t, types)
Separate == \A S : \A s \in Seq(S) : \A a, b : a # b => Tally(s, {a, b}) = Tally(s, {a}) + Tally(s, {b})
Laws ==
  /\ Cardinality({}) = 0 /\ (\A x : Cardinality({x}) = 1) /\ (\A n \in Nat : Cardinality(1..n) = n)
  /\ \A kinds \in SUBSET {"context", "planner", "executor", "validator"} : Cardinality(kinds) \in Nat
  /\ \A S, types : \A s \in Seq(S) : Tally(s, types) \in Nat
  /\ Additive /\ Separate
  /\ \A p, counters, tool, over : OKError(RecordToolInvocation(p, counters, tool, over).error)
  /\ \A p : ValidateProfileForRuntime(p) = NoError => p.generation - 1 <= p.limits.max_recompositions
  /\ \A p : ProfileOK(p) /\ BuildRuntimePlan(p).error = NoError =>
              BuildRuntimePlan(p).actions \in Seq(RepositoryReaders)

\* A trace has a number of events.
LEMMA TallyType ==
  ASSUME Laws, NEW S, NEW s \in Seq(S), NEW types
  PROVE  Tally(s, types) \in Nat
  BY Zenon DEF Laws

\* Counting is additive.
LEMMA TallyConcat ==
  ASSUME Laws, NEW S, NEW s \in Seq(S), NEW t \in Seq(S), NEW types
  PROVE  Tally(s \o t, types) = Tally(s, types) + Tally(t, types)
<1>1. Additive
  BY Zenon DEF Laws
<1>. QED BY <1>1, Zenon DEF Additive

\* Two types are counted separately.
LEMMA TallyTwo ==
  ASSUME Laws, NEW S, NEW s \in Seq(S), NEW a, NEW b, a # b
  PROVE  Tally(s, {a, b}) = Tally(s, {a}) + Tally(s, {b})
<1>1. Separate
  BY Zenon DEF Laws
<1>2. \A c, d : c # d => Tally(s, {c, d}) = Tally(s, {c}) + Tally(s, {d})
  BY <1>1, Zenon DEF Separate
<1>. QED BY <1>2, Zenon

\* Some of the kinds of steps are a number of steps.
LEMMA KindsFinite ==
  ASSUME Laws, NEW kinds \in SUBSET {"context", "planner", "executor", "validator"}
  PROVE  Cardinality(kinds) \in Nat
  BY Zenon DEF Laws

\* Sets of no element, of one, and of the first numbers.
LEMMA Sizes ==
  ASSUME Laws
  PROVE  Cardinality({}) = 0 /\ (\A x : Cardinality({x}) = 1) /\ (\A n \in Nat : Cardinality(1..n) = n)
  BY Zenon DEF Laws

\* A trace of one event, and one of events of a single type.
LEMMA TallyOne ==
  ASSUME Laws, NEW e, NEW types
  PROVE  Tally(<<e>>, types) = IF e.type \in types THEN 1 ELSE 0
<1> DEFINE A == {i \in DOMAIN <<e>> : <<e>>[i].type \in types}
<1>1. A = IF e.type \in types THEN {1} ELSE {}
  OBVIOUS
<1> HIDE DEF A
<1>2. Cardinality(A) = IF e.type \in types THEN 1 ELSE 0
  BY <1>1, Sizes, Zenon
<1>. QED BY <1>2, Zenon DEF Tally, A

\* An empty trace counts nothing.
LEMMA TallyEmpty ==
  ASSUME Laws, NEW types
  PROVE  Tally(<<>>, types) = 0
<1> DEFINE A == {i \in DOMAIN <<>> : <<>>[i].type \in types}
<1>1. A = {}
  OBVIOUS
<1> HIDE DEF A
<1>2. Cardinality(A) = 0
  BY <1>1, Sizes, Zenon
<1>. QED BY <1>2, Zenon DEF Tally, A

\* The counters of an enforcer and the limits of a profile.
CounterRows == [tool_calls : Nat, data_reads : Nat, recompositions : Nat]
Limits == [max_tool_calls : Nat, max_data_reads : Nat, max_recompositions : Nat]
WithinLimits(c, p) ==
  c.tool_calls <= p.limits.max_tool_calls /\ c.data_reads <= p.limits.max_data_reads

-----------------------------------------------------------------------------
(* The invariant of the trace.                                             *)

\* The types of the records: events, step rows, checkpoints.
EventTypes ==
  {"task_analyzed", "candidates_discovered", "profile_emitted", "profile_validated",
   "checkpoint_created", "runtime_started", "step_started", "step_completed",
   "access_attempted", "tool_invocation_started", "tool_invocation_completed",
   "runtime_after_tool_hook_evaluated", "validator_executed"}
Stops == StopReasons \cup {"none", "completed", "cancelled"}
Events == [type : EventTypes \cup TerminalEvents, stop : Stops]
StepRows == [status : {"absent", "running", "succeeded", "failed"}, stop : Stops]
Phases == {"composition"} \cup Range(Kinds)

RecordsTyped ==
  /\ events \in Seq(Seq(Events)) /\ Len(events) = Len(runs)
  /\ steps \in Seq([Range(Kinds) -> StepRows]) /\ Len(steps) = Len(runs)
  /\ checkpoints \in Seq(Seq(Phases)) /\ Len(checkpoints) = Len(runs)
  /\ loop.actions \in Seq(RepositoryReaders)
  /\ loop.counters \in CounterRows

\* What a trace tr says of the step rows st and the checkpoints cp.
Unfinished(st) == {kind \in Range(Kinds) : st[kind].status = "running"}
Accounts(st, tr, cp, invoking) ==
  /\ Tally(tr, {"step_started"}) = Tally(tr, {"step_completed"}) + Cardinality(Unfinished(st))
  /\ Tally(tr, {"tool_invocation_started"})
       = Tally(tr, {"tool_invocation_completed"}) + invoking
  /\ Tally(tr, {"tool_invocation_completed"})
       = Tally(tr, {"runtime_after_tool_hook_evaluated"})
  /\ Tally(tr, {"checkpoint_created"}) = Len(cp)

Clean(tr) == \A i \in DOMAIN tr : tr[i].stop \in {"none", "completed"}
Unended(tr) == \A i \in DOMAIN tr : tr[i].type \notin TerminalEvents
EndsOnce(tr) == \A i \in 1..(Len(tr) - 1) : tr[i].type \notin TerminalEvents
StepsAre(st, a, b, c, d) ==
  /\ st["context"].status = a /\ st["planner"].status = b
  /\ st["executor"].status = c /\ st["validator"].status = d
Validated(st, tr, cp) ==
  /\ StepsAre(st, "succeeded", "succeeded", "succeeded", "succeeded")
  /\ cp[Len(cp)] = "validator"
  /\ Tally(tr, {"validator_executed"}) = Validators
  /\ Clean(tr)

\* What holds of every generation, whatever the loop does.
Work(tr) == Tally(tr, {"step_started"}) + Tally(tr, {"tool_invocation_started"})
Kept(g, row, p, st, tr, cp, invoking) ==
  /\ Accounts(st, tr, cp, invoking)
  /\ tr # <<>> /\ EndsOnce(tr)
  /\ row.status = "succeeded" => Validated(st, tr, cp)
  /\ Tally(tr, {"tool_invocation_started"}) <= p.limits.max_tool_calls
  /\ Tally(tr, {"tool_invocation_started"}) <= p.limits.max_data_reads
  /\ g - 1 > p.limits.max_recompositions => Work(tr) = 0

\* A generation that asked for the next one.
Recomposed(g, row, p, tr) ==
  /\ row = [status |-> "failed", stop |-> "needs_recomposition"]
  /\ tr[Len(tr)].stop = "needs_recomposition"
  /\ g <= p.limits.max_recompositions
  /\ "recompose_once" \in Range(p.failure_policy)

\* The loop's place on the path to success: the steps it has completed.
Position(lp) == IF lp.pc \in {"check_run", "check_item"} THEN lp.target ELSE lp.pc
Starting == {"seal", "validate"}
InContext == {"before_context", "context"}
InPlanner == {"before_planner", "planner"}
InExecutor == {"before_executor", "executor"}
Executing == {"invoke", "invoked", "executed"}
InValidator == {"before_validator", "validator"}
Path == Starting \cup InContext \cup InPlanner \cup InExecutor \cup Executing
          \cup InValidator \cup {"succeed"}
OnPath(pos, g, p, st, tr, cp) ==
  /\ pos \in Starting \cup InContext => StepsAre(st, "absent", "absent", "absent", "absent")
  /\ pos \in InPlanner => StepsAre(st, "succeeded", "absent", "absent", "absent")
  /\ pos \in InExecutor => StepsAre(st, "succeeded", "succeeded", "absent", "absent")
  /\ pos \in Executing => StepsAre(st, "succeeded", "succeeded", "running", "absent")
  /\ pos \in InValidator => StepsAre(st, "succeeded", "succeeded", "succeeded", "absent")
  /\ pos = "succeed" => Validated(st, tr, cp)
  /\ pos \in Path => Clean(tr)
  /\ pos \in Path \ {"succeed"} => Tally(tr, {"validator_executed"}) = 0
  /\ pos \in Path \ Starting => g - 1 <= p.limits.max_recompositions

\* What the enforcer has counted bounds what the trace shows.
Spent(g, p, tr, counters) ==
  /\ Tally(tr, {"tool_invocation_started"}) <= counters.tool_calls
  /\ Tally(tr, {"tool_invocation_started"}) <= counters.data_reads
  /\ counters.tool_calls <= p.limits.max_tool_calls
  /\ counters.data_reads <= p.limits.max_data_reads
  /\ counters.recompositions = g - 1
  /\ p.generation = g

Invoking(lp) == IF lp.pc = "invoked" THEN 1 ELSE 0
Past(g) ==
  /\ Kept(g, runs[g], profiles[g], steps[g], events[g], checkpoints[g], 0)
  /\ Recomposed(g, runs[g], profiles[g], events[g])

\* The generation in progress, with the loop's state lp and the caller's cl.
Present(g, row, p, st, tr, cp, lp, cl) ==
  /\ Kept(g, row, p, st, tr, cp, Invoking(lp))
  /\ OnPath(Position(lp), g, p, st, tr, cp)
  /\ Spent(g, p, tr, lp.counters)
  /\ lp.pc \in {"invoke", "invoked"} => lp.target = "invoke"
  /\ Position(lp) \in {"invoke", "invoked"} => lp.actions # <<>>
  /\ lp.pc \notin SettledLabels => Unended(tr)
  /\ lp.pc \in SettledLabels /\ tr[Len(tr)].type \in TerminalEvents =>
       row.stop = tr[Len(tr)].stop \/ (row.status = "cancelled" /\ cl = "finished")
  /\ lp.pc = "compose" => Recomposed(g, row, p, tr)

\* The loop of a cancelled item stands in front of work only if it has begun none since.
WorkLabels == {"context", "planner", "executor", "validator", "invoke"}
Prompt(tr, pc, since) ==
  /\ Work(tr) <= since + 1
  /\ pc \in WorkLabels => Work(tr) <= since

TInv ==
  /\ RecordsTyped
  /\ workAtCancel \in Nat
  /\ \A g \in 1..(Len(runs) - 1) : Past(g)
  /\ runs # <<>> => Present(Len(runs), runs[Len(runs)], profiles[Len(runs)], steps[Len(runs)],
                            events[Len(runs)], checkpoints[Len(runs)], loop, caller)
  /\ item = "cancelled" => /\ Mode = "queue" /\ runs # <<>>
                           /\ Prompt(events[Len(runs)], loop.pc, workAtCancel)

-----------------------------------------------------------------------------
(* What the loop appends to a trace.                                       *)

\* new has that many events of each counted type, and none that ends a run.
Adds(new, started, completed, invoked, returned, hooked, saved, judged) ==
  /\ new \in Seq(Events)
  /\ Unended(new)
  /\ Tally(new, {"step_started"}) = started
  /\ Tally(new, {"step_completed"}) = completed
  /\ Tally(new, {"tool_invocation_started"}) = invoked
  /\ Tally(new, {"tool_invocation_completed"}) = returned
  /\ Tally(new, {"runtime_after_tool_hook_evaluated"}) = hooked
  /\ Tally(new, {"checkpoint_created"}) = saved
  /\ Tally(new, {"validator_executed"}) = judged
Is(type, counted) == IF type = counted THEN 1 ELSE 0

\* One event counts once for its own type.
LEMMA AddsOne ==
  ASSUME Laws, NEW type \in EventTypes, NEW stop \in Stops
  PROVE  Adds(<<StopEvent(type, stop)>>, Is(type, "step_started"), Is(type, "step_completed"),
              Is(type, "tool_invocation_started"), Is(type, "tool_invocation_completed"),
              Is(type, "runtime_after_tool_hook_evaluated"), Is(type, "checkpoint_created"),
              Is(type, "validator_executed"))
<1> DEFINE e == StopEvent(type, stop)
<1>1. e \in Events /\ e.type = type
  BY Zenon DEF StopEvent, Events
<1>a. type \notin TerminalEvents
  BY Zenon DEF EventTypes, TerminalEvents
<1> HIDE DEF e
<1>2. \A counted : Tally(<<e>>, {counted}) = Is(type, counted)
  BY <1>1, TallyOne, Zenon DEF Is
<1>3. <<e>> \in Seq(Events) /\ Unended(<<e>>)
  BY <1>a, <1>1 DEF Unended
<1>. QED BY <1>2, <1>3, Zenon DEF Adds, e

\* Concatenation adds the numbers.
LEMMA AddsBoth ==
  ASSUME Laws, NEW s, NEW a, NEW b, NEW c, NEW d, NEW e, NEW f, NEW h,
         NEW t, NEW a2, NEW b2, NEW c2, NEW d2, NEW e2, NEW f2, NEW h2,
         Adds(s, a, b, c, d, e, f, h), Adds(t, a2, b2, c2, d2, e2, f2, h2)
  PROVE  Adds(s \o t, a + a2, b + b2, c + c2, d + d2, e + e2, f + f2, h + h2)
<1>1. s \in Seq(Events) /\ t \in Seq(Events)
  BY Zenon DEF Adds
<1>2. \A types : Tally(s \o t, types) = Tally(s, types) + Tally(t, types)
  BY <1>1, TallyConcat, Zenon
<1>3. s \o t \in Seq(Events)
  BY <1>1
<1>4. Unended(s \o t)
  BY <1>1 DEF Adds, Unended
<1>. QED BY <1>2, <1>3, <1>4, Zenon DEF Adds

\* Two events, one after the other.
LEMMA PairLemma ==
  ASSUME NEW x, NEW y
  PROVE  <<x, y>> = <<x>> \o <<y>>
<1> DEFINE s == <<x, y>>
           t == <<x>> \o <<y>>
<1>1. s = [i \in 1..2 |-> s[i]] /\ t = [i \in 1..2 |-> t[i]]
  OBVIOUS
<1>2. s[1] = x /\ s[2] = y
  BY Zenon
<1>3. t[1] = x /\ t[2] = y
  OBVIOUS
<1> HIDE DEF s, t
<1>4. \A i \in 1..2 : s[i] = t[i]
  BY <1>2, <1>3
<1>5. s = t
  BY <1>1, <1>4, Zenon
<1>. QED BY <1>5, Zenon DEF s, t

\* Concatenation and the stop reasons of a trace.
LEMMA CleanConcat ==
  ASSUME NEW s \in Seq(Events), NEW t \in Seq(Events), Clean(s), Clean(t)
  PROVE  Clean(s \o t)
  BY DEF Clean

\* One event without a failure.
LEMMA CleanOne ==
  ASSUME NEW type, NEW stop \in {"none", "completed"}
  PROVE  Clean(<<StopEvent(type, stop)>>)
  BY DEF Clean, StopEvent

\* The events of the steps.
LEMMA AddsNone ==
  ASSUME Laws
  PROVE  Adds(<<>>, 0, 0, 0, 0, 0, 0, 0) /\ Clean(<<>>)
<1>1. \A types : Tally(<<>>, types) = 0
  BY TallyEmpty, Zenon
<1>2. <<>> \in Seq(Events) /\ Unended(<<>>) /\ Clean(<<>>)
  BY DEF Unended, Clean
<1>. QED BY <1>1, <1>2, Zenon DEF Adds

\* What each single event adds.
LEMMA OneEvent ==
  ASSUME Laws, NEW stop \in Stops
  PROVE  /\ Adds(<<StopEvent("step_started", stop)>>, 1, 0, 0, 0, 0, 0, 0)
         /\ Adds(<<StopEvent("step_completed", stop)>>, 0, 1, 0, 0, 0, 0, 0)
         /\ Adds(<<StopEvent("tool_invocation_started", stop)>>, 0, 0, 1, 0, 0, 0, 0)
         /\ Adds(<<StopEvent("tool_invocation_completed", stop)>>, 0, 0, 0, 1, 0, 0, 0)
         /\ Adds(<<StopEvent("runtime_after_tool_hook_evaluated", stop)>>, 0, 0, 0, 0, 1, 0, 0)
         /\ Adds(<<StopEvent("checkpoint_created", stop)>>, 0, 0, 0, 0, 0, 1, 0)
         /\ \A other \in {"task_analyzed", "candidates_discovered", "profile_emitted",
                          "profile_validated", "runtime_started", "access_attempted"} :
              Adds(<<StopEvent(other, stop)>>, 0, 0, 0, 0, 0, 0, 0)
<1>1. \A type \in EventTypes :
        Adds(<<StopEvent(type, stop)>>, Is(type, "step_started"), Is(type, "step_completed"),
             Is(type, "tool_invocation_started"), Is(type, "tool_invocation_completed"),
             Is(type, "runtime_after_tool_hook_evaluated"), Is(type, "checkpoint_created"),
             Is(type, "validator_executed"))
  BY AddsOne, Zenon
<1>. QED BY <1>1, Zenon DEF Is, EventTypes

\* A step that runs: start_step, the checkpoint, step_completed.
LEMMA StepTraces ==
  ASSUME Laws, NEW kind
  PROVE  /\ Adds(<<Event("step_started")>>, 1, 0, 0, 0, 0, 0, 0)
         /\ Clean(<<Event("step_started")>>)
         /\ Adds(StepSucceeded(kind), 0, 1, 0, 0, 0, 1, 0)
         /\ Clean(StepSucceeded(kind))
         /\ Adds(<<Event("step_started")>> \o StepSucceeded(kind), 1, 1, 0, 0, 0, 1, 0)
         /\ Clean(<<Event("step_started")>> \o StepSucceeded(kind))
<1> DEFINE a == StopEvent("step_started", "none")
           b == StopEvent("checkpoint_created", "none")
           c == StopEvent("step_completed", "completed")
<1>1. "none" \in Stops /\ "completed" \in Stops
  BY Zenon DEF Stops
<1>2. /\ Adds(<<a>>, 1, 0, 0, 0, 0, 0, 0) /\ Clean(<<a>>)
      /\ Adds(<<b>>, 0, 0, 0, 0, 0, 1, 0) /\ Clean(<<b>>)
      /\ Adds(<<c>>, 0, 1, 0, 0, 0, 0, 0) /\ Clean(<<c>>)
  <2>1. /\ Adds(<<a>>, 1, 0, 0, 0, 0, 0, 0)
        /\ Adds(<<b>>, 0, 0, 0, 0, 0, 1, 0)
        /\ Adds(<<c>>, 0, 1, 0, 0, 0, 0, 0)
    BY <1>1, OneEvent, Zenon
  <2>2. Clean(<<a>>) /\ Clean(<<b>>) /\ Clean(<<c>>)
    BY CleanOne, Zenon
  <2>. QED BY <2>1, <2>2, Zenon
<1>3. Event("step_started") = a /\ StepSucceeded(kind) = <<b, c>>
  BY Zenon DEF Event, StopEvent, StepSucceeded
<1> HIDE DEF a, b, c
<1>4. <<b, c>> = <<b>> \o <<c>>
  BY PairLemma, Zenon
<1>5. /\ <<a>> \in Seq(Events) /\ <<b>> \in Seq(Events) /\ <<c>> \in Seq(Events)
      /\ <<b>> \o <<c>> \in Seq(Events)
  BY <1>2 DEF Adds
<1>6. Adds(<<b>> \o <<c>>, 0, 1, 0, 0, 0, 1, 0) /\ Clean(<<b>> \o <<c>>)
  <2>1. Adds(<<b>> \o <<c>>, 0 + 0, 0 + 1, 0 + 0, 0 + 0, 0 + 0, 1 + 0, 0 + 0)
    BY <1>2, AddsBoth, Zenon
  <2>2. Adds(<<b>> \o <<c>>, 0, 1, 0, 0, 0, 1, 0)
    BY <2>1 DEF Adds
  <2>3. Clean(<<b>> \o <<c>>)
    BY <1>2, <1>5, CleanConcat, ZenonT(30)
  <2>. QED BY <2>2, <2>3, Zenon
<1>7. Adds(<<a>> \o (<<b>> \o <<c>>), 1, 1, 0, 0, 0, 1, 0)
      /\ Clean(<<a>> \o (<<b>> \o <<c>>))
  <2>1. Adds(<<a>> \o (<<b>> \o <<c>>), 1 + 0, 0 + 1, 0 + 0, 0 + 0, 0 + 0, 0 + 1, 0 + 0)
    BY <1>2, <1>6, AddsBoth, Zenon
  <2>2. Adds(<<a>> \o (<<b>> \o <<c>>), 1, 1, 0, 0, 0, 1, 0)
    BY <2>1 DEF Adds
  <2>3. Clean(<<a>> \o (<<b>> \o <<c>>))
    BY <1>2, <1>5, <1>6, CleanConcat, Zenon
  <2>. QED BY <2>2, <2>3, Zenon
<1>. QED BY <1>2, <1>3, <1>4, <1>6, <1>7, ZenonT(30)

\* The start of every trace.
FirstEvents ==
  <<Event("task_analyzed"), Event("candidates_discovered"),
    Event("profile_emitted"), Event("profile_validated"),
    Event("checkpoint_created"), Event("runtime_started")>>

-----------------------------------------------------------------------------
(* Steps inside a generation, on the rows and traces themselves.           *)

\* The four kinds of step.
LEMMA KindsLemma == Range(Kinds) = {"context", "planner", "executor", "validator"}
  BY DEF Range, Kinds

\* Bounds compose.
LEMMA LeTrans ==
  ASSUME NEW x \in Int, NEW y \in Int, NEW z \in Int, x <= y, y <= z
  PROVE  x <= z
  OBVIOUS

\* Both sides of a balance move together.
LEMMA Balance ==
  ASSUME NEW s \in Nat, NEW t \in Nat, NEW v \in Nat, s = t + v,
         NEW c \in Nat, NEW d \in Nat, NEW w \in Nat, v + c = w + d
  PROVE  s + c = (t + d) + w
  OBVIOUS

\* How many steps are open, on the path.
LEMMA NoneOpen ==
  ASSUME Laws, NEW st, NEW a, NEW b, NEW c, NEW d, StepsAre(st, a, b, c, d),
         a # "running", b # "running", c # "running", d # "running"
  PROVE  Cardinality(Unfinished(st)) = 0
<1>1. Unfinished(st) = {}
  BY KindsLemma, Zenon DEF Unfinished, StepsAre
<1>. QED BY <1>1, Sizes, Zenon

\* One open step.
LEMMA OneOpen ==
  ASSUME Laws, NEW st, NEW kind \in Range(Kinds), st[kind].status = "running",
         \A k \in Range(Kinds) : k # kind => st[k].status # "running"
  PROVE  Cardinality(Unfinished(st)) = 1
<1>1. Unfinished(st) = {kind}
  BY Zenon DEF Unfinished
<1>. QED BY <1>1, Sizes, Zenon

\* A trace that has not ended has the counts it has.
LEMMA TraceCounts ==
  ASSUME Laws, NEW tr \in Seq(Events), Unended(tr)
  PROVE  /\ Adds(tr, Tally(tr, {"step_started"}), Tally(tr, {"step_completed"}),
                 Tally(tr, {"tool_invocation_started"}), Tally(tr, {"tool_invocation_completed"}),
                 Tally(tr, {"runtime_after_tool_hook_evaluated"}),
                 Tally(tr, {"checkpoint_created"}), Tally(tr, {"validator_executed"}))
         /\ \A types : Tally(tr, types) \in Nat
  BY TallyType, ZenonT(30) DEF Adds

\* New events new, with these numbers of the counted types, new step rows and new
\* checkpoints that agree with them, for a loop that goes from lp to lp2.
Agrees(g, p, st, tr, cp, lp, new, a, b, c, d, e, f, h, st2, cp2, lp2) ==
  /\ a \in Nat /\ b \in Nat /\ c \in Nat /\ d \in Nat /\ e \in Nat /\ f \in Nat /\ h \in Nat
  /\ Adds(new, a, b, c, d, e, f, h)
  /\ Cardinality(Unfinished(st)) \in Nat /\ Cardinality(Unfinished(st2)) \in Nat
  /\ Cardinality(Unfinished(st)) + a = Cardinality(Unfinished(st2)) + b
  /\ Invoking(lp) + c = Invoking(lp2) + d
  /\ d = e
  /\ Len(cp2) = Len(cp) + f
  /\ OnPath(Position(lp2), g, p, st2, tr \o new, cp2)
  /\ a + c > 0 => g - 1 <= p.limits.max_recompositions
  /\ lp2.pc \notin SettledLabels
  /\ lp2.counters \in CounterRows
  /\ WithinLimits(lp2.counters, p)
  /\ lp2.counters.recompositions = lp.counters.recompositions
  /\ lp2.counters.tool_calls >= lp.counters.tool_calls + c
  /\ lp2.counters.data_reads >= lp.counters.data_reads + c
  /\ lp2.pc \in {"invoke", "invoked"} => lp2.target = "invoke"
  /\ Position(lp2) \in {"invoke", "invoked"} => lp2.actions # <<>>

\* Such a move keeps what is known of the generation in progress.
LEMMA ProgressLemma ==
  ASSUME Laws, NEW g \in Nat, NEW row, NEW p, NEW st, NEW tr \in Seq(Events), NEW cp, NEW lp, NEW cl,
         NEW new, NEW a, NEW b, NEW c, NEW d, NEW e, NEW f, NEW h, NEW st2, NEW cp2, NEW lp2,
         Present(g, row, p, st, tr, cp, lp, cl), lp.pc \notin SettledLabels,
         row.status # "succeeded", p.limits \in Limits, Len(cp) \in Nat,
         lp.counters \in CounterRows,
         Agrees(g, p, st, tr, cp, lp, new, a, b, c, d, e, f, h, st2, cp2, lp2)
  PROVE  Present(g, row, p, st2, tr \o new, cp2, lp2, cl)
<1> DEFINE n == Cardinality(Unfinished(st))
           n2 == Cardinality(Unfinished(st2))
<1>a. /\ a \in Nat /\ b \in Nat /\ c \in Nat /\ d \in Nat /\ e \in Nat /\ f \in Nat /\ h \in Nat
      /\ Adds(new, a, b, c, d, e, f, h)
      /\ n \in Nat /\ n2 \in Nat /\ n + a = n2 + b
      /\ Invoking(lp) + c = Invoking(lp2) + d
      /\ d = e /\ Len(cp2) = Len(cp) + f
  BY Zenon DEF Agrees
<1>b. /\ OnPath(Position(lp2), g, p, st2, tr \o new, cp2)
      /\ a + c > 0 => g - 1 <= p.limits.max_recompositions
      /\ lp2.pc \notin SettledLabels
      /\ lp2.pc \in {"invoke", "invoked"} => lp2.target = "invoke"
      /\ Position(lp2) \in {"invoke", "invoked"} => lp2.actions # <<>>
  BY ZenonT(30) DEF Agrees
<1>c. /\ lp2.counters \in CounterRows /\ WithinLimits(lp2.counters, p)
      /\ lp2.counters.recompositions = lp.counters.recompositions
      /\ lp2.counters.tool_calls >= lp.counters.tool_calls + c
      /\ lp2.counters.data_reads >= lp.counters.data_reads + c
  BY Zenon DEF Agrees
<1>1. Unended(tr)
  BY Zenon DEF Present
<1>2. \A types : Tally(tr, types) \in Nat
  BY TallyType, Zenon
<1> DEFINE t1 == Tally(tr, {"step_started"})
           t2 == Tally(tr, {"step_completed"})
           t3 == Tally(tr, {"tool_invocation_started"})
           t4 == Tally(tr, {"tool_invocation_completed"})
           t5 == Tally(tr, {"runtime_after_tool_hook_evaluated"})
           t6 == Tally(tr, {"checkpoint_created"})
           t7 == Tally(tr, {"validator_executed"})
           tr2 == tr \o new
<1>3. Adds(tr2, t1 + a, t2 + b, t3 + c, t4 + d, t5 + e, t6 + f, t7 + h)
  <2>1. Adds(tr, t1, t2, t3, t4, t5, t6, t7)
    BY <1>1, TraceCounts, Zenon
  <2> HIDE DEF t1, t2, t3, t4, t5, t6, t7
  <2>. QED BY <1>a, <2>1, AddsBoth, ZenonT(30)
<1>4. /\ t1 = t2 + n /\ t3 = t4 + Invoking(lp) /\ t4 = t5 /\ t6 = Len(cp)
      /\ t3 <= lp.counters.tool_calls /\ t3 <= lp.counters.data_reads
      /\ lp.counters.recompositions = g - 1 /\ p.generation = g
      /\ tr # <<>>
      /\ g - 1 > p.limits.max_recompositions => t1 + t3 = 0
  BY Zenon DEF Present, Kept, Accounts, Spent, Work
<1>5. t1 \in Nat /\ t2 \in Nat /\ t3 \in Nat /\ t4 \in Nat /\ t5 \in Nat /\ t6 \in Nat
  BY <1>2, Zenon
<1>6. tr2 # <<>>
  BY <1>a, <1>4, SMTT(60) DEF Adds
<1> HIDE DEF t1, t2, t3, t4, t5, t6, t7, tr2, n, n2
<1>7. Invoking(lp) \in Nat /\ Invoking(lp2) \in Nat
  BY Zenon DEF Invoking
<1>8. /\ Tally(tr2, {"step_started"}) = t1 + a
      /\ Tally(tr2, {"step_completed"}) = t2 + b
      /\ Tally(tr2, {"tool_invocation_started"}) = t3 + c
      /\ Tally(tr2, {"tool_invocation_completed"}) = t4 + d
      /\ Tally(tr2, {"runtime_after_tool_hook_evaluated"}) = t5 + e
      /\ Tally(tr2, {"checkpoint_created"}) = t6 + f
      /\ Unended(tr2) /\ tr2 \in Seq(Events)
  BY <1>3, Zenon DEF Adds
<1>9. Accounts(st2, tr2, cp2, Invoking(lp2))
  <2>1. t1 + a = (t2 + b) + n2
    <3>1. n \in Nat /\ n2 \in Nat /\ n + a = n2 + b /\ t1 = t2 + n
      BY <1>a, <1>4, ZenonT(30)
    <3>2. a \in Nat /\ b \in Nat
      BY <1>a, ZenonT(30)
    <3>. QED BY <1>5, <3>1, <3>2, Balance, SMTT(40)
  <2>2. t3 + c = (t4 + d) + Invoking(lp2)
    <3> DEFINE v == Invoking(lp)
               v2 == Invoking(lp2)
    <3>1. v \in Nat /\ v2 \in Nat /\ v + c = v2 + d /\ t3 = t4 + v
      BY <1>a, <1>4, <1>7, ZenonT(30)
    <3> HIDE DEF v, v2
    <3>2. t3 + c = (t4 + d) + v2
      BY <1>a, <1>5, <3>1, Balance, SMTT(40)
    <3>. QED BY <3>2, Zenon DEF v2
  <2>3. t4 + d = t5 + e /\ t6 + f = Len(cp2)
    BY <1>a, <1>4, <1>5, Zenon
  <2>. QED BY <1>8, <2>1, <2>2, <2>3, Zenon DEF Accounts, n2
<1>10. Spent(g, p, tr2, lp2.counters)
  <2> DEFINE x == lp.counters.tool_calls
             y == lp.counters.data_reads
             x2 == lp2.counters.tool_calls
             y2 == lp2.counters.data_reads
  <2>1. x \in Nat /\ y \in Nat /\ x2 \in Nat /\ y2 \in Nat
    BY <1>c, ZenonT(30) DEF CounterRows
  <2>2. x2 >= x + c /\ y2 >= y + c /\ t3 <= x /\ t3 <= y
    BY <1>4, <1>c, Zenon
  <2> HIDE DEF x, y, x2, y2
  <2>3. t3 + c <= x2 /\ t3 + c <= y2
    BY <1>a, <1>5, <2>1, <2>2
  <2>. QED BY <1>4, <1>8, <1>c, <2>3, ZenonT(30) DEF Spent, WithinLimits, x2, y2
<1>11. EndsOnce(tr2)
  BY <1>8, SMTT(40) DEF Unended, EndsOnce
<1>12. Kept(g, row, p, st2, tr2, cp2, Invoking(lp2))
  <2>1. /\ t3 + c <= p.limits.max_tool_calls
        /\ t3 + c <= p.limits.max_data_reads
    <3> DEFINE x2 == lp2.counters.tool_calls
               y2 == lp2.counters.data_reads
               x3 == p.limits.max_tool_calls
               y3 == p.limits.max_data_reads
    <3>1. x2 \in Nat /\ y2 \in Nat /\ x3 \in Nat /\ y3 \in Nat
      BY <1>c, ZenonT(30) DEF CounterRows, Limits
    <3>2. t3 + c <= x2 /\ t3 + c <= y2 /\ x2 <= x3 /\ y2 <= y3
      BY <1>8, <1>10, Zenon DEF Spent
    <3> HIDE DEF x2, y2, x3, y3
    <3>3. t3 + c <= x3 /\ t3 + c <= y3
      <4>1. t3 + c \in Nat
        BY <1>a, <1>5, SMTT(40)
      <4>. QED BY <3>1, <3>2, <4>1, LeTrans
    <3>. QED BY <3>3, ZenonT(30) DEF x3, y3
  <2>2. g - 1 > p.limits.max_recompositions => Work(tr2) = 0
    <3> DEFINE m == p.limits.max_recompositions
    <3>1. m \in Nat /\ (a + c > 0 => g - 1 <= m) /\ (g - 1 > m => t1 + t3 = 0)
      BY <1>4, <1>b, Zenon DEF Limits
    <3> HIDE DEF m
    <3>2. g - 1 > m => (t1 + a) + (t3 + c) = 0
      BY <1>a, <1>5, <3>1, SMTT(40)
    <3>. QED BY <1>8, <3>2, Zenon DEF Work, m
  <2>. QED BY <1>6, <1>8, <1>9, <1>11, <2>1, <2>2, ZenonT(30) DEF Kept
<1>13. lp2.pc # "compose" /\ lp2.pc \notin SettledLabels
  BY <1>b, ZenonT(30) DEF SettledLabels
<1>14. OnPath(Position(lp2), g, p, st2, tr2, cp2)
  BY <1>b, ZenonT(30) DEF tr2
<1>15. Present(g, row, p, st2, tr2, cp2, lp2, cl)
  BY <1>b, <1>8, <1>10, <1>12, <1>13, <1>14, ZenonT(30) DEF Present
<1>. QED BY <1>15, Zenon DEF tr2

\* What the new events leave as it is on the path.
LEMMA PathTrace ==
  ASSUME Laws, NEW tr \in Seq(Events), NEW new, NEW a, NEW b, NEW c, NEW d, NEW e, NEW f, NEW h \in Nat,
         Adds(new, a, b, c, d, e, f, h)
  PROVE  /\ tr \o new \in Seq(Events)
         /\ Clean(tr) /\ Clean(new) => Clean(tr \o new)
         /\ Tally(tr \o new, {"validator_executed"}) = Tally(tr, {"validator_executed"}) + h
         /\ a \in Nat /\ c \in Nat => Work(tr \o new) = Work(tr) + a + c
<1>1. new \in Seq(Events) /\ Tally(new, {"validator_executed"}) = h
      /\ Tally(new, {"step_started"}) = a /\ Tally(new, {"tool_invocation_started"}) = c
  BY Zenon DEF Adds
<1>2. \A types : Tally(tr \o new, types) = Tally(tr, types) + Tally(new, types)
  BY <1>1, TallyConcat, Zenon
<1>3. \A types : Tally(tr, types) \in Nat
  BY TallyType, Zenon
<1>4. a \in Nat /\ c \in Nat => Work(tr \o new) = Work(tr) + a + c
  BY <1>1, <1>2, <1>3 DEF Work
<1>5. Clean(tr) /\ Clean(new) => Clean(tr \o new)
  BY <1>1, CleanConcat, Zenon
<1>6. tr \o new \in Seq(Events)
  BY <1>1, SMTT(40)
<1>. QED BY <1>1, <1>2, <1>4, <1>5, <1>6, Zenon

-----------------------------------------------------------------------------
(* From the rows of the current generation to the whole state.             *)

\* What is known of the generation in progress.
LEMMA CurrentLemma ==
  ASSUME LInv, TInv, runs # <<>>
  PROVE  /\ Gen \in Nat /\ Gen > 0 /\ Gen = Len(runs)
         /\ Gen \in DOMAIN runs /\ Gen \in DOMAIN steps
         /\ Gen \in DOMAIN events /\ Gen \in DOMAIN checkpoints
         /\ steps[Gen] \in [Range(Kinds) -> StepRows]
         /\ events[Gen] \in Seq(Events)
         /\ checkpoints[Gen] \in Seq(Phases)
         /\ Profile.limits \in Limits
         /\ {"on_validator_failure", "on_policy_denial", "on_budget_exhausted"}
              \subseteq DOMAIN Profile.failure_policy
         /\ Present(Gen, runs[Gen], Profile, steps[Gen], events[Gen], checkpoints[Gen],
                    loop, caller)
<1>1. Len(runs) \in Nat /\ Len(runs) # 0
  BY SMTT(40) DEF LInv
<1>2. /\ Len(runs) \in DOMAIN runs /\ Len(runs) \in DOMAIN steps
      /\ Len(runs) \in DOMAIN events /\ Len(runs) \in DOMAIN checkpoints
      /\ steps[Len(runs)] \in [Range(Kinds) -> StepRows]
      /\ events[Len(runs)] \in Seq(Events)
      /\ checkpoints[Len(runs)] \in Seq(Phases)
  BY <1>1 DEF LInv, TInv, RecordsTyped
<1>3. profiles[Len(runs)] \in SealedProfiles
  BY <1>1 DEF LInv
<1>4. \A p \in SealedProfiles :
        /\ p.limits \in Limits
        /\ {"on_validator_failure", "on_policy_denial", "on_budget_exhausted"}
             \subseteq DOMAIN p.failure_policy
  BY SealedLemma, Zenon DEF ProfileOK, Limits
<1>5. Present(Len(runs), runs[Len(runs)], profiles[Len(runs)], steps[Len(runs)],
              events[Len(runs)], checkpoints[Len(runs)], loop, caller)
  BY Zenon DEF TInv
<1>. QED BY <1>1, <1>2, <1>3, <1>4, <1>5 DEF Gen, Profile

\* Nothing written is the same as the same row written.
LEMMA SameLemma ==
  ASSUME LInv, TInv, runs # <<>>
  PROVE  /\ runs = [runs EXCEPT ![Gen] = runs[Gen]]
         /\ steps = [steps EXCEPT ![Gen] = steps[Gen]]
         /\ events = [events EXCEPT ![Gen] = events[Gen] \o <<>>]
         /\ checkpoints = [checkpoints EXCEPT ![Gen] = checkpoints[Gen]]
<1>1. events[Gen] \in Seq(Events)
  BY CurrentLemma, Zenon
<1>2. events[Gen] \o <<>> = events[Gen]
  BY <1>1, SMTT(40)
<1>3. /\ runs \in Seq(Rows) /\ steps \in Seq([Range(Kinds) -> StepRows])
      /\ events \in Seq(Seq(Events)) /\ checkpoints \in Seq(Seq(Phases))
  BY Zenon DEF LInv, TInv, RecordsTyped
<1>4. /\ runs = [runs EXCEPT ![Gen] = runs[Gen]]
      /\ steps = [steps EXCEPT ![Gen] = steps[Gen]]
      /\ events = [events EXCEPT ![Gen] = events[Gen]]
      /\ checkpoints = [checkpoints EXCEPT ![Gen] = checkpoints[Gen]]
  BY <1>3, SMTT(40)
<1>. QED BY <1>2, <1>4, Zenon

\* A step that writes rows of the current generation only.
LEMMA LocalLemma ==
  ASSUME LInv, TInv, LInv', runs # <<>>, profiles' = profiles,
         NEW row, runs' = [runs EXCEPT ![Gen] = row],
         NEW st \in [Range(Kinds) -> StepRows], steps' = [steps EXCEPT ![Gen] = st],
         NEW tr \in Seq(Events), events' = [events EXCEPT ![Gen] = tr],
         NEW cp \in Seq(Phases), checkpoints' = [checkpoints EXCEPT ![Gen] = cp],
         loop'.actions \in Seq(RepositoryReaders), loop'.counters \in CounterRows,
         workAtCancel' \in Nat,
         Present(Gen, row, Profile, st, tr, cp, loop', caller'),
         item' = "cancelled" => Mode = "queue" /\ Prompt(tr, loop'.pc, workAtCancel')
  PROVE  TInv'
<1>1. /\ Gen \in Nat /\ Gen > 0 /\ Gen = Len(runs)
      /\ Gen \in DOMAIN runs /\ Gen \in DOMAIN steps
      /\ Gen \in DOMAIN events /\ Gen \in DOMAIN checkpoints
  BY CurrentLemma, ZenonT(30)
<1>2. /\ runs \in Seq(Rows) /\ steps \in Seq([Range(Kinds) -> StepRows])
      /\ events \in Seq(Seq(Events)) /\ checkpoints \in Seq(Seq(Phases))
      /\ Len(steps) = Len(runs) /\ Len(events) = Len(runs) /\ Len(checkpoints) = Len(runs)
  BY ZenonT(30) DEF LInv, TInv, RecordsTyped
<1>3. runs' \in Seq(Rows)
  BY Zenon DEF LInv
<1> HIDE DEF LInv, TInv
<1>4. /\ Len(runs') = Len(runs) /\ runs' # <<>> /\ runs'[Gen] = row
      /\ \A g \in 1..(Gen - 1) : runs'[g] = runs[g]
  BY <1>1, <1>2, <1>3
<1>5. /\ steps' \in Seq([Range(Kinds) -> StepRows]) /\ Len(steps') = Len(runs)
      /\ steps'[Gen] = st /\ \A g \in 1..(Gen - 1) : steps'[g] = steps[g]
  BY <1>1, <1>2
<1>6. /\ events' \in Seq(Seq(Events)) /\ Len(events') = Len(runs)
      /\ events'[Gen] = tr /\ \A g \in 1..(Gen - 1) : events'[g] = events[g]
  BY <1>1, <1>2
<1>7. /\ checkpoints' \in Seq(Seq(Phases)) /\ Len(checkpoints') = Len(runs)
      /\ checkpoints'[Gen] = cp /\ \A g \in 1..(Gen - 1) : checkpoints'[g] = checkpoints[g]
  BY <1>1, <1>2
<1>8. RecordsTyped'
  BY <1>4, <1>5, <1>6, <1>7, Zenon DEF RecordsTyped
<1>9. \A g \in 1..(Len(runs') - 1) : Past(g)'
  <2> SUFFICES ASSUME NEW g \in 1..(Gen - 1) PROVE Past(g)'
    BY <1>1, <1>4, Zenon
  <2>1. Past(g)
    BY <1>1, Zenon DEF TInv
  <2>2. /\ runs'[g] = runs[g] /\ steps'[g] = steps[g] /\ events'[g] = events[g]
        /\ checkpoints'[g] = checkpoints[g] /\ profiles' = profiles
    BY <1>4, <1>5, <1>6, <1>7, ZenonT(30)
  <2>. QED BY <2>1, <2>2, Zenon DEF Past
<1>10. Present(Len(runs'), runs'[Len(runs')], profiles'[Len(runs')], steps'[Len(runs')],
               events'[Len(runs')], checkpoints'[Len(runs')], loop', caller')
  BY <1>1, <1>4, <1>5, <1>6, <1>7, Zenon DEF Profile
<1>11. item' = "cancelled" => /\ Mode = "queue" /\ runs' # <<>>
                              /\ Prompt(events'[Len(runs')], loop'.pc, workAtCancel')
  BY <1>1, <1>4, <1>6, Zenon
<1>. QED BY <1>8, <1>9, <1>10, <1>11, ZenonT(30) DEF TInv

\* A step of the loop inside its generation.
LEMMA MoveLemma ==
  ASSUME Laws, LInv, TInv, LInv', Within, UNCHANGED <<item, workAtCancel>>,
         NEW new, NEW a, NEW b, NEW c, NEW d, NEW e, NEW f, NEW h, NEW st, NEW cp,
         Agrees(Gen, Profile, steps[Gen], events[Gen], checkpoints[Gen], loop,
                new, a, b, c, d, e, f, h, st, cp, loop'),
         events' = [events EXCEPT ![Gen] = events[Gen] \o new],
         st \in [Range(Kinds) -> StepRows], steps' = [steps EXCEPT ![Gen] = st],
         cp \in Seq(Phases), checkpoints' = [checkpoints EXCEPT ![Gen] = cp],
         loop'.actions \in Seq(RepositoryReaders),
         a + c <= 1, a + c > 0 => loop.pc \in WorkLabels,
         loop'.pc \in WorkLabels => item # "cancelled"
  PROVE  TInv'
<1> DEFINE tr == events[Gen]
           row == runs[Gen]
           cp0 == checkpoints[Gen]
           st0 == steps[Gen]
<1>1. runs # <<>> /\ row.status # "succeeded"
  BY SMTT(60) DEF LInv, Within, Gen, Running, Lifecycle!Cancelled
<1>2. /\ Gen \in Nat /\ tr \in Seq(Events) /\ cp0 \in Seq(Phases)
      /\ Profile.limits \in Limits
      /\ Present(Gen, row, Profile, st0, tr, cp0, loop, caller)
  BY <1>1, CurrentLemma, ZenonT(30)
<1>3. loop.counters \in CounterRows /\ workAtCancel \in Nat
  BY ZenonT(30) DEF TInv, RecordsTyped
<1>4. Len(cp0) \in Nat
  BY <1>2, SMTT(60)
<1>5. a \in Nat /\ c \in Nat /\ h \in Nat /\ Adds(new, a, b, c, d, e, f, h)
      /\ loop'.counters \in CounterRows
  BY Zenon DEF Agrees
<1>7. runs' = [runs EXCEPT ![Gen] = row] /\ profiles' = profiles /\ caller' = caller
  <2>1. runs' = runs /\ profiles' = profiles /\ caller' = caller
    BY Zenon DEF Within
  <2>2. runs = [runs EXCEPT ![Gen] = row]
    BY <1>1, SameLemma, Zenon
  <2>. QED BY <2>1, <2>2, Zenon
<1>8. item = "cancelled" => Mode = "queue" /\ Prompt(tr, loop.pc, workAtCancel)
  BY ZenonT(30) DEF TInv, Gen
<1>9. loop.pc \notin SettledLabels
  BY ZenonT(30) DEF Within
<1> HIDE DEF tr, row, cp0, st0
<1>6. /\ tr \o new \in Seq(Events) /\ Work(tr \o new) = Work(tr) + a + c
      /\ Work(tr) \in Nat
  <2>1. \A types : Tally(tr, types) \in Nat
    BY <1>2, TallyType, ZenonT(30)
  <2>2. tr \o new \in Seq(Events) /\ Work(tr \o new) = Work(tr) + a + c
    BY <1>2, <1>5, PathTrace, SMTT(60)
  <2>. QED BY <2>1, <2>2, SMTT(60) DEF Work
<1>10. Present(Gen, row, Profile, st, tr \o new, cp, loop', caller)
  <2>1. Agrees(Gen, Profile, st0, tr, cp0, loop, new, a, b, c, d, e, f, h, st, cp, loop')
    BY ZenonT(30) DEF tr, cp0, st0
  <2>. QED BY <1>1, <1>2, <1>3, <1>4, <1>9, <2>1, ProgressLemma, Zenon
<1>11. item' = "cancelled" => Mode = "queue" /\ Prompt(tr \o new, loop'.pc, workAtCancel')
  <2> SUFFICES ASSUME item = "cancelled"
               PROVE  Mode = "queue" /\ Prompt(tr \o new, loop'.pc, workAtCancel)
    BY ZenonT(30)
  <2>1. loop'.pc \notin WorkLabels
    BY ZenonT(30)
  <2>2. CASE a + c = 0
    BY <1>3, <1>5, <1>6, <1>8, <2>1, <2>2, SMTT(60) DEF Prompt
  <2>3. CASE a + c = 1
    BY <1>3, <1>5, <1>6, <1>8, <2>1, <2>3, SMTT(60) DEF Prompt
  <2>4. a + c = 0 \/ a + c = 1
    BY <1>5, SMTT(60)
  <2>. QED BY <1>8, <2>2, <2>3, <2>4, ZenonT(30)
<1>12. events' = [events EXCEPT ![Gen] = tr \o new] /\ workAtCancel' \in Nat
  BY <1>3, Zenon DEF tr
<1>. QED BY <1>1, <1>5, <1>6, <1>7, <1>10, <1>11, <1>12, LocalLemma, ZenonT(30)

\* Places of the loop that ask nothing of the trace, and places that ask the same.
LEMMA OffPath ==
  ASSUME NEW pos, pos \notin Path, NEW g, NEW p, NEW st, NEW tr, NEW cp
  PROVE  OnPath(pos, g, p, st, tr, cp)
  BY Zenon DEF OnPath, Path

Groups == {Starting, InContext, InPlanner, InExecutor, Executing, InValidator}
\* A step of the loop that writes nothing.
LEMMA QuietLemma ==
  ASSUME Laws, LInv, TInv, LInv', Within, UNCHANGED <<recorded, item, workAtCancel>>,
         loop.pc # "invoked", loop'.pc # "invoked", loop'.pc \notin SettledLabels,
         loop'.actions = loop.actions, loop'.counters = loop.counters,
         OnPath(Position(loop'), Gen, Profile, steps[Gen], events[Gen], checkpoints[Gen]),
         loop'.pc = "invoke" => loop'.target = "invoke",
         Position(loop') \in {"invoke", "invoked"} => loop.actions # <<>>,
         loop'.pc \in WorkLabels => item # "cancelled"
  PROVE  TInv'
<1> DEFINE n == Cardinality(Unfinished(steps[Gen]))
<1>1. runs # <<>>
  BY ZenonT(30) DEF LInv, Within
<1>2. /\ steps[Gen] \in [Range(Kinds) -> StepRows] /\ checkpoints[Gen] \in Seq(Phases)
      /\ events[Gen] \in Seq(Events) /\ Profile.limits \in Limits
      /\ Present(Gen, runs[Gen], Profile, steps[Gen], events[Gen], checkpoints[Gen],
                 loop, caller)
  BY <1>1, CurrentLemma, ZenonT(30)
<1>3. n \in Nat
  <2>1. Unfinished(steps[Gen]) \in SUBSET Range(Kinds)
    BY Zenon DEF Unfinished
  <2>. QED BY <2>1, KindsLemma, KindsFinite, Zenon
<1>4. /\ steps' = [steps EXCEPT ![Gen] = steps[Gen]]
      /\ events' = [events EXCEPT ![Gen] = events[Gen] \o <<>>]
      /\ checkpoints' = [checkpoints EXCEPT ![Gen] = checkpoints[Gen]]
  BY <1>1, SameLemma, Zenon DEF recorded
<1>5. Adds(<<>>, 0, 0, 0, 0, 0, 0, 0)
  BY AddsNone, Zenon
<1>6. events[Gen] \o <<>> = events[Gen]
  BY <1>2, SMTT(60)
<1>7. Invoking(loop) = 0 /\ Invoking(loop') = 0
  BY Zenon DEF Invoking
<1>8. /\ loop.counters \in CounterRows /\ loop.actions \in Seq(RepositoryReaders)
  BY ZenonT(30) DEF TInv, RecordsTyped
<1>9. WithinLimits(loop.counters, Profile)
  BY <1>2, ZenonT(30) DEF Present, Spent, WithinLimits
<1>10. Len(checkpoints[Gen]) = Len(checkpoints[Gen]) + 0
  BY <1>2, SMTT(60)
<1>11. /\ loop.counters.tool_calls >= loop.counters.tool_calls + 0
       /\ loop.counters.data_reads >= loop.counters.data_reads + 0
  BY <1>8, SMTT(40) DEF CounterRows
<1>12. Agrees(Gen, Profile, steps[Gen], events[Gen], checkpoints[Gen], loop,
              <<>>, 0, 0, 0, 0, 0, 0, 0, steps[Gen], checkpoints[Gen], loop')
  BY <1>3, <1>5, <1>6, <1>7, <1>8, <1>9, <1>10, <1>11, SMTT(60) DEF Agrees
<1>13. 0 + 0 <= 1 /\ (0 + 0 > 0 => loop.pc \in WorkLabels)
  BY SMTT(40)
<1>14. loop'.actions \in Seq(RepositoryReaders)
  BY <1>8, Zenon
<1>. QED BY <1>2, <1>4, <1>12, <1>13, <1>14, MoveLemma, Zenon

-----------------------------------------------------------------------------
(* The steps up to the executor keep the invariant of the trace.           *)

Silent == Within /\ UNCHANGED <<recorded, item, workAtCancel>>

\* Leaving the path to success without writing anything.
LEMMA LeaveLemma ==
  ASSUME Laws, LInv, TInv, LInv', Silent, loop.pc # "invoked",
         NEW label, label \notin Path, label \notin SettledLabels,
         label \notin {"check_run", "check_item"},
         Goto(label) \/ (label = "error" /\ \E error : Raise(error))
  PROVE  TInv'
<1>1. /\ loop'.pc = label /\ loop'.actions = loop.actions /\ loop'.counters = loop.counters
  BY Zenon DEF LInv, Goto, Raise
<1>2. label \notin WorkLabels /\ label # "invoked" /\ label # "invoke"
  BY Zenon DEF Path, WorkLabels, InContext, InPlanner, InExecutor, InValidator, Executing
<1>3. Position(loop') = label
  BY <1>1, Zenon DEF Position
<1>4. OnPath(Position(loop'), Gen, Profile, steps[Gen], events[Gen], checkpoints[Gen])
  BY <1>3, OffPath, Zenon
<1>. QED BY <1>1, <1>2, <1>3, <1>4, QuietLemma, Zenon DEF Silent

\* The seal, the profile and the cancellation checkpoints write nothing.
LEMMA SilentSteps ==
  Laws /\ LInv /\ TInv /\ LInv'
  /\ (\/ AssertProfileSeal \/ ValidateProfile \/ CheckRun \/ CheckItem
      \/ \E kind \in Range(Kinds) : DurationExceeded(kind))
  => TInv'
  \* A profile the loop goes on with has not used up its recompositions.
<1>ValidatedProfile. ASSUME Laws, NEW p, ValidateProfileForRuntime(p) = NoError
                     PROVE  p.generation - 1 <= p.limits.max_recompositions
    BY <1>ValidatedProfile, Zenon DEF Laws
  \* The places of a group ask the same of the trace.
<1>SameGroup. ASSUME NEW group \in Groups, NEW pos \in group, NEW pos2 \in group,
                     NEW g, NEW p, NEW st, NEW tr, NEW cp, OnPath(pos, g, p, st, tr, cp)
              PROVE  OnPath(pos2, g, p, st, tr, cp)
    BY <1>SameGroup, ZenonT(30) DEF OnPath, Path, Groups, Starting, InContext, InPlanner, InExecutor, Executing,
           InValidator
  \* Going on to a place that asks no more of the trace.
<1>ProceedTrace. ASSUME Laws, LInv, TInv, LInv', Silent, loop.pc \in {"check_run", "check_item"},
                        item # "cancelled", Proceed(loop.target)
                 PROVE  TInv'
  <2>1. runs # <<>> /\ loop.target \in Targets
    BY <1>ProceedTrace, Zenon DEF LInv, Silent, Within
  <2>2. Present(Gen, runs[Gen], Profile, steps[Gen], events[Gen], checkpoints[Gen],
                loop, caller)
    BY <1>ProceedTrace, <2>1, CurrentLemma, Zenon
  <2>3. Position(loop) = loop.target
    BY <1>ProceedTrace, Zenon DEF Position
  <2>4. OnPath(loop.target, Gen, Profile, steps[Gen], events[Gen], checkpoints[Gen])
        /\ (loop.target = "invoke" => loop.actions # <<>>)
    BY <2>2, <2>3, Zenon DEF Present
  <2>5. CASE loop.target \in {"before_context", "before_planner", "before_executor",
                              "before_validator"}
    <3>1. PICK label \in {"context", "planner", "executor", "validator"} :
            /\ CheckThen(label)
            /\ \E group \in {InContext, InPlanner, InExecutor, InValidator} :
                 loop.target \in group /\ label \in group
      BY <1>ProceedTrace, <2>5, Zenon DEF Proceed, InContext, InPlanner, InExecutor, InValidator
    <3>2. /\ loop'.pc = "check_run" /\ loop'.target = label
          /\ loop'.actions = loop.actions /\ loop'.counters = loop.counters
      BY <3>1 DEF LInv, CheckThen
    <3>3. Position(loop') = label
      BY <3>2, Zenon DEF Position
    <3>4. OnPath(Position(loop'), Gen, Profile, steps[Gen], events[Gen], checkpoints[Gen])
      <4>1. PICK group \in Groups : loop.target \in group /\ label \in group
        BY <3>1, Zenon DEF Groups
      <4>. QED BY <2>4, <3>3, <4>1, <1>SameGroup, ZenonT(30)
    <3>5. label \notin {"invoke", "invoked"} /\ "check_run" \notin SettledLabels
          /\ "check_run" \notin WorkLabels
      BY <3>1, Zenon DEF SettledLabels, WorkLabels
    <3>. QED BY <1>ProceedTrace, <3>2, <3>3, <3>4, <3>5, QuietLemma, Zenon DEF Silent
  <2>6. CASE loop.target \in {"none", "context", "planner", "executor", "validator", "invoke"}
    <3>1. Goto(loop.target)
      BY <1>ProceedTrace, <2>6, Zenon DEF Proceed
    <3>2. /\ loop'.pc = loop.target /\ loop'.target = loop.target
          /\ loop'.actions = loop.actions /\ loop'.counters = loop.counters
      BY <3>1 DEF LInv, Goto
    <3>3. Position(loop') = loop.target
      BY <2>6, <3>2, Zenon DEF Position
    <3>4. loop.target \notin SettledLabels /\ loop.target # "invoked"
      BY <2>6, Zenon DEF SettledLabels
    <3>. QED BY <1>ProceedTrace, <2>4, <3>2, <3>3, <3>4, QuietLemma, Zenon DEF Silent
  <2>. QED BY <2>1, <2>5, <2>6, Zenon DEF Targets
<1>1. ASSUME Laws, LInv, TInv, LInv',
             \/ AssertProfileSeal \/ ValidateProfile \/ CheckRun \/ CheckItem
             \/ \E kind \in Range(Kinds) : DurationExceeded(kind)
      PROVE  TInv'
  <2>1. Silent /\ loop.pc # "invoked"
    BY <1>1, KindsLemma, Zenon
       DEF AssertProfileSeal, ValidateProfile, CheckRun, CheckItem, DurationExceeded, At,
           cancellation, Silent, Within, SettledLabels
  <2>2. runs # <<>>
    BY <1>1, <2>1, Zenon DEF LInv, Silent, Within
  <2>3. Present(Gen, runs[Gen], Profile, steps[Gen], events[Gen], checkpoints[Gen],
                loop, caller)
    BY <1>1, <2>2, CurrentLemma, Zenon
  <2>4. \A label \in {"fail_read", "abandoned", "cancelled", "error"} :
          label \notin Path /\ label \notin SettledLabels
          /\ label \notin {"check_run", "check_item"}
    BY Zenon DEF Path, SettledLabels, Starting, InContext, InPlanner, InExecutor, InValidator,
           Executing
  <2>5. CASE AssertProfileSeal
    <3>1. CASE Goto("validate")
      <4>1. /\ loop.pc = "seal" /\ loop'.pc = "validate"
            /\ loop'.actions = loop.actions /\ loop'.counters = loop.counters
        BY <2>5, <3>1 DEF LInv, Goto, AssertProfileSeal, At
      <4>2. Position(loop) = "seal" /\ Position(loop') = "validate"
        BY <4>1, Zenon DEF Position
      <4>3. OnPath("seal", Gen, Profile, steps[Gen], events[Gen], checkpoints[Gen])
        BY <2>3, <4>2, Zenon DEF Present
      <4>4. OnPath("validate", Gen, Profile, steps[Gen], events[Gen], checkpoints[Gen])
        BY <4>3, <1>SameGroup, Zenon DEF Groups, Starting
      <4>5. "validate" \notin SettledLabels /\ "validate" \notin WorkLabels
        BY Zenon DEF SettledLabels, WorkLabels
      <4>. QED BY <1>1, <2>1, <4>1, <4>2, <4>4, <4>5, QuietLemma, Zenon DEF Silent
    <3>2. CASE ~ Goto("validate")
      <4>1. Goto("fail_read") \/ Goto("abandoned")
        BY <2>5, <3>2, Zenon DEF AssertProfileSeal
      <4>. QED BY <1>1, <2>1, <2>4, <4>1, LeaveLemma, Zenon
    <3>. QED BY <3>1, <3>2, Zenon
  <2>6. CASE ValidateProfile
    <3>1. CASE ValidateProfileForRuntime(Profile) = NoError
      <4>1. CheckThen("before_context") /\ loop.pc = "validate"
        BY <2>6, <3>1, Zenon DEF ValidateProfile, At
      <4>2. /\ loop'.pc = "check_run" /\ loop'.target = "before_context"
            /\ loop'.actions = loop.actions /\ loop'.counters = loop.counters
        BY <4>1 DEF LInv, CheckThen
      <4>3. Position(loop) = "validate" /\ Position(loop') = "before_context"
        BY <4>1, <4>2, Zenon DEF Position
      <4>4. OnPath("validate", Gen, Profile, steps[Gen], events[Gen], checkpoints[Gen])
        BY <2>3, <4>3, Zenon DEF Present
      <4>5. Gen - 1 <= Profile.limits.max_recompositions
        <5>1. Profile.generation = Gen
          BY <2>3, Zenon DEF Present, Spent
        <5>. QED BY <1>1, <3>1, <5>1, <1>ValidatedProfile, Zenon
      <4>6. OnPath("before_context", Gen, Profile, steps[Gen], events[Gen], checkpoints[Gen])
        BY <4>4, <4>5, Zenon
           DEF OnPath, Path, Starting, InContext, InPlanner, InExecutor, InValidator, Executing
      <4>7. "check_run" \notin SettledLabels /\ "check_run" \notin WorkLabels
        BY Zenon DEF SettledLabels, WorkLabels
      <4>. QED BY <1>1, <2>1, <4>2, <4>3, <4>6, <4>7, QuietLemma, Zenon DEF Silent
    <3>2. CASE ValidateProfileForRuntime(Profile) # NoError
      <4>1. \E error : Raise(error)
        BY <2>6, <3>2, Zenon DEF ValidateProfile
      <4>. QED BY <1>1, <2>1, <2>4, <4>1, LeaveLemma, Zenon
    <3>. QED BY <3>1, <3>2, Zenon
  <2>7. CASE CheckRun
    <3>1. CASE Goto("cancelled")
      BY <1>1, <2>1, <2>4, <3>1, LeaveLemma, Zenon
    <3>2. CASE Mode = "queue" /\ Goto("check_item")
      <4>1. loop.pc = "check_run"
        BY <2>7, Zenon DEF CheckRun, At
      <4>2. /\ loop'.pc = "check_item" /\ loop'.target = loop.target
            /\ loop'.actions = loop.actions /\ loop'.counters = loop.counters
        BY <3>2 DEF LInv, Goto
      <4>3. Position(loop') = Position(loop)
        BY <4>1, <4>2, Zenon DEF Position
      <4>4. /\ OnPath(Position(loop'), Gen, Profile, steps[Gen], events[Gen], checkpoints[Gen])
            /\ Position(loop') \in {"invoke", "invoked"} => loop.actions # <<>>
        BY <2>3, <4>3, Zenon DEF Present
      <4>5. "check_item" \notin SettledLabels /\ "check_item" \notin WorkLabels
        BY Zenon DEF SettledLabels, WorkLabels
      <4>. QED BY <1>1, <2>1, <4>1, <4>2, <4>4, <4>5, QuietLemma, Zenon DEF Silent
    <3>3. CASE Mode # "queue" /\ Proceed(loop.target)
      <4>1. item # "cancelled" /\ loop.pc = "check_run"
        BY <1>1, <2>7, <3>3, Zenon DEF TInv, CheckRun, At
      <4>. QED BY <1>1, <2>1, <3>3, <4>1, <1>ProceedTrace, Zenon
    <3>. QED BY <2>7, <3>1, <3>2, <3>3, Zenon DEF CheckRun
  <2>8. CASE CheckItem
    <3>1. CASE Goto("cancelled")
      BY <1>1, <2>1, <2>4, <3>1, LeaveLemma, Zenon
    <3>2. CASE item # "cancelled" /\ Proceed(loop.target)
      <4>1. loop.pc = "check_item"
        BY <2>8, Zenon DEF CheckItem, At
      <4>. QED BY <1>1, <2>1, <3>2, <4>1, <1>ProceedTrace, Zenon
    <3>. QED BY <2>8, <3>1, <3>2, Zenon DEF CheckItem
  <2>9. CASE \E kind \in Range(Kinds) : DurationExceeded(kind)
    <3>1. \E error : Raise(error)
      BY <2>9, Zenon DEF DurationExceeded
    <3>. QED BY <1>1, <2>1, <2>4, <3>1, LeaveLemma, Zenon
  <2>. QED BY <1>1, <2>5, <2>6, <2>7, <2>8, <2>9, Zenon
<1>. QED BY <1>1, Zenon

\* What is known in front of a phase or inside the executor's.
LEMMA PlaceLemma ==
  ASSUME LInv, TInv, loop.pc \in InContext \cup InPlanner \cup InExecutor \cup Executing \cup InValidator
  PROVE  /\ runs # <<>> /\ Gen \in Nat
         /\ steps[Gen] \in [Range(Kinds) -> StepRows]
         /\ events[Gen] \in Seq(Events)
         /\ checkpoints[Gen] \in Seq(Phases)
         /\ Profile.limits \in Limits
         /\ OnPath(loop.pc, Gen, Profile, steps[Gen], events[Gen], checkpoints[Gen])
         /\ Clean(events[Gen]) /\ Tally(events[Gen], {"validator_executed"}) = 0
         /\ Gen - 1 <= Profile.limits.max_recompositions
         /\ loop.counters \in CounterRows /\ WithinLimits(loop.counters, Profile)
         /\ loop.actions \in Seq(RepositoryReaders)
         /\ loop.pc \in {"invoke", "invoked"} => loop.target = "invoke" /\ loop.actions # <<>>
<1>1. /\ loop.pc \notin SettledLabels /\ loop.pc \in Path \ Starting /\ loop.pc # "succeed"
      /\ loop.pc \notin {"check_run", "check_item"}
  BY Zenon DEF SettledLabels, Path, Starting, InContext, InPlanner, InExecutor, InValidator, Executing
<1>2. runs # <<>>
  BY <1>1, Zenon DEF LInv
<1>3. Position(loop) = loop.pc
  BY <1>1, Zenon DEF Position
<1>4. /\ Gen \in Nat
      /\ steps[Gen] \in [Range(Kinds) -> StepRows]
      /\ events[Gen] \in Seq(Events)
      /\ checkpoints[Gen] \in Seq(Phases)
      /\ Profile.limits \in Limits
      /\ Present(Gen, runs[Gen], Profile, steps[Gen], events[Gen], checkpoints[Gen],
                 loop, caller)
  BY <1>2, CurrentLemma, Zenon
<1>5. /\ OnPath(loop.pc, Gen, Profile, steps[Gen], events[Gen], checkpoints[Gen])
      /\ WithinLimits(loop.counters, Profile)
      /\ loop.pc \in {"invoke", "invoked"} => loop.target = "invoke" /\ loop.actions # <<>>
  BY <1>3, <1>4, Zenon DEF Present, Spent, WithinLimits
<1>6. /\ Clean(events[Gen]) /\ Tally(events[Gen], {"validator_executed"}) = 0
      /\ Gen - 1 <= Profile.limits.max_recompositions
  BY <1>1, <1>5, Zenon DEF OnPath
<1>7. loop.counters \in CounterRows /\ loop.actions \in Seq(RepositoryReaders)
  BY Zenon DEF TInv, RecordsTyped
<1>. QED BY <1>2, <1>4, <1>5, <1>6, <1>7, Zenon

\* What a step writes to its own row.
LEMMA SetStepLemma ==
  ASSUME LInv, TInv, runs # <<>>, NEW kind \in Range(Kinds),
         NEW status \in {"running", "succeeded", "failed"}, NEW stop \in Stops,
         SetStep(kind, status, stop)
  PROVE  \E st \in [Range(Kinds) -> StepRows] :
           /\ steps' = [steps EXCEPT ![Gen] = st]
           /\ st[kind].status = status
           /\ \A k \in Range(Kinds) : k # kind => st[k] = steps[Gen][k]
<1> DEFINE new == [status |-> status, stop |-> stop]
           st == [steps[Gen] EXCEPT ![kind] = new]
<1>1. new \in StepRows /\ new.status = status
  BY Zenon DEF StepRows
<1>2. steps[Gen] \in [Range(Kinds) -> StepRows] /\ Gen \in DOMAIN steps
  BY CurrentLemma, Zenon
<1>3. steps' = [steps EXCEPT ![Gen][kind] = new]
  BY Zenon DEF SetStep
<1> HIDE DEF new
<1>4. steps' = [steps EXCEPT ![Gen] = st]
  BY <1>3, Zenon
<1>5. /\ st \in [Range(Kinds) -> StepRows] /\ st[kind] = new
      /\ \A k \in Range(Kinds) : k # kind => st[k] = steps[Gen][k]
  BY <1>1, <1>2, Zenon
<1> HIDE DEF st
<1>. QED BY <1>1, <1>4, <1>5, Zenon

\* The context and the planner.
LEMMA PhaseSteps ==
  Laws /\ LInv /\ TInv /\ LInv' /\ (ContextStep \/ PlannerStep) => TInv'
  \* The profile of a generation in progress.
<1>CurrentProfile. ASSUME LInv, runs # <<>>
                   PROVE  ProfileOK(Profile)
  <2>1. Len(profiles) \in Nat /\ Len(profiles) # 0
    BY <1>CurrentProfile DEF LInv
  <2>2. profiles[Len(profiles)] \in SealedProfiles
    BY <1>CurrentProfile, <2>1 DEF LInv
  <2>. QED BY <1>CurrentProfile, <2>2, SealedLemma, Zenon DEF LInv, Profile, Gen
  \* Every action of a plan reads a repository.
<1>PlanReads. ASSUME Laws, NEW p, ProfileOK(p), BuildRuntimePlan(p).error = NoError
              PROVE  BuildRuntimePlan(p).actions \in Seq(RepositoryReaders)
    BY <1>PlanReads, Zenon DEF Laws
  \* A step that starts and is left running: the phase raises.
<1>LeftRunningLemma. ASSUME Laws, LInv, TInv, LInv', Within, UNCHANGED <<item, workAtCancel>>,
                            NEW kind \in {"context", "planner"}, loop.pc = kind,
                            Emit(<<Event("step_started")>>), SetStep(kind, "running", "none"),
                            UNCHANGED checkpoints,
                            loop'.pc \in {"error", "abandoned"}, loop'.actions = loop.actions,
                            loop'.counters = loop.counters
                     PROVE  TInv'
  <2> DEFINE st0 == steps[Gen]
             tr == events[Gen]
             cp == checkpoints[Gen]
             new == <<Event("step_started")>>
  <2>1. loop.pc \in InContext \cup InPlanner \cup InExecutor \cup Executing \cup InValidator
    BY <1>LeftRunningLemma, Zenon DEF InContext, InPlanner
  <2>2. /\ runs # <<>> /\ Gen \in Nat /\ tr \in Seq(Events) /\ cp \in Seq(Phases)
        /\ OnPath(loop.pc, Gen, Profile, st0, tr, cp)
        /\ Gen - 1 <= Profile.limits.max_recompositions
        /\ loop.counters \in CounterRows /\ WithinLimits(loop.counters, Profile)
        /\ loop.actions \in Seq(RepositoryReaders)
    BY <1>LeftRunningLemma, <2>1, PlaceLemma, Zenon
  <2>3. kind \in Range(Kinds) /\ "none" \in Stops
    BY KindsLemma, Zenon DEF Stops
  <2>4. PICK st \in [Range(Kinds) -> StepRows] :
             /\ steps' = [steps EXCEPT ![Gen] = st]
             /\ st[kind].status = "running"
             /\ \A k \in Range(Kinds) : k # kind => st[k] = st0[k]
    BY <1>LeftRunningLemma, <2>2, <2>3, SetStepLemma, Zenon
  <2>5. /\ events' = [events EXCEPT ![Gen] = tr \o new]
        /\ checkpoints' = [checkpoints EXCEPT ![Gen] = cp]
    BY <1>LeftRunningLemma, <2>2, SameLemma, Zenon DEF Emit
  <2>6. Adds(new, 1, 0, 0, 0, 0, 0, 0)
    BY <1>LeftRunningLemma, StepTraces, Zenon
  <2> HIDE DEF st0, tr, cp, new
  <2>7. \E a, b \in {"absent", "succeeded"} : StepsAre(st0, a, b, "absent", "absent")
    BY <1>LeftRunningLemma, <2>2, Zenon DEF OnPath, InContext, InPlanner
  <2>8. Cardinality(Unfinished(st0)) = 0
    BY <1>LeftRunningLemma, <2>7, NoneOpen, Zenon
  <2>9. Cardinality(Unfinished(st)) = 1
    <3>1. \A k \in Range(Kinds) : st0[k].status # "running"
      BY <2>7, KindsLemma, Zenon DEF StepsAre
    <3>. QED BY <1>LeftRunningLemma, <2>3, <2>4, <3>1, OneOpen, SMTT(40)
  <2>10. /\ Position(loop') = loop'.pc /\ loop'.pc \notin Path /\ loop'.pc \notin SettledLabels
         /\ loop'.pc \notin WorkLabels /\ loop'.pc \notin {"invoke", "invoked"}
    BY <1>LeftRunningLemma, Zenon DEF Position, Path, SettledLabels, WorkLabels, Starting, InContext, InPlanner,
           InExecutor, InValidator, Executing
  <2>11. OnPath(Position(loop'), Gen, Profile, st, tr \o new, cp)
    BY <2>10, OffPath, Zenon
  <2>12. Invoking(loop) = 0 /\ Invoking(loop') = 0
    BY <1>LeftRunningLemma, <2>10, Zenon DEF Invoking
  <2>13. Agrees(Gen, Profile, st0, tr, cp, loop, new, 1, 0, 0, 0, 0, 0, 0, st, cp, loop')
    <3>1. /\ loop.counters.tool_calls >= loop.counters.tool_calls + 0
          /\ loop.counters.data_reads >= loop.counters.data_reads + 0
          /\ Len(cp) = Len(cp) + 0
      BY <2>2 DEF CounterRows
    <3>. QED BY <1>LeftRunningLemma, <2>2, <2>6, <2>8, <2>9, <2>10, <2>11, <2>12, <3>1 DEF Agrees
  <2>14. /\ 1 + 0 <= 1 /\ (1 + 0 > 0 => loop.pc \in WorkLabels)
         /\ loop'.actions \in Seq(RepositoryReaders)
    BY <1>LeftRunningLemma, <2>2 DEF WorkLabels
  <2>15. loop'.pc \in WorkLabels => item # "cancelled"
    BY <2>10, Zenon
  <2>16. Agrees(Gen, Profile, steps[Gen], events[Gen], checkpoints[Gen], loop,
                new, 1, 0, 0, 0, 0, 0, 0, st, cp, loop')
    BY <2>13, Zenon DEF st0, tr, cp
  <2>17. events' = [events EXCEPT ![Gen] = events[Gen] \o new]
    BY <2>5, Zenon DEF tr
  <2>. QED BY <1>LeftRunningLemma, <2>2, <2>4, <2>5, <2>14, <2>15, <2>16, <2>17, MoveLemma, Zenon
  \* A step that runs to its end.
<1>StepRunsLemma. ASSUME Laws, LInv, TInv, LInv', Within, UNCHANGED <<item, workAtCancel>>,
                         NEW kind \in {"context", "planner"}, loop.pc = kind,
                         Emit(<<Event("step_started")>> \o StepSucceeded(kind)), Checkpointed(kind),
                         SetStep(kind, "succeeded", "completed"),
                         loop'.pc = "check_run", loop'.counters = loop.counters,
                         loop'.target = IF kind = "context" THEN "before_planner" ELSE "before_executor",
                         loop'.actions \in Seq(RepositoryReaders)
                  PROVE  TInv'
  <2> DEFINE st0 == steps[Gen]
             tr == events[Gen]
             cp == checkpoints[Gen]
             cp2 == Append(checkpoints[Gen], kind)
             new == <<Event("step_started")>> \o StepSucceeded(kind)
  <2>1. loop.pc \in InContext \cup InPlanner \cup InExecutor \cup Executing \cup InValidator
    BY <1>StepRunsLemma, Zenon DEF InContext, InPlanner
  <2>2. /\ runs # <<>> /\ Gen \in Nat /\ tr \in Seq(Events) /\ cp \in Seq(Phases)
        /\ OnPath(loop.pc, Gen, Profile, st0, tr, cp)
        /\ Clean(tr) /\ Tally(tr, {"validator_executed"}) = 0
        /\ Gen - 1 <= Profile.limits.max_recompositions
        /\ loop.counters \in CounterRows /\ WithinLimits(loop.counters, Profile)
    BY <1>StepRunsLemma, <2>1, PlaceLemma, Zenon
  <2>3. kind \in Range(Kinds) /\ "completed" \in Stops /\ kind \in Phases
    BY KindsLemma, Zenon DEF Stops, Phases
  <2>4. PICK st \in [Range(Kinds) -> StepRows] :
             /\ steps' = [steps EXCEPT ![Gen] = st]
             /\ st[kind].status = "succeeded"
             /\ \A k \in Range(Kinds) : k # kind => st[k] = st0[k]
    BY <1>StepRunsLemma, <2>2, <2>3, SetStepLemma, Zenon
  <2>5. /\ events' = [events EXCEPT ![Gen] = tr \o new]
        /\ checkpoints' = [checkpoints EXCEPT ![Gen] = cp2]
    BY <1>StepRunsLemma, Zenon DEF Emit, Checkpointed
  <2>6. Adds(new, 1, 1, 0, 0, 0, 1, 0) /\ Clean(new)
    BY <1>StepRunsLemma, StepTraces, Zenon
  <2>7. cp2 \in Seq(Phases) /\ Len(cp2) = Len(cp) + 1
    BY <2>2, <2>3
  <2> HIDE DEF st0, tr, cp, new, cp2
  <2>8. /\ kind = "context" => /\ StepsAre(st0, "absent", "absent", "absent", "absent")
                               /\ StepsAre(st, "succeeded", "absent", "absent", "absent")
        /\ kind = "planner" => /\ StepsAre(st0, "succeeded", "absent", "absent", "absent")
                               /\ StepsAre(st, "succeeded", "succeeded", "absent", "absent")
    BY <1>StepRunsLemma, <2>2, <2>4, KindsLemma DEF OnPath, InContext, InPlanner, StepsAre
  <2>9. Cardinality(Unfinished(st0)) = 0 /\ Cardinality(Unfinished(st)) = 0
    BY <1>StepRunsLemma, <2>8, NoneOpen, Zenon
  <2>10. /\ Clean(tr \o new) /\ Tally(tr \o new, {"validator_executed"}) = 0
    <3>1. Tally(tr \o new, {"validator_executed"}) = Tally(tr, {"validator_executed"}) + 0
          /\ Clean(tr \o new)
      BY <1>StepRunsLemma, <2>2, <2>6, PathTrace
    <3>. QED BY <2>2, <3>1
  <2>11. Position(loop') = loop'.target
    BY <1>StepRunsLemma, Zenon DEF Position
  <2>12. OnPath(loop'.target, Gen, Profile, st, tr \o new, cp2)
    BY <1>StepRunsLemma, <2>2, <2>8, <2>10, Zenon
       DEF OnPath, Path, Starting, InContext, InPlanner, InExecutor, InValidator, Executing
  <2>13. Invoking(loop) = 0 /\ Invoking(loop') = 0
    BY <1>StepRunsLemma, Zenon DEF Invoking
  <2>14. "check_run" \notin SettledLabels /\ "check_run" \notin WorkLabels
    BY Zenon DEF SettledLabels, WorkLabels
  <2>15. Agrees(Gen, Profile, st0, tr, cp, loop, new, 1, 1, 0, 0, 0, 1, 0, st, cp2, loop')
    <3>1. /\ loop.counters.tool_calls >= loop.counters.tool_calls + 0
          /\ loop.counters.data_reads >= loop.counters.data_reads + 0
      BY <2>2 DEF CounterRows
    <3>. QED BY <1>StepRunsLemma, <2>2, <2>6, <2>7, <2>9, <2>11, <2>12, <2>13, <2>14, <3>1, SMTT(40) DEF Agrees
  <2>16. /\ 1 + 0 <= 1 /\ (1 + 0 > 0 => loop.pc \in WorkLabels)
         /\ loop'.pc \in WorkLabels => item # "cancelled"
    BY <1>StepRunsLemma, <2>14 DEF WorkLabels
  <2>17. Agrees(Gen, Profile, steps[Gen], events[Gen], checkpoints[Gen], loop,
                new, 1, 1, 0, 0, 0, 1, 0, st, cp2, loop')
    BY <2>15, Zenon DEF st0, tr, cp
  <2>18. events' = [events EXCEPT ![Gen] = events[Gen] \o new]
    BY <2>5, Zenon DEF tr
  <2>. QED BY <1>StepRunsLemma, <2>4, <2>5, <2>7, <2>16, <2>17, <2>18, MoveLemma, Zenon
<1>1. ASSUME Laws, LInv, TInv, LInv', ContextStep \/ PlannerStep
      PROVE  TInv'
  <2>1. Within /\ UNCHANGED <<item, workAtCancel>>
    BY <1>1, Zenon DEF ContextStep, PlannerStep, At, cancellation, Within, SettledLabels
  <2>2. loop.actions \in Seq(RepositoryReaders)
    BY <1>1, Zenon DEF TInv, RecordsTyped
  <2>3. CASE ContextStep
    <3>1. loop.pc = "context"
      BY <2>3, Zenon DEF ContextStep, At
    <3>2. CASE StepRuns("context", CheckThen("before_planner"))
      <4>1. /\ Emit(<<Event("step_started")>> \o StepSucceeded("context"))
            /\ Checkpointed("context") /\ SetStep("context", "succeeded", "completed")
            /\ CheckThen("before_planner")
        BY <3>2, Zenon DEF StepRuns
      <4>2. /\ loop'.pc = "check_run" /\ loop'.target = "before_planner"
            /\ loop'.actions = loop.actions /\ loop'.counters = loop.counters
        BY <4>1 DEF CheckThen, LInv
      <4>. QED BY <1>1, <2>1, <2>2, <3>1, <4>1, <4>2, <1>StepRunsLemma, Zenon
    <3>3. CASE \/ StepLeftRunning("context", Raise(Denied("retrieval_response_metadata_invalid")))
               \/ StepLeftRunning("context", Goto("abandoned"))
      <4>1. /\ Emit(<<Event("step_started")>>) /\ SetStep("context", "running", "none")
            /\ UNCHANGED checkpoints
            /\ Raise(Denied("retrieval_response_metadata_invalid")) \/ Goto("abandoned")
        BY <3>3, Zenon DEF StepLeftRunning
      <4>2. /\ loop'.pc \in {"error", "abandoned"}
            /\ loop'.actions = loop.actions /\ loop'.counters = loop.counters
        BY <1>1, <4>1, ZenonT(30) DEF Raise, Goto, LInv
      <4>. QED BY <1>1, <2>1, <3>1, <4>1, <4>2, <1>LeftRunningLemma, Zenon
    <3>. QED BY <2>3, <3>2, <3>3, Zenon DEF ContextStep
  <2>4. CASE PlannerStep
    <3> DEFINE plan == BuildRuntimePlan(Profile)
    <3>1. loop.pc = "planner"
      BY <2>4, Zenon DEF PlannerStep, At
    <3>2. CASE plan.error = NoError
      <4>1. /\ Emit(<<Event("step_started")>> \o StepSucceeded("planner"))
            /\ Checkpointed("planner") /\ SetStep("planner", "succeeded", "completed")
            /\ loop' = [loop EXCEPT !.pc = "check_run", !.target = "before_executor",
                                    !.actions = plan.actions]
        BY <2>4, <3>2, Zenon DEF PlannerStep, StepRuns
      <4>2. plan.actions \in Seq(RepositoryReaders)
        <5>1. runs # <<>>
          BY <1>1, <3>1, Zenon DEF LInv, SettledLabels
        <5>. QED BY <1>1, <3>2, <5>1, <1>CurrentProfile, <1>PlanReads, Zenon
      <4> HIDE DEF plan
      <4>3. /\ loop'.pc = "check_run" /\ loop'.target = "before_executor"
            /\ loop'.actions = plan.actions /\ loop'.counters = loop.counters
        BY <4>1 DEF LInv
      <4>. QED BY <1>1, <2>1, <3>1, <4>1, <4>2, <4>3, <1>StepRunsLemma, Zenon
    <3>3. CASE plan.error # NoError
      <4>1. /\ Emit(<<Event("step_started")>>) /\ SetStep("planner", "running", "none")
            /\ UNCHANGED checkpoints
            /\ Raise(plan.error)
        BY <2>4, <3>3, Zenon DEF PlannerStep, StepLeftRunning
      <4> HIDE DEF plan
      <4>2. /\ loop'.pc \in {"error", "abandoned"}
            /\ loop'.actions = loop.actions /\ loop'.counters = loop.counters
        BY <4>1 DEF Raise, LInv
      <4>. QED BY <1>1, <2>1, <3>1, <4>1, <4>2, <1>LeftRunningLemma, Zenon
    <3>. QED BY <3>2, <3>3, Zenon
  <2>. QED BY <1>1, <2>3, <2>4, Zenon
<1>. QED BY <1>1, Zenon

\* The executor's step is the only open one while the executor runs.
LEMMA ExecutorOpen ==
  ASSUME Laws, NEW st, StepsAre(st, "succeeded", "succeeded", "running", "absent")
  PROVE  Cardinality(Unfinished(st)) = 1
<1>1. "executor" \in Range(Kinds) /\ st["executor"].status = "running"
  BY KindsLemma, Zenon DEF StepsAre
<1>2. \A k \in Range(Kinds) : k # "executor" => st[k].status # "running"
  BY KindsLemma, Zenon DEF StepsAre
<1>. QED BY <1>1, <1>2, OneOpen, Zenon

\* The executor opens its step.
LEMMA ExecutorStartsLemma ==
  ASSUME Laws, LInv, TInv, LInv', ExecutorStarts
  PROVE  TInv'
<1> DEFINE st0 == steps[Gen]
           tr == events[Gen]
           cp == checkpoints[Gen]
           new == <<Event("step_started")>>
<1>1. /\ loop.pc = "executor" /\ Emit(new) /\ SetStep("executor", "running", "none")
      /\ loop' = [loop EXCEPT !.pc = NextAction(loop.actions), !.target = "invoke"]
      /\ UNCHANGED <<runs, profiles, checkpoints, caller, item, workAtCancel>>
  BY Zenon DEF ExecutorStarts, At, cancellation
<1>2. /\ loop'.pc = NextAction(loop.actions) /\ loop'.target = "invoke"
      /\ loop'.actions = loop.actions /\ loop'.counters = loop.counters
  BY <1>1, Zenon DEF LInv
<1>3. Within
  BY <1>1, Zenon DEF Within, SettledLabels
<1>4. /\ runs # <<>> /\ Gen \in Nat /\ tr \in Seq(Events) /\ cp \in Seq(Phases)
      /\ OnPath(loop.pc, Gen, Profile, st0, tr, cp)
      /\ Clean(tr) /\ Tally(tr, {"validator_executed"}) = 0
      /\ Gen - 1 <= Profile.limits.max_recompositions
      /\ loop.counters \in CounterRows /\ WithinLimits(loop.counters, Profile)
      /\ loop.actions \in Seq(RepositoryReaders)
  BY <1>1, PlaceLemma, Zenon DEF InExecutor
<1>5. "executor" \in Range(Kinds) /\ "none" \in Stops
  BY KindsLemma, Zenon DEF Stops
<1>6. PICK st \in [Range(Kinds) -> StepRows] :
           /\ steps' = [steps EXCEPT ![Gen] = st]
           /\ st["executor"].status = "running"
           /\ \A k \in Range(Kinds) : k # "executor" => st[k] = st0[k]
  BY <1>1, <1>4, <1>5, SetStepLemma, Zenon
<1>7. /\ events' = [events EXCEPT ![Gen] = tr \o new]
      /\ checkpoints' = [checkpoints EXCEPT ![Gen] = cp]
  BY <1>1, <1>4, SameLemma, Zenon DEF Emit
<1>8. Adds(new, 1, 0, 0, 0, 0, 0, 0) /\ Clean(new)
  BY StepTraces, Zenon
<1> HIDE DEF st0, tr, cp, new
<1>9. /\ StepsAre(st0, "succeeded", "succeeded", "absent", "absent")
      /\ StepsAre(st, "succeeded", "succeeded", "running", "absent")
  BY <1>1, <1>4, <1>6, KindsLemma, Zenon DEF OnPath, InExecutor, StepsAre
<1>10. Cardinality(Unfinished(st0)) = 0 /\ Cardinality(Unfinished(st)) = 1
  BY <1>9, NoneOpen, ExecutorOpen, Zenon
<1>11. Clean(tr \o new) /\ Tally(tr \o new, {"validator_executed"}) = 0
  <2>1. Tally(tr \o new, {"validator_executed"}) = Tally(tr, {"validator_executed"}) + 0
        /\ Clean(tr \o new)
    BY <1>4, <1>8, PathTrace
  <2>. QED BY <1>4, <2>1
<1>12. /\ Position(loop') = IF loop.actions = <<>> THEN "executed" ELSE "invoke"
       /\ loop'.pc \in {"executed", "check_run"}
  BY <1>2, Zenon DEF Position, NextAction
<1>13. OnPath(Position(loop'), Gen, Profile, st, tr \o new, cp)
  BY <1>4, <1>9, <1>11, <1>12, Zenon
     DEF OnPath, Path, Starting, InContext, InPlanner, InExecutor, InValidator, Executing
<1>14. Invoking(loop) = 0 /\ Invoking(loop') = 0
  BY <1>1, <1>12, Zenon DEF Invoking
<1>15. /\ loop'.pc \notin SettledLabels /\ loop'.pc \notin WorkLabels
       /\ loop'.pc \notin {"invoke", "invoked"}
       /\ Position(loop') \in {"invoke", "invoked"} => loop'.actions # <<>>
  BY <1>2, <1>12, Zenon DEF SettledLabels, WorkLabels
<1>16. Agrees(Gen, Profile, st0, tr, cp, loop, new, 1, 0, 0, 0, 0, 0, 0, st, cp, loop')
  <2>1. /\ loop.counters.tool_calls >= loop.counters.tool_calls + 0
        /\ loop.counters.data_reads >= loop.counters.data_reads + 0
        /\ Len(cp) = Len(cp) + 0
    BY <1>4 DEF CounterRows
  <2>. QED BY <1>2, <1>4, <1>8, <1>10, <1>13, <1>14, <1>15, <2>1 DEF Agrees
<1>17. /\ 1 + 0 <= 1 /\ (1 + 0 > 0 => loop.pc \in WorkLabels)
       /\ loop'.pc \in WorkLabels => item # "cancelled"
       /\ loop'.actions \in Seq(RepositoryReaders)
       /\ UNCHANGED <<item, workAtCancel>>
  BY <1>1, <1>2, <1>4, <1>15, SMTT(40) DEF WorkLabels
<1>18. Agrees(Gen, Profile, steps[Gen], events[Gen], checkpoints[Gen], loop,
              new, 1, 0, 0, 0, 0, 0, 0, st, cp, loop')
  BY <1>16, Zenon DEF st0, tr, cp
<1>19. events' = [events EXCEPT ![Gen] = events[Gen] \o new]
  BY <1>7, Zenon DEF tr
<1>. QED BY <1>3, <1>4, <1>6, <1>7, <1>17, <1>18, <1>19, MoveLemma, Zenon

-----------------------------------------------------------------------------
(* The steps from the executor on keep the invariant of the trace.         *)

\* A tool is called, and answers.
LEMMA ToolSteps ==
  Laws /\ LInv /\ TInv /\ LInv' /\ (InvokeTool \/ ToolReturns) => TInv'
  \* An invocation fails with a known error.
<1>AccessLemma. ASSUME Laws, NEW p, NEW counters, NEW tool, NEW over
                PROVE  OKError(RecordToolInvocation(p, counters, tool, over).error)
    BY <1>AccessLemma, Zenon DEF Laws
  \* Counters only grow, stay within the limits, and a read the enforcer lets through is
  \* counted by both.
<1>CountersLemma. ASSUME NEW p, p.limits \in Limits, NEW c \in CounterRows, WithinLimits(c, p), NEW tool, NEW over
                  PROVE  LET access == RecordToolInvocation(p, c, tool, over)
                             d == access.counters
                         IN  /\ d \in CounterRows
                             /\ WithinLimits(d, p)
                             /\ d.recompositions = c.recompositions
                             /\ d.tool_calls >= c.tool_calls /\ d.data_reads >= c.data_reads
                             /\ access.error = NoError /\ tool \in RepositoryReaders =>
                                  d.tool_calls = c.tool_calls + 1 /\ d.data_reads = c.data_reads + 1
  <2> DEFINE call == IncrementLimit(p, c, "tool_calls", "max_tool_calls")
             d1 == [c EXCEPT !.tool_calls = @ + 1]
             d2 == [d1 EXCEPT !.data_reads = @ + 1]
  <2>1. /\ LimitExceeded("max_tool_calls") # NoError
        /\ LimitExceeded("max_data_reads") # NoError
        /\ Denied("data_scope_not_in_runtime_profile") # NoError
    BY Zenon DEF LimitExceeded, Denied, NoError
  <2>2. /\ d1 \in CounterRows /\ d1.tool_calls = c.tool_calls + 1
        /\ d1.data_reads = c.data_reads /\ d1.recompositions = c.recompositions
        /\ d2 \in CounterRows /\ d2.tool_calls = c.tool_calls + 1
        /\ d2.data_reads = c.data_reads + 1 /\ d2.recompositions = c.recompositions
    <3>1. /\ d1 \in CounterRows /\ d1.tool_calls = c.tool_calls + 1
          /\ d1.data_reads = c.data_reads /\ d1.recompositions = c.recompositions
      BY DEF CounterRows
    <3> HIDE DEF d1
    <3>2. /\ d2 \in CounterRows /\ d2.tool_calls = d1.tool_calls
          /\ d2.data_reads = d1.data_reads + 1 /\ d2.recompositions = d1.recompositions
      BY <3>1 DEF CounterRows
    <3>. QED BY <3>1, <3>2, Zenon
  <2>3. \/ call = [error |-> LimitExceeded("max_tool_calls"), counters |-> c]
        \/ /\ c.tool_calls + 1 <= p.limits.max_tool_calls
           /\ call = [error |-> NoError, counters |-> d1]
    BY <1>CountersLemma DEF IncrementLimit, CounterRows, Limits
  <2>4. \/ IncrementLimit(p, d1, "data_reads", "max_data_reads")
             = [error |-> LimitExceeded("max_data_reads"), counters |-> d1]
        \/ /\ c.data_reads + 1 <= p.limits.max_data_reads
           /\ IncrementLimit(p, d1, "data_reads", "max_data_reads")
                = [error |-> NoError, counters |-> d2]
    <3> HIDE DEF d1
    <3>. QED BY <1>CountersLemma, <2>2 DEF IncrementLimit, CounterRows, Limits
  <2> HIDE DEF d1, d2
  <2>5. tool \in RepositoryReaders => ToolRequiredDataScopes(tool) # {}
    BY Zenon DEF ToolRequiredDataScopes
  <2> DEFINE read == CountDataRead(p, d1, tool)
  <2>6. \/ read = [error |-> NoError, counters |-> d1] /\ tool \notin RepositoryReaders
        \/ read.error # NoError /\ read.counters = d1
        \/ /\ c.data_reads + 1 <= p.limits.max_data_reads
           /\ read = [error |-> NoError, counters |-> d2]
    BY <2>1, <2>4, <2>5 DEF CountDataRead
  <2> DEFINE access == RecordToolInvocation(p, c, tool, over)
  <2>7. \/ access.error # NoError /\ access.counters = c
        \/ /\ c.tool_calls + 1 <= p.limits.max_tool_calls
           /\ access = read
    <3>1. CASE ToolAccess(p, tool, over) # NoError
      BY <3>1, Zenon DEF RecordToolInvocation
    <3>2. CASE ToolAccess(p, tool, over) = NoError
      BY <2>1, <2>3, <3>2 DEF RecordToolInvocation
    <3>. QED BY <3>1, <3>2, Zenon
  <2> HIDE DEF access, read
  <2>8. \/ access.error # NoError /\ access.counters = c
        \/ /\ c.tool_calls + 1 <= p.limits.max_tool_calls
           /\ \/ access.counters = d1 /\ (access.error # NoError \/ tool \notin RepositoryReaders)
              \/ c.data_reads + 1 <= p.limits.max_data_reads /\ access.counters = d2
    BY <2>6, <2>7
  <2>9. access = RecordToolInvocation(p, c, tool, over)
    BY Zenon DEF access
  <2>10. /\ access.counters \in CounterRows
         /\ WithinLimits(access.counters, p)
         /\ access.counters.recompositions = c.recompositions
         /\ access.counters.tool_calls >= c.tool_calls
         /\ access.counters.data_reads >= c.data_reads
         /\ access.error = NoError /\ tool \in RepositoryReaders =>
              /\ access.counters.tool_calls = c.tool_calls + 1
              /\ access.counters.data_reads = c.data_reads + 1
    BY <1>CountersLemma, <2>2, <2>8 DEF WithinLimits, CounterRows, Limits
  <2>. QED BY <2>9, <2>10, Zenon
  \* An invocation: access and start, then completion and hook.
<1>ToolTraces. ASSUME Laws
               PROVE
               /\ Adds(<<Event("access_attempted"), Event("tool_invocation_started")>>,
                       0, 0, 1, 0, 0, 0, 0)
               /\ Clean(<<Event("access_attempted"), Event("tool_invocation_started")>>)
               /\ \A status, hook : Adds(ToolEvents(status, hook), 0, 0, 0, 1, 1, 0, 0)
               /\ Clean(ToolEvents("succeeded", "passed"))
  <2> DEFINE a == StopEvent("access_attempted", "none")
             b == StopEvent("tool_invocation_started", "none")
  <2>1. "none" \in Stops /\ "tool_error" \in Stops /\ "policy_denied" \in Stops
    BY Zenon DEF Stops, StopReasons
  <2>2. /\ Adds(<<Event("access_attempted"), Event("tool_invocation_started")>>,
                0, 0, 1, 0, 0, 0, 0)
        /\ Clean(<<Event("access_attempted"), Event("tool_invocation_started")>>)
    <3>1. /\ Adds(<<a>>, 0, 0, 0, 0, 0, 0, 0) /\ Clean(<<a>>)
          /\ Adds(<<b>>, 0, 0, 1, 0, 0, 0, 0) /\ Clean(<<b>>)
      <4>1. Adds(<<a>>, 0, 0, 0, 0, 0, 0, 0) /\ Adds(<<b>>, 0, 0, 1, 0, 0, 0, 0)
        BY <1>ToolTraces, <2>1, OneEvent, Zenon
      <4>2. Clean(<<a>>) /\ Clean(<<b>>)
        BY CleanOne, Zenon
      <4>. QED BY <4>1, <4>2, Zenon
    <3>2. Event("access_attempted") = a /\ Event("tool_invocation_started") = b
      BY Zenon DEF Event, StopEvent
    <3> HIDE DEF a, b
    <3>3. <<a, b>> = <<a>> \o <<b>> /\ <<a>> \in Seq(Events) /\ <<b>> \in Seq(Events)
      BY <3>1, PairLemma, Zenon DEF Adds
    <3>4. Adds(<<a>> \o <<b>>, 0 + 0, 0 + 0, 0 + 1, 0 + 0, 0 + 0, 0 + 0, 0 + 0)
      BY <1>ToolTraces, <3>1, AddsBoth, Zenon
    <3>5. Adds(<<a>> \o <<b>>, 0, 0, 1, 0, 0, 0, 0)
      BY <3>4 DEF Adds
    <3>6. Clean(<<a>> \o <<b>>)
      BY <3>1, <3>3, CleanConcat, Zenon
    <3>. QED BY <3>2, <3>3, <3>5, <3>6, Zenon
  <2>3. ASSUME NEW status, NEW hook
        PROVE  /\ Adds(ToolEvents(status, hook), 0, 0, 0, 1, 1, 0, 0)
               /\ status = "succeeded" /\ hook = "passed" => Clean(ToolEvents(status, hook))
    <3> DEFINE s1 == IF status = "failed" THEN "tool_error" ELSE "none"
               s2 == IF hook = "failed" THEN "policy_denied" ELSE "none"
               c == StopEvent("tool_invocation_completed", s1)
               d == StopEvent("runtime_after_tool_hook_evaluated", s2)
    <3>1. s1 \in Stops /\ s2 \in Stops
      BY <2>1, Zenon
    <3>2. status = "succeeded" /\ hook = "passed" => s1 = "none" /\ s2 = "none"
      BY Zenon
    <3> HIDE DEF s1, s2
    <3>3. /\ Adds(<<c>>, 0, 0, 0, 1, 0, 0, 0) /\ (s1 = "none" => Clean(<<c>>))
          /\ Adds(<<d>>, 0, 0, 0, 0, 1, 0, 0) /\ (s2 = "none" => Clean(<<d>>))
      <4>1. Adds(<<c>>, 0, 0, 0, 1, 0, 0, 0) /\ Adds(<<d>>, 0, 0, 0, 0, 1, 0, 0)
        BY <1>ToolTraces, <3>1, OneEvent, Zenon
      <4>2. (s1 = "none" => Clean(<<c>>)) /\ (s2 = "none" => Clean(<<d>>))
        BY CleanOne, ZenonT(30)
      <4>. QED BY <4>1, <4>2, Zenon
    <3>4. ToolEvents(status, hook) = <<c, d>>
      BY Zenon DEF ToolEvents, s1, s2
    <3> HIDE DEF c, d
    <3>5. <<c, d>> = <<c>> \o <<d>> /\ <<c>> \in Seq(Events) /\ <<d>> \in Seq(Events)
      BY <3>3, PairLemma, Zenon DEF Adds
    <3>6. Adds(<<c>> \o <<d>>, 0 + 0, 0 + 0, 0 + 0, 1 + 0, 0 + 1, 0 + 0, 0 + 0)
      BY <1>ToolTraces, <3>3, AddsBoth, ZenonT(30)
    <3>7. s1 = "none" /\ s2 = "none" => Clean(<<c>> \o <<d>>)
      BY <3>3, <3>5, CleanConcat, Zenon
    <3>8. Adds(<<c>> \o <<d>>, 0, 0, 0, 1, 1, 0, 0)
      BY <3>6 DEF Adds
    <3>. QED BY <3>2, <3>4, <3>5, <3>7, <3>8, Zenon
  <2>. QED BY <2>2, <2>3, Zenon
  \* The executor's step is completed with the reason of a tool error.
<1>FailTraces. ASSUME Laws, NEW extra, NEW returned \in Nat, NEW hooked \in Nat,
                      Adds(extra, 0, 0, 0, returned, hooked, 0, 0), NEW stop \in Stops
               PROVE  Adds(extra \o <<StopEvent("step_completed", stop)>>, 0, 1, 0, returned, hooked, 0, 0)
  <2> DEFINE c == StopEvent("step_completed", stop)
  <2>1. Adds(<<c>>, 0, 1, 0, 0, 0, 0, 0)
    BY <1>FailTraces, OneEvent, Zenon
  <2> HIDE DEF c
  <2>2. Adds(extra \o <<c>>, 0 + 0, 0 + 1, 0 + 0, returned + 0, hooked + 0, 0 + 0, 0 + 0)
    BY <1>FailTraces, <2>1, AddsBoth, Zenon
  <2>. QED BY <2>2 DEF c
  \* The executor's step is completed with a failure.
<1>ExecutorFailsTrace. ASSUME Laws, LInv, TInv, LInv', Within, UNCHANGED <<item, workAtCancel, checkpoints>>,
                              loop.pc \in {"invoke", "invoked"},
                              NEW extra, NEW error, NEW counters, ExecutorFails(extra, error, counters),
                              Adds(extra, 0, 0, 0, Invoking(loop), Invoking(loop), 0, 0), error.stop \in Stops,
                              counters \in CounterRows, WithinLimits(counters, Profile),
                              counters.recompositions = loop.counters.recompositions,
                              counters.tool_calls >= loop.counters.tool_calls,
                              counters.data_reads >= loop.counters.data_reads
                       PROVE  TInv'
  <2> DEFINE st0 == steps[Gen]
             tr == events[Gen]
             cp == checkpoints[Gen]
             new == extra \o <<StopEvent("step_completed", error.stop)>>
             r == Invoking(loop)
  <2>1. /\ Emit(new) /\ SetStep("executor", "failed", error.stop)
        /\ loop' = [loop EXCEPT !.pc = "error", !.error = error, !.counters = counters]
    BY <1>ExecutorFailsTrace, Zenon DEF ExecutorFails
  <2>2. loop'.pc = "error" /\ loop'.actions = loop.actions /\ loop'.counters = counters
    BY <2>1 DEF LInv
  <2>3. r \in Nat
    BY Zenon DEF Invoking
  <2>4. /\ runs # <<>> /\ Gen \in Nat /\ tr \in Seq(Events) /\ cp \in Seq(Phases)
        /\ OnPath(loop.pc, Gen, Profile, st0, tr, cp)
        /\ loop.actions \in Seq(RepositoryReaders) /\ loop.counters \in CounterRows
    BY <1>ExecutorFailsTrace, PlaceLemma, Zenon DEF Executing
  <2>5. "executor" \in Range(Kinds)
    BY KindsLemma, Zenon
  <2>6. PICK st \in [Range(Kinds) -> StepRows] :
             /\ steps' = [steps EXCEPT ![Gen] = st]
             /\ st["executor"].status = "failed"
             /\ \A k \in Range(Kinds) : k # "executor" => st[k] = st0[k]
    BY <1>ExecutorFailsTrace, <2>1, <2>4, <2>5, SetStepLemma, Zenon
  <2>7. /\ events' = [events EXCEPT ![Gen] = tr \o new]
        /\ checkpoints' = [checkpoints EXCEPT ![Gen] = cp]
    BY <1>ExecutorFailsTrace, <2>1, <2>4, SameLemma, Zenon DEF Emit
  <2>8. Adds(new, 0, 1, 0, r, r, 0, 0)
    BY <1>ExecutorFailsTrace, <2>3, <1>FailTraces, Zenon
  <2> HIDE DEF st0, tr, cp, new
  <2>9. /\ StepsAre(st0, "succeeded", "succeeded", "running", "absent")
        /\ StepsAre(st, "succeeded", "succeeded", "failed", "absent")
    BY <1>ExecutorFailsTrace, <2>4, <2>6, KindsLemma, Zenon DEF OnPath, Executing, StepsAre
  <2>10. Cardinality(Unfinished(st0)) = 1 /\ Cardinality(Unfinished(st)) = 0
    BY <1>ExecutorFailsTrace, <2>9, NoneOpen, ExecutorOpen, Zenon
  <2>11. /\ Position(loop') = "error" /\ "error" \notin Path /\ "error" \notin SettledLabels
         /\ "error" \notin WorkLabels
    BY <2>2, Zenon DEF Position, Path, SettledLabels, WorkLabels, Starting, InContext, InPlanner,
                InExecutor, InValidator, Executing
  <2>12. OnPath(Position(loop'), Gen, Profile, st, tr \o new, cp)
    BY <2>11, OffPath, Zenon
  <2>13. Invoking(loop') = 0
    BY <2>2, Zenon DEF Invoking
  <2>14. /\ counters.tool_calls >= loop.counters.tool_calls + 0
         /\ counters.data_reads >= loop.counters.data_reads + 0
         /\ Len(cp) = Len(cp) + 0
    BY <1>ExecutorFailsTrace, <2>4 DEF CounterRows
  <2> HIDE DEF r
  <2>15. r + 0 = 0 + r
    BY <2>3, SMTT(40)
  <2>16. Agrees(Gen, Profile, st0, tr, cp, loop, new, 0, 1, 0, r, r, 0, 0, st, cp, loop')
    <3>1. Invoking(loop) + 0 = Invoking(loop') + r
      BY <2>13, <2>15, Zenon DEF r
    <3>. QED BY <1>ExecutorFailsTrace, <2>2, <2>3, <2>4, <2>8, <2>10, <2>11, <2>12, <2>14, <3>1, SMTT(60) DEF Agrees
  <2>17. /\ 0 + 0 <= 1 /\ (0 + 0 > 0 => loop.pc \in WorkLabels)
         /\ loop'.pc \in WorkLabels => item # "cancelled"
         /\ loop'.actions \in Seq(RepositoryReaders)
         /\ UNCHANGED <<item, workAtCancel>>
    BY <1>ExecutorFailsTrace, <2>2, <2>4, <2>11, SMTT(40)
  <2>18. Agrees(Gen, Profile, steps[Gen], events[Gen], checkpoints[Gen], loop,
                new, 0, 1, 0, r, r, 0, 0, st, cp, loop')
    BY <2>16, Zenon DEF st0, tr, cp
  <2>19. events' = [events EXCEPT ![Gen] = events[Gen] \o new]
    BY <2>7, Zenon DEF tr
  <2>. QED BY <1>ExecutorFailsTrace, <2>4, <2>6, <2>7, <2>17, <2>18, <2>19, MoveLemma, Zenon
  \* The executor goes on: events are written and no step row.
<1>ExecutorGoesOn. ASSUME Laws, LInv, TInv, LInv', Within, UNCHANGED <<item, workAtCancel, checkpoints, steps>>,
                          loop.pc \in {"invoke", "invoked"}, NEW new, NEW c \in {0, 1}, NEW d \in {0, 1},
                          Emit(new), Clean(new), Adds(new, 0, 0, c, d, d, 0, 0),
                          Invoking(loop) + c = Invoking(loop') + d, c = 1 => loop.pc = "invoke",
                          Position(loop') \in Executing, loop'.pc \notin WorkLabels \cup SettledLabels,
                          loop'.actions \in Seq(RepositoryReaders),
                          Position(loop') \in {"invoke", "invoked"} => loop'.actions # <<>>,
                          loop'.pc = "invoked" => loop'.target = "invoke",
                          loop'.counters \in CounterRows, WithinLimits(loop'.counters, Profile),
                          loop'.counters.recompositions = loop.counters.recompositions,
                          loop'.counters.tool_calls = loop.counters.tool_calls + c,
                          loop'.counters.data_reads = loop.counters.data_reads + c
                   PROVE  TInv'
  <2> DEFINE st == steps[Gen]
             tr == events[Gen]
             cp == checkpoints[Gen]
  <2>1. /\ runs # <<>> /\ Gen \in Nat /\ tr \in Seq(Events) /\ cp \in Seq(Phases)
        /\ st \in [Range(Kinds) -> StepRows]
        /\ OnPath(loop.pc, Gen, Profile, st, tr, cp)
        /\ Clean(tr) /\ Tally(tr, {"validator_executed"}) = 0
        /\ Gen - 1 <= Profile.limits.max_recompositions
        /\ loop.counters \in CounterRows
    BY <1>ExecutorGoesOn, PlaceLemma, Zenon DEF Executing
  <2>2. /\ events' = [events EXCEPT ![Gen] = tr \o new]
        /\ checkpoints' = [checkpoints EXCEPT ![Gen] = cp]
        /\ steps' = [steps EXCEPT ![Gen] = st]
    BY <1>ExecutorGoesOn, <2>1, SameLemma, Zenon DEF Emit
  <2> HIDE DEF st, tr, cp
  <2>3. StepsAre(st, "succeeded", "succeeded", "running", "absent")
    BY <1>ExecutorGoesOn, <2>1, Zenon DEF OnPath, Executing
  <2>4. Cardinality(Unfinished(st)) = 1
    BY <1>ExecutorGoesOn, <2>3, ExecutorOpen, Zenon
  <2>5. Clean(tr \o new) /\ Tally(tr \o new, {"validator_executed"}) = 0
    <3>1. Tally(tr \o new, {"validator_executed"}) = Tally(tr, {"validator_executed"}) + 0
          /\ Clean(tr \o new)
      BY <1>ExecutorGoesOn, <2>1, PathTrace, SMTT(40)
    <3>. QED BY <2>1, <3>1, SMTT(40)
  <2>6. OnPath(Position(loop'), Gen, Profile, st, tr \o new, cp)
    BY <1>ExecutorGoesOn, <2>1, <2>3, <2>5, ZenonT(30)
       DEF OnPath, Path, Starting, InContext, InPlanner, InExecutor, InValidator, Executing
  <2>7. Agrees(Gen, Profile, st, tr, cp, loop, new, 0, 0, c, d, d, 0, 0, st, cp, loop')
    <3>1. /\ loop'.counters.tool_calls >= loop.counters.tool_calls + c
          /\ loop'.counters.data_reads >= loop.counters.data_reads + c
          /\ Len(cp) = Len(cp) + 0 /\ c \in Nat /\ d \in Nat
      BY <1>ExecutorGoesOn, <2>1, SMTT(60) DEF CounterRows
    <3>2. loop'.pc \in {"invoke", "invoked"} => loop'.target = "invoke"
      BY <1>ExecutorGoesOn, Zenon DEF WorkLabels
    <3>. QED BY <1>ExecutorGoesOn, <2>1, <2>4, <2>6, <3>1, <3>2, SMTT(60) DEF Agrees
  <2>8. /\ 0 + c <= 1 /\ (0 + c > 0 => loop.pc \in WorkLabels)
        /\ loop'.pc \in WorkLabels => item # "cancelled"
        /\ UNCHANGED <<item, workAtCancel>>
    BY <1>ExecutorGoesOn DEF WorkLabels
  <2>9. Agrees(Gen, Profile, steps[Gen], events[Gen], checkpoints[Gen], loop,
               new, 0, 0, c, d, d, 0, 0, st, cp, loop')
    BY <2>7, ZenonT(30) DEF st, tr, cp
  <2>10. events' = [events EXCEPT ![Gen] = events[Gen] \o new]
    BY <2>2, Zenon DEF tr
  <2>. QED BY <1>ExecutorGoesOn, <2>1, <2>2, <2>8, <2>9, <2>10, MoveLemma, Zenon
  \* A tool call: refused, without an adapter, or begun.
<1>InvokeToolTrace. ASSUME Laws, LInv, TInv, LInv', InvokeTool
                    PROVE  TInv'
  <2> DEFINE tool == Head(loop.actions)
             access == RecordToolInvocation(Profile, loop.counters, tool, late)
             missing == [stop |-> "tool_error", code |-> "tool_adapter_missing"]
  <2>1. /\ loop.pc = "invoke" /\ Within
        /\ UNCHANGED <<item, workAtCancel, checkpoints>>
    BY <1>InvokeToolTrace, Zenon DEF InvokeTool, At, cancellation, Within, SettledLabels
  <2>2. /\ runs # <<>> /\ Profile.limits \in Limits
        /\ loop.counters \in CounterRows /\ WithinLimits(loop.counters, Profile)
        /\ loop.actions \in Seq(RepositoryReaders) /\ loop.actions # <<>>
        /\ loop.target = "invoke"
    BY <1>InvokeToolTrace, <2>1, PlaceLemma, Zenon DEF Executing
  <2>3. tool \in RepositoryReaders
    BY <2>2
  <2>4. OKError(access.error)
    BY <1>InvokeToolTrace, <1>AccessLemma, Zenon
  <2>5. /\ access.counters \in CounterRows
        /\ WithinLimits(access.counters, Profile)
        /\ access.counters.recompositions = loop.counters.recompositions
        /\ access.counters.tool_calls >= loop.counters.tool_calls
        /\ access.counters.data_reads >= loop.counters.data_reads
        /\ access.error = NoError /\ tool \in RepositoryReaders =>
             /\ access.counters.tool_calls = loop.counters.tool_calls + 1
             /\ access.counters.data_reads = loop.counters.data_reads + 1
    BY <2>2, <1>CountersLemma
  <2>6. \/ /\ access.error # NoError
           /\ ExecutorFails(<<StopEvent("access_attempted", access.error.stop)>>,
                            access.error, access.counters)
        \/ ExecutorFails(<<>>, missing, access.counters)
        \/ /\ access.error = NoError
           /\ Emit(<<Event("access_attempted"), Event("tool_invocation_started")>>)
           /\ loop' = [loop EXCEPT !.pc = "invoked", !.counters = access.counters]
           /\ UNCHANGED steps
    BY <1>InvokeToolTrace, Zenon DEF InvokeTool
  <2>7. Invoking(loop) = 0
    BY <2>1, Zenon DEF Invoking
  <2> HIDE DEF access, tool
  <2>8. CASE /\ access.error # NoError
             /\ ExecutorFails(<<StopEvent("access_attempted", access.error.stop)>>,
                              access.error, access.counters)
    <3>1. access.error.stop \in Stops
      BY <2>4, <2>8, Zenon DEF OKError, Stops
    <3>2. Adds(<<StopEvent("access_attempted", access.error.stop)>>, 0, 0, 0, 0, 0, 0, 0)
      BY <1>InvokeToolTrace, <3>1, OneEvent, ZenonT(30)
    <3>3. Adds(<<StopEvent("access_attempted", access.error.stop)>>, 0, 0, 0,
               Invoking(loop), Invoking(loop), 0, 0)
      BY <2>7, <3>2, Zenon
    <3>. QED BY <1>InvokeToolTrace, <2>1, <2>5, <2>8, <3>1, <3>3, <1>ExecutorFailsTrace, Zenon
  <2>9. CASE ExecutorFails(<<>>, missing, access.counters)
    <3>1. missing.stop \in Stops
      BY Zenon DEF Stops, StopReasons
    <3>2. Adds(<<>>, 0, 0, 0, Invoking(loop), Invoking(loop), 0, 0)
      BY <1>InvokeToolTrace, <2>7, AddsNone, Zenon
    <3> HIDE DEF missing
    <3>. QED BY <1>InvokeToolTrace, <2>1, <2>5, <2>9, <3>1, <3>2, <1>ExecutorFailsTrace, Zenon
  <2>10. CASE /\ access.error = NoError
              /\ Emit(<<Event("access_attempted"), Event("tool_invocation_started")>>)
              /\ loop' = [loop EXCEPT !.pc = "invoked", !.counters = access.counters]
              /\ UNCHANGED steps
    <3> DEFINE new == <<Event("access_attempted"), Event("tool_invocation_started")>>
    <3>1. Adds(new, 0, 0, 1, 0, 0, 0, 0) /\ Clean(new) /\ Emit(new)
      BY <1>InvokeToolTrace, <2>10, <1>ToolTraces, Zenon
    <3> HIDE DEF new
    <3>2. /\ loop'.pc = "invoked" /\ loop'.target = "invoke" /\ loop'.actions = loop.actions
          /\ loop'.counters = access.counters
      BY <2>2, <2>10 DEF LInv
    <3>3. /\ Invoking(loop) + 1 = Invoking(loop') + 0 /\ Position(loop') = "invoked"
          /\ "invoked" \in Executing /\ loop'.pc \notin WorkLabels \cup SettledLabels
      BY <2>7, <3>2 DEF Invoking, Position, Executing, WorkLabels, SettledLabels
    <3>4. /\ loop'.counters.tool_calls = loop.counters.tool_calls + 1
          /\ loop'.counters.data_reads = loop.counters.data_reads + 1
      BY <2>3, <2>5, <2>10, <3>2, Zenon
    <3>5. /\ UNCHANGED <<item, workAtCancel, checkpoints, steps>>
          /\ loop'.actions \in Seq(RepositoryReaders) /\ loop'.actions # <<>>
          /\ loop'.counters \in CounterRows /\ WithinLimits(loop'.counters, Profile)
          /\ loop'.counters.recompositions = loop.counters.recompositions
      BY <2>1, <2>2, <2>5, <2>10, <3>2, Zenon
    <3>. QED BY <1>InvokeToolTrace, <2>1, <3>1, <3>2, <3>3, <3>4, <3>5, <1>ExecutorGoesOn, Zenon
  <2>. QED BY <2>6, <2>8, <2>9, <2>10, Zenon
  \* A tool call that returns, with the verdict of the after-tool hook.
<1>ToolReturnsTrace. ASSUME Laws, LInv, TInv, LInv', ToolReturns
                     PROVE  TInv'
  <2>1. /\ loop.pc = "invoked" /\ Within
        /\ UNCHANGED <<item, workAtCancel, checkpoints>>
    BY <1>ToolReturnsTrace, Zenon DEF ToolReturns, At, cancellation, Within, SettledLabels
  <2>2. /\ runs # <<>> /\ loop.counters \in CounterRows /\ WithinLimits(loop.counters, Profile)
        /\ loop.actions \in Seq(RepositoryReaders) /\ loop.actions # <<>>
        /\ loop.target = "invoke"
    BY <1>ToolReturnsTrace, <2>1, PlaceLemma, Zenon DEF Executing
  <2>3. Invoking(loop) = 1
    BY <2>1, Zenon DEF Invoking
  <2>4. PICK status \in {"succeeded", "failed"}, hook \in {"passed", "failed"} :
          \/ \E error : /\ error.stop \in Stops
                        /\ ExecutorFails(ToolEvents(status, hook), error, loop.counters)
          \/ /\ status = "succeeded" /\ hook = "passed"
             /\ Emit(ToolEvents(status, hook))
             /\ loop' = [loop EXCEPT !.pc = NextAction(Tail(loop.actions)),
                                     !.actions = Tail(@), !.results = @ + 1]
             /\ UNCHANGED steps
    <3> DEFINE hooked == Denied("runtime_after_tool_hook_failed")
               raised == [stop |-> "tool_error", code |-> "tool_execution_failed"]
               error(status, hook) == CASE hook = "failed" -> hooked
                                        [] status = "failed" -> raised
                                        [] OTHER -> NoError
    <3>1. hooked.stop \in Stops /\ raised.stop \in Stops
      BY Zenon DEF Stops, StopReasons, Denied
    <3>2. hooked # NoError /\ raised # NoError
      BY Zenon DEF Denied, NoError
    <3>3. PICK status \in {"succeeded", "failed"}, hook \in {"passed", "failed"} :
            IF error(status, hook) # NoError
            THEN ExecutorFails(ToolEvents(status, hook), error(status, hook), loop.counters)
            ELSE /\ Emit(ToolEvents(status, hook))
                 /\ loop' = [loop EXCEPT !.pc = NextAction(Tail(loop.actions)),
                                         !.actions = Tail(@), !.results = @ + 1]
                 /\ UNCHANGED steps
      BY <1>ToolReturnsTrace, Zenon DEF ToolReturns
    <3> HIDE DEF hooked, raised
    <3>4. CASE error(status, hook) # NoError
      <4>1. error(status, hook) \in {hooked, raised}
        BY <3>4, Zenon
      <4>. QED BY <3>1, <3>3, <3>4, <4>1, Zenon
    <3>5. CASE error(status, hook) = NoError
      <4>1. status = "succeeded" /\ hook = "passed"
        BY <3>2, <3>5, Zenon
      <4>. QED BY <3>3, <3>5, <4>1, Zenon
    <3>. QED BY <3>4, <3>5, Zenon
  <2>5. CASE \E error : /\ error.stop \in Stops
                        /\ ExecutorFails(ToolEvents(status, hook), error, loop.counters)
    <3>1. PICK error : /\ error.stop \in Stops
                       /\ ExecutorFails(ToolEvents(status, hook), error, loop.counters)
      BY <2>5, Zenon
    <3>2. Adds(ToolEvents(status, hook), 0, 0, 0, 1, 1, 0, 0)
      BY <1>ToolReturnsTrace, <1>ToolTraces, Zenon
    <3>3. Adds(ToolEvents(status, hook), 0, 0, 0, Invoking(loop), Invoking(loop), 0, 0)
      BY <2>3, <3>2, Zenon
    <3>4. /\ loop.counters.tool_calls >= loop.counters.tool_calls
          /\ loop.counters.data_reads >= loop.counters.data_reads
      BY <2>2, SMTT(40) DEF CounterRows
    <3>. QED BY <1>ToolReturnsTrace, <2>1, <2>2, <3>1, <3>3, <3>4, <1>ExecutorFailsTrace, Zenon
  <2>6. CASE /\ status = "succeeded" /\ hook = "passed"
             /\ Emit(ToolEvents(status, hook))
             /\ loop' = [loop EXCEPT !.pc = NextAction(Tail(loop.actions)),
                                     !.actions = Tail(@), !.results = @ + 1]
             /\ UNCHANGED steps
    <3> DEFINE new == ToolEvents(status, hook)
               rest == Tail(loop.actions)
    <3>1. Adds(new, 0, 0, 0, 1, 1, 0, 0) /\ Clean(new) /\ Emit(new)
      BY <1>ToolReturnsTrace, <2>6, <1>ToolTraces, Zenon
    <3> HIDE DEF new
    <3>2. rest \in Seq(RepositoryReaders)
      BY <2>2
    <3>3. /\ loop'.pc = NextAction(rest) /\ loop'.target = "invoke" /\ loop'.actions = rest
          /\ loop'.counters = loop.counters
      BY <2>2, <2>6 DEF LInv
    <3> HIDE DEF rest
    <3>4. /\ loop'.pc \in {"executed", "check_run"}
          /\ Position(loop') = IF rest = <<>> THEN "executed" ELSE "invoke"
      BY <3>3, Zenon DEF Position, NextAction
    <3>5. /\ Invoking(loop) + 0 = Invoking(loop') + 1 /\ Position(loop') \in Executing
          /\ loop'.pc \notin WorkLabels \cup SettledLabels
          /\ Position(loop') \in {"invoke", "invoked"} => loop'.actions # <<>>
      BY <2>3, <3>3, <3>4 DEF Invoking, Executing, WorkLabels, SettledLabels
    <3>6. /\ UNCHANGED <<item, workAtCancel, checkpoints, steps>>
          /\ loop'.actions \in Seq(RepositoryReaders)
          /\ loop'.counters \in CounterRows /\ WithinLimits(loop'.counters, Profile)
          /\ loop'.counters.recompositions = loop.counters.recompositions
          /\ loop'.counters.tool_calls = loop.counters.tool_calls + 0
          /\ loop'.counters.data_reads = loop.counters.data_reads + 0
      BY <2>1, <2>2, <2>6, <3>2, <3>3 DEF CounterRows
    <3>. QED BY <1>ToolReturnsTrace, <2>1, <3>1, <3>3, <3>4, <3>5, <3>6, <1>ExecutorGoesOn
  <2>. QED BY <2>4, <2>5, <2>6, Zenon
<1>. QED BY <1>InvokeToolTrace, <1>ToolReturnsTrace, Zenon

\* The executor completes its step.
LEMMA ExecutorSucceedsTrace ==
  ASSUME Laws, LInv, TInv, LInv', ExecutorSucceeds
  PROVE  TInv'
<1> DEFINE st0 == steps[Gen]
           tr == events[Gen]
           cp == checkpoints[Gen]
           cp2 == Append(checkpoints[Gen], "executor")
           new == StepSucceeded("executor")
<1>1. /\ loop.pc = "executed" /\ Within /\ UNCHANGED <<item, workAtCancel>>
      /\ Emit(new) /\ Checkpointed("executor") /\ SetStep("executor", "succeeded", "completed")
  BY Zenon DEF ExecutorSucceeds, At, cancellation, Within, SettledLabels
<1>2. /\ loop'.pc = "check_run" /\ loop'.target = "before_validator"
      /\ loop'.actions = loop.actions /\ loop'.counters = loop.counters
  BY Zenon DEF ExecutorSucceeds, CheckThen, LInv
<1>3. /\ runs # <<>> /\ Gen \in Nat /\ tr \in Seq(Events) /\ cp \in Seq(Phases)
      /\ OnPath(loop.pc, Gen, Profile, st0, tr, cp)
      /\ Clean(tr) /\ Tally(tr, {"validator_executed"}) = 0
      /\ Gen - 1 <= Profile.limits.max_recompositions
      /\ loop.counters \in CounterRows /\ WithinLimits(loop.counters, Profile)
      /\ loop.actions \in Seq(RepositoryReaders)
  BY <1>1, PlaceLemma, Zenon DEF Executing
<1>4. "executor" \in Range(Kinds) /\ "completed" \in Stops /\ "executor" \in Phases
  BY KindsLemma, Zenon DEF Stops, Phases
<1>5. PICK st \in [Range(Kinds) -> StepRows] :
           /\ steps' = [steps EXCEPT ![Gen] = st]
           /\ st["executor"].status = "succeeded"
           /\ \A k \in Range(Kinds) : k # "executor" => st[k] = st0[k]
  BY <1>1, <1>3, <1>4, SetStepLemma, Zenon
<1>6. /\ events' = [events EXCEPT ![Gen] = tr \o new]
      /\ checkpoints' = [checkpoints EXCEPT ![Gen] = cp2]
  BY <1>1, Zenon DEF Emit, Checkpointed
<1>7. Adds(new, 0, 1, 0, 0, 0, 1, 0) /\ Clean(new)
  BY StepTraces, Zenon
<1>8. cp2 \in Seq(Phases) /\ Len(cp2) = Len(cp) + 1
  BY <1>3, <1>4, SMTT(40)
<1> HIDE DEF st0, tr, cp, new, cp2
<1>9. /\ StepsAre(st0, "succeeded", "succeeded", "running", "absent")
      /\ StepsAre(st, "succeeded", "succeeded", "succeeded", "absent")
  BY <1>1, <1>3, <1>5, KindsLemma, ZenonT(30) DEF OnPath, Executing, StepsAre
<1>10. Cardinality(Unfinished(st0)) = 1 /\ Cardinality(Unfinished(st)) = 0
  BY <1>9, NoneOpen, ExecutorOpen, Zenon
<1>11. Clean(tr \o new) /\ Tally(tr \o new, {"validator_executed"}) = 0
  <2>1. Tally(tr \o new, {"validator_executed"}) = Tally(tr, {"validator_executed"}) + 0
        /\ Clean(tr \o new)
    BY <1>3, <1>7, PathTrace
  <2>. QED BY <1>3, <2>1
<1>12. Position(loop') = "before_validator"
  BY <1>2, Zenon DEF Position
<1>13. OnPath("before_validator", Gen, Profile, st, tr \o new, cp2)
  BY <1>3, <1>9, <1>11, Zenon
     DEF OnPath, Path, Starting, InContext, InPlanner, InExecutor, InValidator, Executing
<1>14. Invoking(loop) = 0 /\ Invoking(loop') = 0
  BY <1>1, <1>2, Zenon DEF Invoking
<1>15. "check_run" \notin SettledLabels /\ "check_run" \notin WorkLabels
  BY Zenon DEF SettledLabels, WorkLabels
<1>16. Agrees(Gen, Profile, st0, tr, cp, loop, new, 0, 1, 0, 0, 0, 1, 0, st, cp2, loop')
  <2>1. /\ loop.counters.tool_calls >= loop.counters.tool_calls + 0
        /\ loop.counters.data_reads >= loop.counters.data_reads + 0
    BY <1>3 DEF CounterRows
  <2>. QED BY <1>2, <1>3, <1>7, <1>8, <1>10, <1>12, <1>13, <1>14, <1>15, <2>1, SMTT(60) DEF Agrees
<1>17. /\ 0 + 0 <= 1 /\ (0 + 0 > 0 => loop.pc \in WorkLabels)
       /\ loop'.pc \in WorkLabels => item # "cancelled"
       /\ loop'.actions \in Seq(RepositoryReaders)
  BY <1>2, <1>3, <1>15, SMTT(40)
<1>18. Agrees(Gen, Profile, steps[Gen], events[Gen], checkpoints[Gen], loop,
              new, 0, 1, 0, 0, 0, 1, 0, st, cp2, loop')
  BY <1>16, Zenon DEF st0, tr, cp
<1>19. events' = [events EXCEPT ![Gen] = events[Gen] \o new]
  BY <1>6, Zenon DEF tr
<1>20. Within /\ UNCHANGED <<item, workAtCancel>>
  BY <1>1, Zenon
<1>. QED BY <1>5, <1>6, <1>8, <1>17, <1>18, <1>19, <1>20, MoveLemma, Zenon

\* The validator, whatever the verdicts.
LEMMA ValidatorStepTrace ==
  Laws /\ LInv /\ TInv /\ LInv' /\ ValidatorStep => TInv'
  \* A trace of events of one type.
<1>TallyUniform. ASSUME Laws, NEW n \in Nat, NEW s, DOMAIN s = 1..n, NEW type, NEW types,
                        \A i \in 1..n : s[i].type = type
                 PROVE  Tally(s, types) = IF type \in types THEN n ELSE 0
  <2> DEFINE A == {i \in DOMAIN s : s[i].type \in types}
  <2>1. A = IF type \in types THEN 1..n ELSE {}
    BY <1>TallyUniform, Zenon
  <2> HIDE DEF A
  <2>2. Cardinality(A) = IF type \in types THEN n ELSE 0
    BY <1>TallyUniform, <2>1, Sizes, Zenon
  <2>. QED BY <2>2, Zenon DEF Tally, A
  \* The validator's step: one verdict per validator, then the completion.
<1>ValidatorTraces. ASSUME Laws, NEW outcomes \in [1..Validators -> BOOLEAN]
                    PROVE  LET begun == <<Event("step_started")>> \o ValidatorEvents(outcomes)
                           IN  /\ Adds(begun \o StepSucceeded("validator"), 1, 1, 0, 0, 0, 1, Validators)
                               /\ ValidationPassed(outcomes) => Clean(begun \o StepSucceeded("validator"))
                               /\ Adds(begun \o <<StopEvent("step_completed", "validator_failed")>>,
                                       1, 1, 0, 0, 0, 0, Validators)
  <2> DEFINE s == Event("step_started")
             v == ValidatorEvents(outcomes)
             w == StepSucceeded("validator")
             f == <<StopEvent("step_completed", "validator_failed")>>
  <2>1. "none" \in Stops /\ "validator_failed" \in Stops
    BY Zenon DEF Stops, StopReasons
  <2>2. DOMAIN v = 1..Validators
    BY Zenon DEF ValidatorEvents
  <2>3. \A i \in 1..Validators :
          v[i] \in Events /\ v[i].type = "validator_executed"
    BY <2>1, Zenon DEF ValidatorEvents, StopEvent, Events, EventTypes
  <2>4. ValidationPassed(outcomes) => \A i \in 1..Validators : v[i].stop = "none"
    BY Zenon DEF ValidatorEvents, StopEvent, ValidationPassed
  <2>5. v = [i \in 1..Validators |-> v[i]]
    BY Zenon DEF ValidatorEvents
  <2>6. Validators \in Nat
    BY LoopAssumption, Zenon
  <2> HIDE DEF s, v, w
  <2>7. v \in Seq(Events)
    BY <2>3, <2>5, <2>6
  <2>8. Adds(v, 0, 0, 0, 0, 0, 0, Validators)
    <3>1. \A types : Tally(v, types) = IF "validator_executed" \in types THEN Validators ELSE 0
      BY <1>ValidatorTraces, <2>2, <2>3, <2>6, <1>TallyUniform
    <3>2. Unended(v)
      BY <2>2, <2>3, Zenon DEF Unended, TerminalEvents
    <3>. QED BY <2>7, <3>1, <3>2, Zenon DEF Adds
  <2>9. ValidationPassed(outcomes) => Clean(v)
    BY <2>2, <2>4, Zenon DEF Clean
  <2>10. /\ Adds(<<s>>, 1, 0, 0, 0, 0, 0, 0) /\ Clean(<<s>>)
         /\ Adds(w, 0, 1, 0, 0, 0, 1, 0) /\ Clean(w)
    BY <1>ValidatorTraces, StepTraces, Zenon DEF s, w
  <2>11. Adds(f, 0, 1, 0, 0, 0, 0, 0)
    BY <1>ValidatorTraces, <2>1, OneEvent, Zenon
  <2> HIDE DEF f
  <2>12. Adds(<<s>> \o v, 1 + 0, 0 + 0, 0 + 0, 0 + 0, 0 + 0, 0 + 0, 0 + Validators)
    BY <1>ValidatorTraces, <2>8, <2>10, AddsBoth, Zenon
  <2>13. Adds(<<s>> \o v, 1, 0, 0, 0, 0, 0, Validators)
    BY <2>6, <2>12, SMTT(40)
  <2>14. /\ Adds((<<s>> \o v) \o w, 1 + 0, 0 + 1, 0 + 0, 0 + 0, 0 + 0, 0 + 1, Validators + 0)
         /\ Adds((<<s>> \o v) \o f, 1 + 0, 0 + 1, 0 + 0, 0 + 0, 0 + 0, 0 + 0, Validators + 0)
    BY <1>ValidatorTraces, <2>10, <2>11, <2>13, AddsBoth, Zenon
  <2>15. ValidationPassed(outcomes) => Clean((<<s>> \o v) \o w)
    <3>1. /\ <<s>> \in Seq(Events) /\ w \in Seq(Events) /\ <<s>> \o v \in Seq(Events)
      BY <2>10, <2>13, Zenon DEF Adds
    <3>. QED BY <2>7, <2>9, <2>10, <3>1, CleanConcat, ZenonT(30)
  <2>16. /\ Adds((<<s>> \o v) \o w, 1, 1, 0, 0, 0, 1, Validators)
         /\ Adds((<<s>> \o v) \o f, 1, 1, 0, 0, 0, 0, Validators)
    BY <2>6, <2>14
  <2>. QED BY <2>15, <2>16, Zenon DEF s, v, w, f
  \* The validator's step, with its verdicts: the step is completed either way, and the
  \* checkpoint is written when all of them passed.
<1>ValidatorTrace. ASSUME Laws, LInv, TInv, LInv', Within, UNCHANGED <<item, workAtCancel>>, loop.pc = "validator",
                          NEW new, NEW f \in {0, 1}, NEW status \in {"succeeded", "failed"}, NEW stop \in Stops,
                          NEW cp2 \in Seq(Phases), checkpoints' = [checkpoints EXCEPT ![Gen] = cp2],
                          Len(cp2) = Len(checkpoints[Gen]) + f,
                          Emit(new), SetStep("validator", status, stop),
                          Adds(new, 1, 1, 0, 0, 0, f, Validators),
                          loop'.actions = loop.actions, loop'.counters = loop.counters,
                          \/ loop'.pc = "error"
                          \/ /\ loop'.pc = "succeed" /\ Clean(new) /\ cp2[Len(cp2)] = "validator"
                             /\ status = "succeeded"
                   PROVE  TInv'
  <2> DEFINE st0 == steps[Gen]
             tr == events[Gen]
             cp == checkpoints[Gen]
  <2>1. Validators \in Nat
    BY LoopAssumption, Zenon
  <2>2. /\ runs # <<>> /\ Gen \in Nat /\ tr \in Seq(Events) /\ cp \in Seq(Phases)
        /\ OnPath(loop.pc, Gen, Profile, st0, tr, cp)
        /\ Clean(tr) /\ Tally(tr, {"validator_executed"}) = 0
        /\ Gen - 1 <= Profile.limits.max_recompositions
        /\ loop.counters \in CounterRows /\ WithinLimits(loop.counters, Profile)
        /\ loop.actions \in Seq(RepositoryReaders)
    BY <1>ValidatorTrace, PlaceLemma, Zenon DEF InValidator
  <2>3. "validator" \in Range(Kinds) /\ status \in {"running", "succeeded", "failed"}
    BY KindsLemma, Zenon
  <2>4. PICK st \in [Range(Kinds) -> StepRows] :
             /\ steps' = [steps EXCEPT ![Gen] = st]
             /\ st["validator"].status = status
             /\ \A k \in Range(Kinds) : k # "validator" => st[k] = st0[k]
    BY <1>ValidatorTrace, <2>2, <2>3, SetStepLemma, ZenonT(30)
  <2>5. /\ events' = [events EXCEPT ![Gen] = tr \o new] /\ Len(cp2) = Len(cp) + f
    BY <1>ValidatorTrace, Zenon DEF Emit
  <2> HIDE DEF st0, tr, cp
  <2>6. /\ StepsAre(st0, "succeeded", "succeeded", "succeeded", "absent")
        /\ StepsAre(st, "succeeded", "succeeded", "succeeded", status)
    BY <1>ValidatorTrace, <2>2, <2>4, KindsLemma, ZenonT(30) DEF OnPath, InValidator, StepsAre
  <2>7. Cardinality(Unfinished(st0)) = 0 /\ Cardinality(Unfinished(st)) = 0
    BY <1>ValidatorTrace, <2>6, NoneOpen, Zenon
  <2>8. /\ Tally(tr \o new, {"validator_executed"}) = Validators
        /\ Clean(new) => Clean(tr \o new)
    <3>1. /\ Tally(tr \o new, {"validator_executed"})
               = Tally(tr, {"validator_executed"}) + Validators
          /\ Clean(new) => Clean(tr \o new)
      BY <1>ValidatorTrace, <2>1, <2>2, PathTrace, SMTT(40)
    <3>. QED BY <2>1, <2>2, <3>1, SMTT(40)
  <2>9. /\ Position(loop') = loop'.pc /\ loop'.pc \in {"error", "succeed"}
    BY <1>ValidatorTrace, Zenon DEF Position
  <2>10. OnPath(loop'.pc, Gen, Profile, st, tr \o new, cp2)
    <3>1. CASE loop'.pc = "error"
      BY <3>1, OffPath, Zenon DEF Path, Starting, InContext, InPlanner, InExecutor, InValidator,
                           Executing
    <3>2. CASE /\ loop'.pc = "succeed" /\ Clean(new) /\ cp2[Len(cp2)] = "validator"
               /\ status = "succeeded"
      BY <2>2, <2>6, <2>8, <3>2, Zenon
         DEF OnPath, Path, Starting, InContext, InPlanner, InExecutor, InValidator, Executing,
             Validated
    <3>. QED BY <1>ValidatorTrace, <3>1, <3>2, Zenon
  <2>11. Invoking(loop) = 0 /\ Invoking(loop') = 0
    BY <1>ValidatorTrace, <2>9, Zenon DEF Invoking
  <2>12. /\ loop'.pc \notin SettledLabels /\ loop'.pc \notin WorkLabels
         /\ loop'.pc \notin {"invoke", "invoked"}
    BY <2>9, Zenon DEF SettledLabels, WorkLabels
  <2>13. Agrees(Gen, Profile, st0, tr, cp, loop, new, 1, 1, 0, 0, 0, f, Validators,
                st, cp2, loop')
    <3>1. /\ loop.counters.tool_calls >= loop.counters.tool_calls + 0
          /\ loop.counters.data_reads >= loop.counters.data_reads + 0
          /\ f \in Nat
      BY <2>2, SMTT(60) DEF CounterRows
    <3>. QED BY <1>ValidatorTrace, <2>1, <2>2, <2>5, <2>7, <2>9, <2>10, <2>11, <2>12, <3>1, SMTT(60) DEF Agrees
  <2>14. /\ 1 + 0 <= 1 /\ (1 + 0 > 0 => loop.pc \in WorkLabels)
         /\ loop'.pc \in WorkLabels => item # "cancelled"
         /\ loop'.actions \in Seq(RepositoryReaders)
    BY <1>ValidatorTrace, <2>2, <2>12 DEF WorkLabels
  <2>15. Agrees(Gen, Profile, steps[Gen], events[Gen], checkpoints[Gen], loop,
                new, 1, 1, 0, 0, 0, f, Validators, st, cp2, loop')
    BY <2>13, ZenonT(30) DEF st0, tr, cp
  <2>16. events' = [events EXCEPT ![Gen] = events[Gen] \o new]
    BY <2>5, Zenon DEF tr
  <2>. QED BY <1>ValidatorTrace, <2>4, <2>14, <2>15, <2>16, MoveLemma, Zenon
<1>1. ASSUME Laws, LInv, TInv, LInv', ValidatorStep
      PROVE  TInv'
  <2>1. /\ loop.pc = "validator" /\ Within /\ UNCHANGED <<item, workAtCancel>>
    BY <1>1, Zenon DEF ValidatorStep, At, cancellation, Within, SettledLabels
  <2>2. runs # <<>> /\ checkpoints[Gen] \in Seq(Phases)
    BY <1>1, <2>1, PlaceLemma, Zenon DEF InValidator
  <2>3. PICK outcomes \in [1..Validators -> BOOLEAN] :
         LET begun == <<Event("step_started")>> \o ValidatorEvents(outcomes)
         IN  IF ValidationPassed(outcomes)
             THEN /\ Emit(begun \o StepSucceeded("validator"))
                  /\ Checkpointed("validator")
                  /\ SetStep("validator", "succeeded", "completed")
                  /\ Goto("succeed")
             ELSE /\ Emit(begun \o <<StopEvent("step_completed", "validator_failed")>>)
                  /\ SetStep("validator", "failed", "validator_failed")
                  /\ Raise([stop |-> "validator_failed", code |-> "validator_failed"])
                  /\ UNCHANGED checkpoints
    BY <1>1, Zenon DEF ValidatorStep
  <2> DEFINE begun == <<Event("step_started")>> \o ValidatorEvents(outcomes)
  <2>4. /\ Adds(begun \o StepSucceeded("validator"), 1, 1, 0, 0, 0, 1, Validators)
        /\ ValidationPassed(outcomes) => Clean(begun \o StepSucceeded("validator"))
        /\ Adds(begun \o <<StopEvent("step_completed", "validator_failed")>>,
                1, 1, 0, 0, 0, 0, Validators)
    BY <1>1, <1>ValidatorTraces, Zenon
  <2>5. "completed" \in Stops /\ "validator_failed" \in Stops /\ "validator" \in Phases
    BY KindsLemma, Zenon DEF Stops, StopReasons, Phases
  <2>6. CASE ValidationPassed(outcomes)
    <3> DEFINE new == begun \o StepSucceeded("validator")
               cp2 == Append(checkpoints[Gen], "validator")
    <3>1. /\ Emit(new) /\ Checkpointed("validator")
          /\ SetStep("validator", "succeeded", "completed") /\ Goto("succeed")
      BY <2>3, <2>6, Zenon
    <3>2. Adds(new, 1, 1, 0, 0, 0, 1, Validators) /\ Clean(new)
      BY <2>4, <2>6, Zenon
    <3>3. checkpoints' = [checkpoints EXCEPT ![Gen] = cp2]
      BY <3>1, Zenon DEF Checkpointed
    <3>4. cp2 \in Seq(Phases) /\ Len(cp2) = Len(checkpoints[Gen]) + 1
          /\ cp2[Len(cp2)] = "validator"
      BY <2>2, <2>5
    <3>5. loop'.pc = "succeed" /\ loop'.actions = loop.actions /\ loop'.counters = loop.counters
      BY <3>1, SMTT(40) DEF Goto, LInv
    <3> HIDE DEF new, cp2
    <3>. QED BY <1>1, <2>1, <2>5, <3>1, <3>2, <3>3, <3>4, <3>5, <1>ValidatorTrace, Zenon
  <2>7. CASE ~ValidationPassed(outcomes)
    <3> DEFINE new == begun \o <<StopEvent("step_completed", "validator_failed")>>
               cp2 == checkpoints[Gen]
    <3>1. /\ Emit(new) /\ UNCHANGED checkpoints
          /\ SetStep("validator", "failed", "validator_failed")
          /\ Raise([stop |-> "validator_failed", code |-> "validator_failed"])
      BY <2>3, <2>7, Zenon
    <3>2. Adds(new, 1, 1, 0, 0, 0, 0, Validators)
      BY <2>4, Zenon
    <3>3. checkpoints' = [checkpoints EXCEPT ![Gen] = cp2]
      BY <1>1, <2>2, <3>1, SameLemma, Zenon
    <3>4. cp2 \in Seq(Phases) /\ Len(cp2) = Len(checkpoints[Gen]) + 0
      BY <2>2
    <3>5. loop'.pc = "error" /\ loop'.actions = loop.actions /\ loop'.counters = loop.counters
      BY <3>1, SMTT(40) DEF Raise, LInv
    <3> HIDE DEF new, cp2
    <3>. QED BY <1>1, <2>1, <2>5, <3>1, <3>2, <3>3, <3>4, <3>5, <1>ValidatorTrace, Zenon
  <2>. QED BY <2>6, <2>7, Zenon
<1>. QED BY <1>1, Zenon

\* The ways a run ends.
LEMMA EndSteps ==
  Laws /\ LInv /\ TInv /\ LInv'
  /\ (RunSucceeds \/ CancelRun \/ HandleRuntimeError \/ WorkerReadsRun \/ WorkerFailsRun)
  => TInv'
  \* A run that ends: one more event, which is the last.
<1>EndingTrace. ASSUME Laws, NEW tr \in Seq(Events), Unended(tr), NEW type \in TerminalEvents, NEW stop \in Stops
                PROVE  LET tr2 == tr \o <<StopEvent(type, stop)>>
                       IN  /\ tr2 \in Seq(Events) /\ tr2 # <<>> /\ EndsOnce(tr2)
                           /\ tr2[Len(tr2)] = StopEvent(type, stop)
                           /\ \A counted \in EventTypes : Tally(tr2, {counted}) = Tally(tr, {counted})
                           /\ Work(tr2) = Work(tr)
                           /\ Clean(tr) /\ stop = "completed" => Clean(tr2)
  <2> DEFINE e == StopEvent(type, stop)
             tr2 == tr \o <<e>>
  <2>1. e \in Events /\ e.type = type /\ e.stop = stop
    BY Zenon DEF StopEvent, Events
  <2> HIDE DEF e
  <2>2. <<e>> \in Seq(Events)
    BY <2>1
  <2>3. /\ tr2 \in Seq(Events) /\ tr2 # <<>> /\ Len(tr2) = Len(tr) + 1
        /\ tr2[Len(tr2)] = e
        /\ \A i \in 1..Len(tr) : tr2[i] = tr[i]
    BY <2>1
  <2>4. EndsOnce(tr2)
    BY <1>EndingTrace, <2>3 DEF EndsOnce, Unended
  <2>5. \A counted \in EventTypes : type # counted
    BY Zenon DEF EventTypes, TerminalEvents
  <2>6. \A counted \in EventTypes : Tally(tr2, {counted}) = Tally(tr, {counted})
    <3> SUFFICES ASSUME NEW counted \in EventTypes
                 PROVE  Tally(tr2, {counted}) = Tally(tr, {counted})
      BY Zenon
    <3>1. Tally(tr2, {counted}) = Tally(tr, {counted}) + Tally(<<e>>, {counted})
      <4>1. \A types : Tally(tr \o <<e>>, types) = Tally(tr, types) + Tally(<<e>>, types)
        BY <1>EndingTrace, <2>2, TallyConcat, Zenon
      <4>. QED BY <4>1, Zenon
    <3>2. Tally(<<e>>, {counted}) = 0
      BY <1>EndingTrace, <2>1, <2>5, TallyOne, Zenon
    <3>3. Tally(tr, {counted}) \in Nat
      BY <1>EndingTrace, TallyType, ZenonT(30)
    <3>. QED BY <3>1, <3>2, <3>3
  <2>7. Work(tr2) = Work(tr)
    BY <2>6, Zenon DEF Work, EventTypes
  <2>8. Clean(tr) /\ stop = "completed" => Clean(tr2)
    BY <2>1, <2>3 DEF Clean
  <2>. QED BY <2>3, <2>4, <2>6, <2>7, <2>8, Zenon DEF e
  \* A run ends with an event of its own and the row that event announces.
<1>EndLemma. ASSUME Laws, LInv, TInv, LInv', loop.pc \notin SettledLabels, loop.pc # "invoked",
                    NEW type \in TerminalEvents, NEW status, NEW stop \in Stops,
                    Emit(<<StopEvent(type, stop)>>), CompleteRun(status, stop),
                    UNCHANGED <<profiles, steps, checkpoints, cancellation>>,
                    loop'.pc \in SettledLabels, loop'.actions = loop.actions,
                    loop'.counters = loop.counters,
                    status = "succeeded" => loop.pc = "succeed" /\ stop = "completed",
                    loop'.pc = "compose" =>
                      /\ status = "failed" /\ stop = "needs_recomposition"
                      /\ Gen <= Profile.limits.max_recompositions
                      /\ "recompose_once" \in Range(Profile.failure_policy)
             PROVE  TInv'
  <2> DEFINE st == steps[Gen]
             tr == events[Gen]
             cp == checkpoints[Gen]
             row == [status |-> status, stop |-> stop]
             tr2 == tr \o <<StopEvent(type, stop)>>
  <2>1. runs # <<>>
    BY <1>EndLemma, Zenon DEF LInv
  <2>2. /\ Gen \in Nat /\ st \in [Range(Kinds) -> StepRows]
        /\ tr \in Seq(Events) /\ cp \in Seq(Phases)
        /\ Present(Gen, runs[Gen], Profile, st, tr, cp, loop, caller)
    BY <1>EndLemma, <2>1, CurrentLemma, Zenon
  <2>3. /\ loop.counters \in CounterRows /\ loop.actions \in Seq(RepositoryReaders)
        /\ workAtCancel \in Nat
        /\ item = "cancelled" => Mode = "queue" /\ Prompt(tr, loop.pc, workAtCancel)
    BY <1>EndLemma, Zenon DEF TInv, RecordsTyped, Gen
  <2>4. /\ runs' = [runs EXCEPT ![Gen] = row]
        /\ events' = [events EXCEPT ![Gen] = tr2]
        /\ steps' = [steps EXCEPT ![Gen] = st]
        /\ checkpoints' = [checkpoints EXCEPT ![Gen] = cp]
        /\ profiles' = profiles /\ caller' = caller /\ item' = item
        /\ workAtCancel' = workAtCancel
    BY <1>EndLemma, <2>1, SameLemma, Zenon DEF CompleteRun, Emit, cancellation
  <2>5. row.status = status /\ row.stop = stop /\ StopEvent(type, stop).stop = stop
    BY Zenon DEF StopEvent
  <2>6. Unended(tr)
    BY <1>EndLemma, <2>2, ZenonT(30) DEF Present
  <2>7. /\ tr2 \in Seq(Events) /\ tr2 # <<>> /\ EndsOnce(tr2)
        /\ tr2[Len(tr2)] = StopEvent(type, stop)
        /\ \A counted \in EventTypes : Tally(tr2, {counted}) = Tally(tr, {counted})
        /\ Work(tr2) = Work(tr)
        /\ Clean(tr) /\ stop = "completed" => Clean(tr2)
    BY <1>EndLemma, <2>2, <2>6, <1>EndingTrace, ZenonT(30)
  <2>8. row = [status |-> status, stop |-> stop]
    BY Zenon
  <2> HIDE DEF st, tr, cp, row, tr2
  <2>9. /\ Tally(tr2, {"step_started"}) = Tally(tr, {"step_started"})
        /\ Tally(tr2, {"step_completed"}) = Tally(tr, {"step_completed"})
        /\ Tally(tr2, {"tool_invocation_started"}) = Tally(tr, {"tool_invocation_started"})
        /\ Tally(tr2, {"tool_invocation_completed"}) = Tally(tr, {"tool_invocation_completed"})
        /\ Tally(tr2, {"runtime_after_tool_hook_evaluated"})
             = Tally(tr, {"runtime_after_tool_hook_evaluated"})
        /\ Tally(tr2, {"checkpoint_created"}) = Tally(tr, {"checkpoint_created"})
        /\ Tally(tr2, {"validator_executed"}) = Tally(tr, {"validator_executed"})
    BY <2>7, Zenon DEF EventTypes
  <2>10. /\ Invoking(loop) = 0 /\ Invoking(loop') = 0 /\ Position(loop') = loop'.pc
         /\ loop'.pc \notin Path /\ loop'.pc \notin WorkLabels
    BY <1>EndLemma, Zenon DEF Invoking, Position, SettledLabels, Path, WorkLabels, Starting, InContext, InPlanner,
           InExecutor, InValidator, Executing
  <2>11. Kept(Gen, row, Profile, st, tr2, cp, 0)
    <3>1. Kept(Gen, runs[Gen], Profile, st, tr, cp, 0)
      BY <2>2, <2>10, ZenonT(30) DEF Present
    <3>2. status = "succeeded" => Validated(st, tr2, cp)
      <4> SUFFICES ASSUME status = "succeeded" PROVE Validated(st, tr2, cp)
        BY Zenon
      <4>1. Position(loop) = "succeed" /\ stop = "completed"
        BY <1>EndLemma, Zenon DEF Position
      <4>2. Validated(st, tr, cp)
        BY <2>2, <4>1, ZenonT(30) DEF Present, OnPath
      <4>. QED BY <2>7, <2>9, <4>1, <4>2, Zenon DEF Validated
    <3>3. Accounts(st, tr2, cp, 0)
      BY <2>9, <3>1, Zenon DEF Kept, Accounts
    <3>. QED BY <2>5, <2>7, <2>9, <3>1, <3>2, <3>3, Zenon DEF Kept
  <2>12. Spent(Gen, Profile, tr2, loop'.counters)
    BY <1>EndLemma, <2>2, <2>9, ZenonT(30) DEF Present, Spent
  <2>13. loop'.pc = "compose" => Recomposed(Gen, row, Profile, tr2)
    BY <1>EndLemma, <2>5, <2>7, <2>8, Zenon DEF Recomposed
  <2>14. OnPath(Position(loop'), Gen, Profile, st, tr2, cp)
    BY <2>10, OffPath, Zenon
  <2>15. loop'.pc \notin {"invoke", "invoked"} /\ Position(loop') \notin {"invoke", "invoked"}
    BY <2>10, Zenon DEF Path, Executing
  <2>16. row.stop = tr2[Len(tr2)].stop
    BY <2>5, <2>7, Zenon
  <2>17. Present(Gen, row, Profile, st, tr2, cp, loop', caller')
    BY <1>EndLemma, <2>10, <2>11, <2>12, <2>13, <2>14, <2>15, <2>16, ZenonT(30) DEF Present
  <2>18. item' = "cancelled" => Mode = "queue" /\ Prompt(tr2, loop'.pc, workAtCancel')
    BY <2>3, <2>4, <2>7, <2>10, Zenon DEF Prompt
  <2>. QED BY <1>EndLemma, <2>1, <2>2, <2>3, <2>4, <2>7, <2>17, <2>18, LocalLemma, ZenonT(30)
  \* The loop is over, without an event, and the row is not a success.
<1>QuitLemma. ASSUME LInv, TInv, LInv', loop.pc \notin SettledLabels, loop.pc # "invoked",
                     NEW row, runs' = [runs EXCEPT ![Gen] = row], row.status # "succeeded",
                     UNCHANGED <<profiles, recorded, cancellation>>, Goto("done")
              PROVE  TInv'
  <2> DEFINE st == steps[Gen]
             tr == events[Gen]
             cp == checkpoints[Gen]
  <2>1. runs # <<>>
    BY <1>QuitLemma, Zenon DEF LInv
  <2>2. /\ Gen \in Nat /\ st \in [Range(Kinds) -> StepRows]
        /\ tr \in Seq(Events) /\ cp \in Seq(Phases)
        /\ Present(Gen, runs[Gen], Profile, st, tr, cp, loop, caller)
    BY <1>QuitLemma, <2>1, CurrentLemma, Zenon
  <2>3. /\ loop.counters \in CounterRows /\ loop.actions \in Seq(RepositoryReaders)
        /\ workAtCancel \in Nat
        /\ item = "cancelled" => Mode = "queue" /\ Prompt(tr, loop.pc, workAtCancel)
    BY <1>QuitLemma, Zenon DEF TInv, RecordsTyped, Gen
  <2>4. /\ events' = [events EXCEPT ![Gen] = tr]
        /\ steps' = [steps EXCEPT ![Gen] = st]
        /\ checkpoints' = [checkpoints EXCEPT ![Gen] = cp]
        /\ profiles' = profiles /\ caller' = caller /\ item' = item
        /\ workAtCancel' = workAtCancel
    <3>1. tr \o <<>> = tr
      BY <2>2
    <3>. QED BY <1>QuitLemma, <2>1, <3>1, SameLemma, Zenon DEF recorded, cancellation
  <2>5. loop'.pc = "done" /\ loop'.counters = loop.counters /\ loop'.actions = loop.actions
    BY <1>QuitLemma, Zenon DEF Goto, LInv
  <2> HIDE DEF st, tr, cp
  <2>6. Unended(tr) /\ tr # <<>>
    BY <1>QuitLemma, <2>2, Zenon DEF Present, Kept
  <2>7. tr[Len(tr)].type \notin TerminalEvents
    <3>1. Len(tr) \in DOMAIN tr
      BY <2>2, <2>6, SMTT(40)
    <3>. QED BY <2>6, <3>1, Zenon DEF Unended
  <2>8. /\ Invoking(loop) = 0 /\ Invoking(loop') = 0 /\ Position(loop') = "done"
        /\ "done" \notin Path /\ "done" \notin WorkLabels
    BY <1>QuitLemma, <2>5, Zenon DEF Invoking, Position, Path, WorkLabels, Starting, InContext, InPlanner,
                InExecutor, InValidator, Executing
  <2>9. Kept(Gen, row, Profile, st, tr, cp, 0)
    BY <1>QuitLemma, <2>2, <2>8, Zenon DEF Present, Kept
  <2>10. OnPath(Position(loop'), Gen, Profile, st, tr, cp)
    BY <2>8, OffPath, Zenon
  <2>11. Spent(Gen, Profile, tr, loop'.counters)
    BY <2>2, <2>5, ZenonT(30) DEF Present
  <2>12. "done" \in SettledLabels
    BY Zenon DEF SettledLabels
  <2>13. Present(Gen, row, Profile, st, tr, cp, loop', caller')
    BY <2>5, <2>7, <2>8, <2>9, <2>10, <2>11, <2>12, ZenonT(30) DEF Present
  <2>14. item' = "cancelled" => Mode = "queue" /\ Prompt(tr, loop'.pc, workAtCancel')
    BY <2>3, <2>4, <2>5, <2>8, Zenon DEF Prompt
  <2>. QED BY <1>QuitLemma, <2>1, <2>2, <2>3, <2>4, <2>5, <2>13, <2>14, LocalLemma, ZenonT(30)
  \* What the recomposition budget and the failure policy allow.
<1>MayRecomposeLemma. ASSUME LInv, TInv, loop.pc = "error", MayRecompose(Profile, loop.error, loop.counters)
                      PROVE  /\ Gen <= Profile.limits.max_recompositions
                             /\ "recompose_once" \in Range(Profile.failure_policy)
  <2>1. runs # <<>>
    BY <1>MayRecomposeLemma, Zenon DEF LInv, SettledLabels
  <2>2. /\ Gen \in Nat /\ Profile.limits \in Limits
        /\ {"on_validator_failure", "on_policy_denial", "on_budget_exhausted"}
             \subseteq DOMAIN Profile.failure_policy
        /\ Present(Gen, runs[Gen], Profile, steps[Gen], events[Gen], checkpoints[Gen],
                   loop, caller)
    BY <1>MayRecomposeLemma, <2>1, CurrentLemma, ZenonT(30)
  <2>3. loop.counters.recompositions = Gen - 1
    BY <2>2, ZenonT(30) DEF Present, Spent
  <2>4. Gen <= Profile.limits.max_recompositions
    <3>1. ~(loop.counters.recompositions + 1 > Profile.limits.max_recompositions)
      BY <1>MayRecomposeLemma, ZenonT(30) DEF MayRecompose, RecordRecompositionRequest, IncrementLimit, LimitExceeded, NoError
    <3>2. Profile.limits.max_recompositions \in Nat
      BY <2>2, Zenon DEF Limits
    <3>. QED BY <2>2, <2>3, <3>1, <3>2, SMTT(60)
  <2>5. FailurePolicy(Profile, loop.error) = "recompose_once"
    BY <1>MayRecomposeLemma, Zenon DEF MayRecompose
  <2>6. FailurePolicy(Profile, loop.error) \in
          {Profile.failure_policy.on_validator_failure, Profile.failure_policy.on_policy_denial,
           Profile.failure_policy.on_budget_exhausted, "none"}
    BY Zenon DEF FailurePolicy
  <2>7. "recompose_once" \in Range(Profile.failure_policy)
    BY <2>2, <2>5, <2>6, Zenon DEF Range
  <2>. QED BY <2>4, <2>7, Zenon
<1>1. ASSUME Laws, LInv, TInv, LInv',
             RunSucceeds \/ CancelRun \/ HandleRuntimeError \/ WorkerReadsRun \/ WorkerFailsRun
      PROVE  TInv'
  <2>1. loop.pc \notin SettledLabels /\ loop.pc # "invoked"
    BY <1>1, Zenon DEF RunSucceeds, CancelRun, HandleRuntimeError, WorkerReadsRun, WorkerFailsRun, At,
           SettledLabels
  <2>2. /\ {"runtime_completed", "runtime_failed", "runtime_cancelled",
            "recomposition_requested"} \subseteq TerminalEvents
        /\ {"completed", "cancelled", "needs_recomposition"} \subseteq Stops
        /\ "done" \in SettledLabels /\ "compose" \in SettledLabels
    BY Zenon DEF TerminalEvents, Stops, StopReasons, SettledLabels
  <2>3. \A label : Goto(label) =>
          /\ loop'.pc = label /\ loop'.actions = loop.actions
          /\ loop'.counters = loop.counters
    BY DEF Goto, LInv
  <2>4. CASE RunSucceeds
    <3>1. /\ loop.pc = "succeed" /\ Emit(<<StopEvent("runtime_completed", "completed")>>)
          /\ CompleteRun("succeeded", "completed") /\ Goto("done")
          /\ UNCHANGED <<profiles, steps, checkpoints, cancellation>>
      BY <2>4, Zenon DEF RunSucceeds, At
    <3>. QED BY <1>1, <2>1, <2>2, <2>3, <3>1, <1>EndLemma, SMTT(40)
  <2>5. CASE CancelRun
    <3>1. /\ Emit(<<StopEvent("runtime_cancelled", "cancelled")>>)
          /\ CompleteRun("cancelled", "cancelled") /\ Goto("done")
          /\ UNCHANGED <<profiles, steps, checkpoints, cancellation>>
      BY <2>5, Zenon DEF CancelRun
    <3>. QED BY <1>1, <2>1, <2>2, <2>3, <3>1, <1>EndLemma, SMTT(40)
  <2>6. CASE HandleRuntimeError
    <3>1. loop.pc = "error" /\ UNCHANGED <<profiles, steps, checkpoints, cancellation>>
      BY <2>6, Zenon DEF HandleRuntimeError, At
    <3>2. CASE MayRecompose(Profile, loop.error, loop.counters)
      <4>1. /\ Emit(<<StopEvent("recomposition_requested", "needs_recomposition")>>)
            /\ CompleteRun("failed", "needs_recomposition")
            /\ Goto(AfterRecompositionRequest)
        BY <2>6, <3>2, Zenon DEF HandleRuntimeError
      <4>2. AfterRecompositionRequest \in SettledLabels
        BY <2>2, Zenon DEF AfterRecompositionRequest
      <4>3. /\ Gen <= Profile.limits.max_recompositions
            /\ "recompose_once" \in Range(Profile.failure_policy)
        BY <1>1, <3>1, <3>2, <1>MayRecomposeLemma, Zenon
      <4>. QED BY <1>1, <2>1, <2>2, <2>3, <3>1, <4>1, <4>2, <4>3, <1>EndLemma, Zenon
    <3>3. CASE ~MayRecompose(Profile, loop.error, loop.counters)
      <4> DEFINE reason == FailReason(Profile, loop.error)
      <4>1. /\ Emit(<<StopEvent("runtime_failed", reason)>>)
            /\ CompleteRun("failed", reason) /\ Goto("done")
        BY <2>6, <3>3, Zenon DEF HandleRuntimeError
      <4>2. reason \in Stops
        BY <1>1, <3>1, Zenon DEF FailReason, LInv, StopReasons, Stops
      <4> HIDE DEF reason
      <4>. QED BY <1>1, <2>1, <2>2, <2>3, <3>1, <4>1, <4>2, <1>EndLemma
    <3>. QED BY <3>2, <3>3, Zenon
  <2>7. runs # <<>> /\ runs[Gen] \in {Running, Lifecycle!Cancelled}
    BY <1>1, <2>1, Zenon DEF LInv, Gen
  <2>8. CASE WorkerReadsRun
    <3>1. CASE Goto("fail_write")
      <4>1. Silent
        BY <2>1, <2>8, Zenon DEF WorkerReadsRun, Silent, Within, cancellation
      <4>2. /\ "fail_write" \notin Path /\ "fail_write" \notin SettledLabels
            /\ "fail_write" \notin {"check_run", "check_item"}
        BY Zenon DEF Path, SettledLabels, Starting, InContext, InPlanner, InExecutor, InValidator,
               Executing
      <4>. QED BY <1>1, <2>1, <3>1, <4>1, <4>2, LeaveLemma, Zenon
    <3>2. CASE Goto("done")
      <4>1. /\ runs' = [runs EXCEPT ![Gen] = runs[Gen]]
            /\ UNCHANGED <<profiles, recorded, cancellation>>
        BY <1>1, <2>7, <2>8, SameLemma, Zenon DEF WorkerReadsRun
      <4>2. runs[Gen].status # "succeeded"
        BY <2>7 DEF Running, Lifecycle!Cancelled
      <4>. QED BY <1>1, <2>1, <3>2, <4>1, <4>2, <1>QuitLemma, ZenonT(30)
    <3>. QED BY <2>8, <3>1, <3>2, Zenon DEF WorkerReadsRun
  <2>9. CASE WorkerFailsRun
    <3> DEFINE row == [status |-> "failed", stop |-> SealReason]
    <3>1. /\ runs' = [runs EXCEPT ![Gen] = row] /\ row.status # "succeeded"
          /\ UNCHANGED <<profiles, recorded, cancellation>> /\ Goto("done")
      BY <2>9, Zenon DEF WorkerFailsRun, CompleteRun
    <3> HIDE DEF row
    <3>. QED BY <1>1, <2>1, <3>1, <1>QuitLemma, ZenonT(30)
  <2>. QED BY <1>1, <2>4, <2>5, <2>6, <2>8, <2>9, Zenon
<1>. QED BY <1>1, Zenon

\* The caller of cancel_run.
LEMMA CallerSteps ==
  Laws /\ LInv /\ TInv /\ LInv' /\ CallerStep => TInv'
  \* The caller moves on and the tables stay.
<1>CallerMoves. ASSUME LInv, TInv, LInv', runs # <<>>, caller # "finished",
                       UNCHANGED <<runs, profiles, recorded, loop>>, workAtCancel' \in Nat,
                       item' = "cancelled" =>
                         Mode = "queue" /\ Prompt(events[Gen], loop.pc, workAtCancel')
                PROVE  TInv'
  <2> DEFINE st == steps[Gen]
             tr == events[Gen]
             cp == checkpoints[Gen]
             row == runs[Gen]
  <2>1. /\ st \in [Range(Kinds) -> StepRows] /\ tr \in Seq(Events) /\ cp \in Seq(Phases)
        /\ Present(Gen, row, Profile, st, tr, cp, loop, caller)
    BY <1>CallerMoves, CurrentLemma, Zenon
  <2>2. /\ events' = [events EXCEPT ![Gen] = tr] /\ steps' = [steps EXCEPT ![Gen] = st]
        /\ checkpoints' = [checkpoints EXCEPT ![Gen] = cp]
        /\ runs' = [runs EXCEPT ![Gen] = row]
        /\ profiles' = profiles /\ loop' = loop
    <3>1. tr \o <<>> = tr
      BY <2>1
    <3>. QED BY <1>CallerMoves, <3>1, SameLemma, Zenon DEF recorded
  <2>3. loop.counters \in CounterRows /\ loop.actions \in Seq(RepositoryReaders)
    BY <1>CallerMoves, Zenon DEF TInv, RecordsTyped
  <2>4. item' = "cancelled" => Mode = "queue" /\ Prompt(tr, loop'.pc, workAtCancel')
    BY <1>CallerMoves, <2>2, Zenon
  <2> HIDE DEF st, tr, cp, row
  <2>5. Present(Gen, row, Profile, st, tr, cp, loop', caller')
    BY <1>CallerMoves, <2>1, <2>2, ZenonT(30) DEF Present
  <2>. QED BY <1>CallerMoves, <2>1, <2>2, <2>3, <2>4, <2>5, LocalLemma, ZenonT(30)
  \* The caller's write to the row: never a success, and never a generation that asked for
  \* the next one.
<1>CallerWrites. ASSUME LInv, TInv, LInv', CallerCancelsRun
                 PROVE  TInv'
  <2> DEFINE st == steps[Gen]
             tr == events[Gen]
             cp == checkpoints[Gen]
             row == [status |-> "cancelled", stop |-> "cancelled"]
  <2>1. runs # <<>> /\ loop.pc # "compose"
    BY <1>CallerWrites, Zenon DEF CallerCancelsRun, LInv
  <2>2. /\ st \in [Range(Kinds) -> StepRows] /\ tr \in Seq(Events) /\ cp \in Seq(Phases)
        /\ Present(Gen, runs[Gen], Profile, st, tr, cp, loop, caller)
    BY <1>CallerWrites, <2>1, CurrentLemma, ZenonT(30)
  <2>3. /\ events' = [events EXCEPT ![Gen] = tr] /\ steps' = [steps EXCEPT ![Gen] = st]
        /\ checkpoints' = [checkpoints EXCEPT ![Gen] = cp]
        /\ runs' = [runs EXCEPT ![Gen] = row]
        /\ profiles' = profiles /\ loop' = loop /\ caller' = "finished"
        /\ item' = item /\ workAtCancel' = workAtCancel
    <3>1. tr \o <<>> = tr
      BY <2>2
    <3>. QED BY <1>CallerWrites, <2>1, <3>1, SameLemma, Zenon DEF recorded, CallerCancelsRun, CompleteRun
  <2>4. /\ loop.counters \in CounterRows /\ loop.actions \in Seq(RepositoryReaders)
        /\ workAtCancel \in Nat
        /\ item = "cancelled" => Mode = "queue" /\ Prompt(tr, loop.pc, workAtCancel)
    BY <1>CallerWrites, Zenon DEF TInv, RecordsTyped, Gen
  <2>5. row.status = "cancelled"
    BY Zenon
  <2> HIDE DEF st, tr, cp, row
  <2>6. Present(Gen, row, Profile, st, tr, cp, loop', caller')
    BY <2>1, <2>2, <2>3, <2>5, ZenonT(30) DEF Present, Kept
  <2>. QED BY <1>CallerWrites, <2>1, <2>2, <2>3, <2>4, <2>6, LocalLemma, ZenonT(30)
<1>1. ASSUME Laws, LInv, TInv, LInv', CallerStep
      PROVE  TInv'
  <2>1. CASE CancelItem
    <3>1. /\ Mode = "queue" /\ runs # <<>> /\ caller # "finished"
          /\ UNCHANGED <<runs, profiles, recorded, loop>> /\ workAtCancel' = WorkStarted
      BY <2>1, Zenon DEF CancelItem
    <3>2. events[Gen] \in Seq(Events)
      BY <1>1, <3>1, CurrentLemma, Zenon
    <3>3. WorkStarted = Work(events[Gen]) /\ Work(events[Gen]) \in Nat
      <4>1. \A types : Tally(events[Gen], types) \in Nat
        BY <1>1, <3>2, TallyType, Zenon
      <4>2. Tally(events[Gen], {"step_started", "tool_invocation_started"})
              = Tally(events[Gen], {"step_started"}) + Tally(events[Gen], {"tool_invocation_started"})
        BY <1>1, <3>2, TallyTwo, ZenonT(30)
      <4>. QED BY <4>1, <4>2, Zenon DEF WorkStarted, Count, Tally, Work
    <3>4. Prompt(events[Gen], loop.pc, workAtCancel')
      BY <3>1, <3>3 DEF Prompt
    <3>. QED BY <1>1, <3>1, <3>3, <3>4, <1>CallerMoves, Zenon
  <2>2. CASE CallerReadsRun
    <3>1. /\ runs # <<>> /\ caller # "finished"
          /\ UNCHANGED <<runs, profiles, recorded, loop, item, workAtCancel>>
      BY <1>1, <2>2, Zenon DEF CallerReadsRun, LInv
    <3>2. /\ workAtCancel \in Nat
          /\ item = "cancelled" => Mode = "queue" /\ Prompt(events[Gen], loop.pc, workAtCancel)
      BY <1>1, Zenon DEF TInv, Gen
    <3>. QED BY <1>1, <3>1, <3>2, <1>CallerMoves, Zenon
  <2>. QED BY <1>1, <2>1, <2>2, <1>CallerWrites, Zenon DEF CallerStep
<1>. QED BY <1>1, Zenon

\* Steps that change nothing the invariant speaks of.
LEMMA IdleSteps ==
  ASSUME TInv, DurationPasses \/ Rest \/ UNCHANGED vars
  PROVE  TInv'
<1>1. UNCHANGED <<runs, profiles, steps, events, checkpoints, loop, item, caller, workAtCancel>>
  BY Zenon DEF DurationPasses, Rest, vars, recorded, cancellation
<1>. QED BY <1>1, Zenon DEF TInv, RecordsTyped, Past

\* A generation that is never composed.
LEMMA StartFailsTrace ==
  ASSUME LInv, TInv, LInv', StartFails
  PROVE  TInv'
<1>1. /\ loop.pc = "compose" /\ Goto("raised")
      /\ UNCHANGED <<runs, profiles, steps, events, checkpoints, item, caller, workAtCancel>>
  BY Zenon DEF StartFails, At, recorded, cancellation
<1>2. loop'.pc = "raised" /\ loop'.actions = loop.actions /\ loop'.counters = loop.counters
  BY <1>1, Zenon DEF Goto, LInv
<1>3. RecordsTyped'
  BY <1>1, <1>2, Zenon DEF TInv, RecordsTyped
<1>4. \A g \in 1..(Len(runs') - 1) : Past(g)'
  BY <1>1, Zenon DEF TInv, Past
<1>5. ASSUME NEW g, NEW row, NEW p, NEW st, NEW tr, NEW cp,
             Present(g, row, p, st, tr, cp, loop, caller)
      PROVE  Present(g, row, p, st, tr, cp, loop', caller)
  <2>1. /\ Invoking(loop) = Invoking(loop') /\ Position(loop') = "raised"
        /\ "raised" \notin Path /\ {"raised", "compose"} \subseteq SettledLabels
    BY <1>1, <1>2, Zenon DEF Invoking, Position, Path, SettledLabels, Starting, InContext, InPlanner,
                      InExecutor, InValidator, Executing
  <2>2. OnPath(Position(loop'), g, p, st, tr, cp)
    BY <2>1, OffPath, Zenon
  <2>. QED BY <1>1, <1>2, <1>5, <2>1, <2>2, ZenonT(30) DEF Present
<1>6. runs' # <<>> => Present(Len(runs'), runs'[Len(runs')], profiles'[Len(runs')],
                              steps'[Len(runs')], events'[Len(runs')],
                              checkpoints'[Len(runs')], loop', caller')
  BY <1>1, <1>5, Zenon DEF TInv
<1>7. item' = "cancelled" => /\ Mode = "queue" /\ runs' # <<>>
                             /\ Prompt(events'[Len(runs')], loop'.pc, workAtCancel')
  BY <1>1, <1>2, Zenon DEF TInv, Prompt, WorkLabels
<1>. QED BY <1>1, <1>3, <1>4, <1>6, <1>7, Zenon DEF TInv

\* A new generation: everything it starts with, and its predecessor past.
LEMMA StartRunTrace ==
  Laws /\ LInv /\ TInv /\ LInv' /\ StartRun => TInv'
  \* The start of a trace.
<1>FirstTraces. ASSUME Laws
                PROVE  Adds(FirstEvents, 0, 0, 0, 0, 0, 1, 0) /\ Clean(FirstEvents)
  <2> DEFINE a == StopEvent("task_analyzed", "none")
             b == StopEvent("candidates_discovered", "none")
             c == StopEvent("profile_emitted", "none")
             d == StopEvent("profile_validated", "none")
             e == StopEvent("checkpoint_created", "none")
             f == StopEvent("runtime_started", "none")
  <2>1. "none" \in Stops
    BY Zenon DEF Stops
  <2>2. /\ Adds(<<a>>, 0, 0, 0, 0, 0, 0, 0) /\ Adds(<<b>>, 0, 0, 0, 0, 0, 0, 0)
        /\ Adds(<<c>>, 0, 0, 0, 0, 0, 0, 0) /\ Adds(<<d>>, 0, 0, 0, 0, 0, 0, 0)
        /\ Adds(<<e>>, 0, 0, 0, 0, 0, 1, 0) /\ Adds(<<f>>, 0, 0, 0, 0, 0, 0, 0)
    BY <1>FirstTraces, <2>1, OneEvent, Zenon
  <2>3. Clean(<<a, b, c, d, e, f>>)
    BY DEF Clean, StopEvent
  <2>4. FirstEvents = <<a, b, c, d, e, f>>
    BY Zenon DEF FirstEvents, Event, StopEvent
  <2> HIDE DEF a, b, c, d, e, f
  <2>5. /\ <<a, b, c>> = <<a>> \o <<b, c>> /\ <<b, c>> = <<b>> \o <<c>>
        /\ <<d, e, f>> = <<d>> \o <<e, f>> /\ <<e, f>> = <<e>> \o <<f>>
        /\ <<a, b, c, d, e, f>> = <<a, b, c>> \o <<d, e, f>>
    <3>1. <<b, c>> = <<b>> \o <<c>> /\ <<e, f>> = <<e>> \o <<f>>
      BY PairLemma, Zenon
    <3>2. /\ <<a, b, c>> = <<a>> \o <<b, c>> /\ <<d, e, f>> = <<d>> \o <<e, f>>
          /\ <<a, b, c, d, e, f>> = <<a, b, c>> \o <<d, e, f>>
      OBVIOUS
    <3>. QED BY <3>1, <3>2, Zenon
  <2>6. Adds(<<b, c>>, 0, 0, 0, 0, 0, 0, 0) /\ Adds(<<e, f>>, 0, 0, 0, 0, 0, 1, 0)
    <3>1. /\ Adds(<<b>> \o <<c>>, 0 + 0, 0 + 0, 0 + 0, 0 + 0, 0 + 0, 0 + 0, 0 + 0)
          /\ Adds(<<e>> \o <<f>>, 0 + 0, 0 + 0, 0 + 0, 0 + 0, 0 + 0, 1 + 0, 0 + 0)
      BY <1>FirstTraces, <2>2, AddsBoth, Zenon
    <3>2. /\ Adds(<<b>> \o <<c>>, 0, 0, 0, 0, 0, 0, 0)
          /\ Adds(<<e>> \o <<f>>, 0, 0, 0, 0, 0, 1, 0)
      BY <3>1 DEF Adds
    <3>. QED BY <2>5, <3>2, ZenonT(30)
  <2>7. Adds(<<a, b, c>>, 0, 0, 0, 0, 0, 0, 0) /\ Adds(<<d, e, f>>, 0, 0, 0, 0, 0, 1, 0)
    <3>1. /\ Adds(<<a>> \o <<b, c>>, 0 + 0, 0 + 0, 0 + 0, 0 + 0, 0 + 0, 0 + 0, 0 + 0)
          /\ Adds(<<d>> \o <<e, f>>, 0 + 0, 0 + 0, 0 + 0, 0 + 0, 0 + 0, 0 + 1, 0 + 0)
      BY <1>FirstTraces, <2>2, <2>6, AddsBoth, Zenon
    <3>2. /\ Adds(<<a>> \o <<b, c>>, 0, 0, 0, 0, 0, 0, 0)
          /\ Adds(<<d>> \o <<e, f>>, 0, 0, 0, 0, 0, 1, 0)
      BY <3>1, SMTT(40) DEF Adds
    <3>. QED BY <2>5, <3>2, ZenonT(30)
  <2>8. Adds(<<a, b, c>> \o <<d, e, f>>, 0 + 0, 0 + 0, 0 + 0, 0 + 0, 0 + 0, 0 + 1, 0 + 0)
    BY <1>FirstTraces, <2>7, AddsBoth, Zenon
  <2>9. Adds(<<a, b, c>> \o <<d, e, f>>, 0, 0, 0, 0, 0, 1, 0)
    BY <2>8 DEF Adds
  <2>. QED BY <2>3, <2>4, <2>5, <2>9, ZenonT(30)
  \* A sequence with one more element.
<1>AppendLemma. ASSUME NEW S, NEW s \in Seq(S), NEW x \in S
                PROVE  /\ Append(s, x) \in Seq(S) /\ Len(Append(s, x)) = Len(s) + 1 /\ Len(s) \in Nat
                       /\ Append(s, x)[Len(s) + 1] = x
                       /\ \A g \in 1..Len(s) : Append(s, x)[g] = s[g]
    BY SMTT(40)
<1>1. ASSUME Laws, LInv, TInv, LInv', StartRun
      PROVE  TInv'
  <2> DEFINE n == Len(runs)
             st == [kind \in Range(Kinds) |-> NotStarted]
             cp == <<"composition">>
  <2>1. PICK p \in Profiles :
          /\ profiles' = Append(profiles, Sealed(p))
          /\ loop' = [NewLoop EXCEPT !.pc = "seal", !.counters = NewCounters(Sealed(p))]
    BY <1>1, Zenon DEF StartRun
  <2> DEFINE q == Sealed(p)
  <2>2. /\ loop.pc = "compose" /\ runs' = Append(runs, Running)
        /\ steps' = Append(steps, st) /\ events' = Append(events, FirstEvents)
        /\ checkpoints' = Append(checkpoints, cp)
        /\ item' = item /\ caller' = caller /\ workAtCancel' = workAtCancel
    BY <1>1, Zenon DEF StartRun, At, FirstEvents, cancellation
  <2>3. n \in Nat /\ Len(profiles) = n
    BY <1>1 DEF LInv
  <2>4. q.generation = n + 1 /\ q.limits \in Limits /\ q \in SealedProfiles
    <3>1. "generation" \in DOMAIN p
      BY ProfilesAssumption, Zenon
    <3>2. q = [p EXCEPT !.generation = n + 1]
      BY Zenon DEF Sealed, Gen
    <3>3. q \in SealedAs(n + 1)
      BY <3>2, Zenon DEF SealedAs
    <3>4. q \in SealedProfiles
      BY <2>3, <3>3 DEF SealedProfiles
    <3>5. q.generation = n + 1
      BY <3>1, <3>2, Zenon
    <3>. QED BY <3>4, <3>5, SealedLemma, Zenon DEF ProfileOK, Limits
  <2> HIDE DEF q
  <2>5. /\ loop'.pc = "seal" /\ loop'.actions = <<>>
        /\ loop'.counters = [tool_calls |-> 0, data_reads |-> 0, recompositions |-> n]
    <3>1. q.generation - 1 = n
      BY <2>3, <2>4
    <3>2. NewCounters(q) = [tool_calls |-> 0, data_reads |-> 0, recompositions |-> n]
      BY <3>1, Zenon DEF NewCounters
    <3>3. loop' = [NewLoop EXCEPT !.pc = "seal", !.counters = NewCounters(q)]
      BY <2>1, Zenon DEF q
    <3>. QED BY <3>2, <3>3, Zenon DEF NewLoop
  <2>6. /\ loop'.actions \in Seq(RepositoryReaders) /\ loop'.counters \in CounterRows
    BY <2>3, <2>5, SMTT(40) DEF CounterRows
  <2>7. /\ st \in [Range(Kinds) -> StepRows]
        /\ StepsAre(st, "absent", "absent", "absent", "absent")
        /\ cp \in Seq(Phases) /\ Len(cp) = 1
    <3>1. NotStarted \in StepRows /\ NotStarted.status = "absent"
      BY Zenon DEF NotStarted, StepRows, Stops
    <3>2. StepsAre(st, "absent", "absent", "absent", "absent")
      BY <3>1, KindsLemma, Zenon DEF StepsAre
    <3>3. cp \in Seq(Phases) /\ Len(cp) = 1
      BY DEF Phases
    <3>. QED BY <3>1, <3>2, <3>3, Zenon
  <2>8. Adds(FirstEvents, 0, 0, 0, 0, 0, 1, 0) /\ Clean(FirstEvents) /\ FirstEvents # <<>>
    <3>1. FirstEvents # <<>>
      BY Zenon DEF FirstEvents
    <3>. QED BY <1>1, <3>1, <1>FirstTraces, Zenon
  <2>9. FirstEvents \in Seq(Events) /\ Unended(FirstEvents)
    BY <2>8, Zenon DEF Adds
  <2> HIDE DEF st, cp
  <2>10. /\ runs \in Seq(Rows) /\ Running \in Rows
         /\ profiles \in Seq(SealedProfiles)
         /\ steps \in Seq([Range(Kinds) -> StepRows]) /\ Len(steps) = n
         /\ events \in Seq(Seq(Events)) /\ Len(events) = n
         /\ checkpoints \in Seq(Seq(Phases)) /\ Len(checkpoints) = n
         /\ workAtCancel \in Nat
    BY <1>1, ZenonT(30) DEF LInv, TInv, RecordsTyped, Rows
  <2>11. /\ Len(runs') = n + 1 /\ runs'[n + 1] = Running
         /\ \A g \in 1..n : runs'[g] = runs[g]
    BY <2>2, <2>10, <1>AppendLemma, SMTT(40)
  <2>12. /\ profiles'[n + 1] = q /\ \A g \in 1..n : profiles'[g] = profiles[g]
    <3>1. profiles' = Append(profiles, q)
      BY <2>1, Zenon DEF q
    <3>. QED BY <2>3, <2>4, <2>10, <3>1, <1>AppendLemma, SMTT(40)
  <2>13. /\ steps' \in Seq([Range(Kinds) -> StepRows]) /\ Len(steps') = n + 1
         /\ steps'[n + 1] = st /\ \A g \in 1..n : steps'[g] = steps[g]
    BY <2>2, <2>7, <2>10, <1>AppendLemma
  <2>14. /\ events' \in Seq(Seq(Events)) /\ Len(events') = n + 1
         /\ events'[n + 1] = FirstEvents /\ \A g \in 1..n : events'[g] = events[g]
    BY <2>2, <2>9, <2>10, <1>AppendLemma, SMTT(40)
  <2>15. /\ checkpoints' \in Seq(Seq(Phases)) /\ Len(checkpoints') = n + 1
         /\ checkpoints'[n + 1] = cp /\ \A g \in 1..n : checkpoints'[g] = checkpoints[g]
    BY <2>2, <2>7, <2>10, <1>AppendLemma, SMTT(40)
  <2>16. RecordsTyped'
    BY <2>6, <2>11, <2>13, <2>14, <2>15, Zenon DEF RecordsTyped
  <2>17. \A g \in 1..n : Past(g)
    <3> SUFFICES ASSUME NEW g \in 1..n PROVE Past(g)
      BY Zenon
    <3>1. CASE g < n
      BY <1>1, <2>3, <3>1 DEF TInv
    <3>2. CASE g = n
      <4>1. runs # <<>>
        BY <2>3, <3>2
      <4>2. Present(n, runs[n], profiles[n], steps[n], events[n], checkpoints[n], loop, caller)
        BY <1>1, <4>1, Zenon DEF TInv
      <4>3. Invoking(loop) = 0
        BY <2>2, Zenon DEF Invoking
      <4>4. /\ Kept(n, runs[n], profiles[n], steps[n], events[n], checkpoints[n], 0)
            /\ Recomposed(n, runs[n], profiles[n], events[n])
        BY <2>2, <4>2, <4>3, ZenonT(30) DEF Present
      <4>. QED BY <3>2, <4>4, Zenon DEF Past
    <3>. QED BY <2>3, <3>1, <3>2
  <2>18. \A g \in 1..(Len(runs') - 1) : Past(g)'
    <3> SUFFICES ASSUME NEW g \in 1..n PROVE Past(g)'
      BY <2>3, <2>11, SMTT(40)
    <3>1. /\ runs'[g] = runs[g] /\ profiles'[g] = profiles[g] /\ steps'[g] = steps[g]
          /\ events'[g] = events[g] /\ checkpoints'[g] = checkpoints[g]
      BY <2>11, <2>12, <2>13, <2>14, <2>15, Zenon
    <3>. QED BY <2>17, <3>1, Zenon DEF Past
  <2>19. /\ \A counted \in {"step_started", "step_completed", "tool_invocation_started",
                            "tool_invocation_completed", "runtime_after_tool_hook_evaluated",
                            "validator_executed"} : Tally(FirstEvents, {counted}) = 0
         /\ Tally(FirstEvents, {"checkpoint_created"}) = 1
    BY <2>8, Zenon DEF Adds
  <2>20. Kept(n + 1, Running, q, st, FirstEvents, cp, 0)
    <3>1. Cardinality(Unfinished(st)) = 0
      BY <1>1, <2>7, NoneOpen, Zenon
    <3>2. Accounts(st, FirstEvents, cp, 0)
      BY <2>7, <2>19, <3>1 DEF Accounts
    <3>3. EndsOnce(FirstEvents)
      BY <2>9 DEF Unended, EndsOnce
    <3>4. Work(FirstEvents) = 0
      BY <2>19 DEF Work
    <3>5. 0 <= q.limits.max_tool_calls /\ 0 <= q.limits.max_data_reads
      BY <2>4 DEF Limits
    <3>6. Running.status # "succeeded"
      BY Zenon DEF Running
    <3>. QED BY <2>8, <2>19, <3>2, <3>3, <3>4, <3>5, <3>6, Zenon DEF Kept
  <2>21. Spent(n + 1, q, FirstEvents, loop'.counters)
    <3>1. 0 <= q.limits.max_tool_calls /\ 0 <= q.limits.max_data_reads
      BY <2>4 DEF Limits
    <3>2. /\ loop'.counters.tool_calls = 0 /\ loop'.counters.data_reads = 0
          /\ loop'.counters.recompositions = (n + 1) - 1
      BY <2>3, <2>5, SMTT(40)
    <3>. QED BY <2>4, <2>19, <3>1, <3>2, SMTT(40) DEF Spent
  <2>22. OnPath("seal", n + 1, q, st, FirstEvents, cp)
    BY <2>7, <2>8, <2>19, ZenonT(30)
       DEF OnPath, Path, Starting, InContext, InPlanner, InExecutor, InValidator, Executing
  <2>23. Present(n + 1, Running, q, st, FirstEvents, cp, loop', caller')
    <3>1. /\ Invoking(loop') = 0 /\ Position(loop') = "seal" /\ "seal" \notin SettledLabels
      BY <2>5, ZenonT(30) DEF Invoking, Position, SettledLabels
    <3>. QED BY <2>5, <2>9, <2>20, <2>21, <2>22, <3>1, ZenonT(30) DEF Present, SettledLabels
  <2>24. item' # "cancelled"
    <3>1. item = "cancelled" => Mode = "queue" /\ runs # <<>>
      BY <1>1, Zenon DEF TInv
    <3>. QED BY <1>1, <2>2, <3>1, ZenonT(30) DEF LInv
  <2>25. Present(Len(runs'), runs'[Len(runs')], profiles'[Len(runs')], steps'[Len(runs')],
                 events'[Len(runs')], checkpoints'[Len(runs')], loop', caller')
    BY <2>11, <2>12, <2>13, <2>14, <2>15, <2>23, ZenonT(30)
  <2>. QED BY <2>2, <2>10, <2>16, <2>18, <2>24, <2>25, ZenonT(30) DEF TInv
<1>. QED BY <1>1, Zenon

\* The invariant holds at the start and is kept by every step.
LEMMA TraceInit ==
  ASSUME Init
  PROVE  TInv
<1>1. /\ runs = <<>> /\ steps = <<>> /\ events = <<>> /\ checkpoints = <<>>
      /\ item = "running" /\ workAtCancel = 0 /\ loop = NewLoop
  BY Zenon DEF Init
<1>2. loop.actions = <<>> /\ loop.counters \in CounterRows
  BY <1>1, Zenon DEF NewLoop, CounterRows
<1>3. RecordsTyped
  BY <1>1, <1>2 DEF RecordsTyped
<1>. QED BY <1>1, <1>3 DEF TInv

\* Every step keeps it.
LEMMA TraceStep ==
  ASSUME Laws, LInv, TInv, LInv', [Next]_vars
  PROVE  TInv'
<1>2. CASE LoopStep
  BY <1>2, StartRunTrace, StartFailsTrace, SilentSteps, PhaseSteps, ExecutorStartsLemma,
     ToolSteps, ExecutorSucceedsTrace, ValidatorStepTrace, EndSteps, Zenon
     DEF LoopStep
<1>. QED BY <1>2, CallerSteps, IdleSteps, Zenon DEF Next

\* What the invariant says of each generation.
LEMMA EveryGeneration ==
  ASSUME LInv, TInv, NEW g \in DOMAIN runs
  PROVE  /\ g \in 1..Gen /\ Gen \in Nat
         /\ events[g] \in Seq(Events) /\ checkpoints[g] \in Seq(Phases)
         /\ Kept(g, runs[g], profiles[g], steps[g], events[g], checkpoints[g],
                 IF g = Gen /\ At("invoked") THEN 1 ELSE 0)
         /\ g < Gen => Recomposed(g, runs[g], profiles[g], events[g])
         /\ g = Gen => Present(g, runs[g], profiles[g], steps[g], events[g], checkpoints[g],
                               loop, caller)
<1>1. g \in 1..Gen /\ Gen \in Nat /\ runs # <<>>
  BY DEF LInv, Gen
<1>2. events[g] \in Seq(Events) /\ checkpoints[g] \in Seq(Phases)
  BY <1>1 DEF TInv, RecordsTyped, Gen
<1>3. CASE g < Gen
  <2>1. Past(g)
    BY <1>1, <1>3, SMTT(40) DEF TInv, Gen
  <2>. QED BY <1>1, <1>2, <1>3, <2>1, SMTT(40) DEF Past
<1>4. CASE g = Gen
  <2>1. Present(g, runs[g], profiles[g], steps[g], events[g], checkpoints[g], loop, caller)
    BY <1>1, <1>4, Zenon DEF TInv, Gen
  <2>2. Invoking(loop) = IF g = Gen /\ At("invoked") THEN 1 ELSE 0
    BY <1>4, Zenon DEF Invoking, At
  <2>. QED BY <1>1, <1>2, <1>4, <2>1, <2>2, SMTT(60) DEF Present
<1>. QED BY <1>1, <1>3, <1>4, SMTT(40)

\* The counts of the properties are tallies of the traces.
LEMMA CountLemma == \A g, types : Count(g, types) = Tally(events[g], types)
  BY Zenon DEF Count, Tally

=============================================================================
