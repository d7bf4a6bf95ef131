---- MODULE CapabilityGaps ----
(***************************************************************************)
(* What the Tool Gateway does with a denial: the enforcer refuses a tool,  *)
(* a capability-gap candidate is built, checked and stored when the denial *)
(* is one to learn from, and the refused access is recorded with a link to *)
(* it.  Candidates are kept for review; none of them changes a profile.    *)
(***************************************************************************)
EXTENDS ProfileEnforcer

CONSTANTS
    Profiles,        \* profiles a run may have
    Adapters,        \* tools the gateway has an adapter for
    Requested,       \* tools that are asked for
    MaxInvocations   \* bound: invocations of a run

VARIABLES
    profile, counters,
    refused,    \* the denials raised, in order: [tool, error]
    gaps,       \* identifier -> candidate
    events,     \* access_attempted events, in order: [tool, reason, stop, link]
    calls

vars == <<profile, counters, refused, gaps, events, calls>>

Init ==
    /\ profile \in Profiles
    /\ counters = NewCounters(profile)
    /\ refused = <<>> /\ gaps = <<>> /\ events = <<>> /\ calls = 0

\* Codes of exceeded limits are written without their suffix, as in ProfileEnforcer.
EligiblePredicates ==
    {"tool_not_in_runtime_profile", "tool_risk_exceeds_profile", "policy_not_in_runtime_profile",
     "data_scope_not_in_runtime_profile", "knowledge_scope_not_in_runtime_profile",
     "memory_scope_not_in_runtime_profile", "max_tool_calls", "max_tokens", "max_data_reads",
     "max_memory_ops", "max_recompositions", "validator_failed", "selected_module_version_missing",
     "module_version_mismatch"}
StopReasonsMutant == {"policy_denied", "max_tokens", "max_tool_calls", "max_memory_ops", "max_recompositions", "validator_failed"}
StopReasons ==
    {"policy_denied", "max_tokens", "max_tool_calls", "max_data_reads", "max_memory_ops", "max_recompositions", "validator_failed"}

CapabilityKind(code) ==
    CASE code \in {"max_tool_calls", "max_data_reads", "max_duration"} -> "budget"
      [] code = "policy_not_in_runtime_profile" -> "policy"
      [] code = "data_scope_not_in_runtime_profile" -> "data_scope"
      [] OTHER -> "tool"
CapabilityId(code, tool) == IF CapabilityKind(code) = "budget" THEN code ELSE tool

\* _is_eligible_denial: a tool must be one the gateway knows.
IsEligibleDenial(code, tool) ==
    /\ code \in EligiblePredicates
    /\ CapabilityKind(code) = "tool" => CapabilityId(code, tool) \in Adapters

\* build_capability_gap_candidate, with the one access event as evidence.
Candidate(error, tool) ==
    [kind |-> CapabilityKind(error.code), capability |-> CapabilityId(error.code, tool), predicate |-> error.code,
     stop |-> error.stop, evidence |-> {tool}, status |-> "review_required", executable |-> FALSE]
CandidateId(c) == <<c.predicate, c.capability>>

\* validate_capability_gap_candidate raises on everything else.
CandidateHolds(c) ==
    /\ c.predicate \in EligiblePredicates /\ c.stop \in StopReasons
    /\ c.status = "review_required" /\ ~c.executable /\ c.evidence # {}

\* capture_capability_gap_candidate: a candidate of the same identifier is written over.
Capture(c) == gaps' = [i \in DOMAIN gaps \cup {CandidateId(c)} |-> IF i = CandidateId(c) THEN c ELSE gaps[i]]

\* _record_denied_access: the candidate first, then the event with the link.
RecordDeniedAccess(tool, error) ==
    LET c == Candidate(error, tool)
        event(link) == [tool |-> tool, reason |-> error.code, stop |-> error.stop, link |-> link]
    IN  IF ~IsEligibleDenial(error.code, tool)
        THEN events' = Append(events, event(<<>>)) /\ UNCHANGED gaps
        ELSE IF CandidateHolds(c)
        THEN /\ Capture(c)
             /\ events' = Append(events, event(CandidateId(c)))
        ELSE UNCHANGED <<gaps, events>>   \* the error leaves before the event is recorded

Invoke(tool, late) ==
    LET outcome == RecordToolInvocation(profile, counters, tool, late) IN
    /\ calls < MaxInvocations /\ calls' = calls + 1
    /\ counters' = outcome.counters
    /\ IF outcome.error = NoError THEN UNCHANGED <<refused, gaps, events>>
       ELSE /\ refused' = Append(refused, [tool |-> tool, error |-> outcome.error])
            /\ RecordDeniedAccess(tool, outcome.error)
    /\ UNCHANGED profile

Next == \E tool \in Requested, late \in BOOLEAN : Invoke(tool, late)

Spec == Init /\ [][Next]_vars

----
(* Properties *)

\* Learning never hides a denial: whatever the enforcer refuses, and for whatever reason, the refused
\* access is recorded, in order, with the enforcer's code and stop reason.
DenialsAreRecorded ==
    /\ Len(events) = Len(refused)
    /\ \A i \in DOMAIN events :
         events[i].tool = refused[i].tool /\ events[i].reason = refused[i].error.code /\ events[i].stop = refused[i].error.stop

\* An event's link leads to a stored candidate for the reason the event gives, and every candidate is
\* one some event names; denials of tools the gateway does not know leave none.
GapsFollowDenials ==
    /\ \A i \in DOMAIN events : events[i].link # <<>> =>
         events[i].link \in DOMAIN gaps /\ gaps[events[i].link].predicate = events[i].reason
    /\ \A g \in DOMAIN gaps : \E i \in DOMAIN events : events[i].link = g
    /\ \A g \in DOMAIN gaps : gaps[g].kind = "tool" => gaps[g].capability \in Adapters
====
