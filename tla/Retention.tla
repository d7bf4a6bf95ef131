---- MODULE Retention ----
(***************************************************************************)
(* "scas-runtime retention apply": a plan is made from one reading of the  *)
(* run records, and the artifacts of expired runs are deleted one by one   *)
(* while runs go on recording and a second cleanup may be at work.         *)
(***************************************************************************)
EXTENDS Naturals, FiniteSets

CONSTANTS
    Runs,
    Uris,
    Owner,          \* Uris -> Runs: the run whose records name the URI
    ForeignRefs,    \* second runs whose records name a URI
    Unresolvable,   \* URIs with a foreign scheme or an unsafe path
    Directories,    \* URIs that resolve to a directory
    Cleaners,
    DaysFor,        \* status -> days artifacts are kept
    ReportDays,     \* cleanup_report_artifact_days
    MaxTime,        \* bound: the last day
    MaxPasses       \* bound: cleanups started

ASSUME RetentionAssumption ==
    /\ Owner \in [Uris -> Runs]
    /\ ForeignRefs \subseteq Runs \X Uris
    /\ Unresolvable \subseteq Uris /\ Directories \subseteq Uris
    /\ DaysFor \in [{"succeeded", "failed", "cancelled"} -> Nat]
    /\ ReportDays \in Nat

VARIABLES
    now,       \* the day
    run,       \* runtime_runs: status and completed_at
    refs,      \* the artifact URIs in events, checkpoints, invocations, findings and candidates
    files,     \* the artifact root
    cleaner,   \* each cleanup process
    reports,   \* cleanup reports written, by day
    removed,   \* history: [uri, at] of each deletion
    passes,    \* cleanups started
    cleaned    \* history: the day the last confirmed cleanup was begun

vars == <<now, run, refs, files, cleaner, reports, removed, passes, cleaned>>

Results == {"deleted", "dry_run", "missing", "unsafe", "failed"}
Idle == [pc |-> "idle", dryRun |-> TRUE, strict |-> FALSE, at |-> 0, expired |-> {}, retained |-> {},
         todo |-> {}, uri |-> "none", result |-> [k \in Results |-> {}], errors |-> {}]

Init ==
    /\ now = 0
    /\ run = [r \in Runs |-> [status |-> "running", completed |-> 0]]
    /\ refs = {} /\ files = {}
    /\ cleaner = [c \in Cleaners |-> Idle]
    /\ reports = {} /\ removed = {} /\ passes = 0 /\ cleaned = 0

----
(* The runtime *)

Tick ==
    /\ now < MaxTime /\ now' = now + 1
    /\ UNCHANGED <<run, refs, files, cleaner, reports, removed, passes, cleaned>>

\* JsonArtifactStore.write_json, then the row that names the URI.
RecordArtifact(u) ==
    /\ run[Owner[u]].status = "running" /\ <<Owner[u], u>> \notin refs
    /\ files' = files \cup ({u} \ Unresolvable)
    /\ refs' = refs \cup {<<Owner[u], u>>} \cup {x \in ForeignRefs : x[2] = u}
    /\ UNCHANGED <<now, run, cleaner, reports, removed, passes, cleaned>>

CompleteRun(r, status) ==
    /\ run[r].status = "running"
    /\ run' = [run EXCEPT ![r] = [status |-> status, completed |-> now]]
    /\ UNCHANGED <<now, refs, files, cleaner, reports, removed, passes, cleaned>>

----
(* RuntimeRetentionPlanner *)

RunIsExpiredMutant(r) == run[r].completed + DaysFor["succeeded"] <= now
RunIsExpired(r) ==
    /\ run[r].status # "running"
    /\ run[r].completed + DaysFor[run[r].status] <= now

\* A URI may be on both sides of the plan.
Planned(expired) == {ref[2] : ref \in {x \in refs : RunIsExpired(x[1]) = expired}}

Plan(c, dryRun, strict) ==
    /\ cleaner[c].pc = "idle" /\ passes < MaxPasses
    /\ passes' = passes + 1
    /\ cleaner' = [cleaner EXCEPT ![c] =
           [Idle EXCEPT !.pc = "apply", !.dryRun = dryRun, !.strict = strict, !.at = now,
                        !.expired = Planned(TRUE), !.retained = Planned(FALSE), !.todo = Planned(TRUE)]]
    /\ UNCHANGED <<now, run, refs, files, reports, removed, cleaned>>

----
(* RuntimeRetentionExecutor *)

\* RuntimeArtifactUriResolver.resolve raises for these.
Resolves(u) == u \notin Unresolvable

Unsafe(c, u) == u \in cleaner[c].retained \/ ~Resolves(u) \/ u \in Directories

SettleMutant(c, u, k, isError) ==
    [cleaner[c] EXCEPT !.pc = "apply", !.uri = "none", !.result[k] = @ \cup {u}, !.errors = IF isError THEN @ \cup {u} ELSE @,
                       !.todo = IF k = "missing" THEN {} ELSE @ \ {u}]
Settle(c, u, k, isError) ==
    [cleaner[c] EXCEPT !.pc = "apply", !.uri = "none", !.result[k] = @ \cup {u}, !.errors = IF isError THEN @ \cup {u} ELSE @,
                       !.todo = @ \ {u}]

\* The checks for one URI, up to the unlink.
Check(c, u) ==
    /\ cleaner[c].pc = "apply" /\ u \in cleaner[c].todo
    /\ cleaner' = [cleaner EXCEPT ![c] =
           IF Unsafe(c, u) THEN Settle(c, u, "unsafe", TRUE)
           ELSE IF u \notin files THEN Settle(c, u, "missing", cleaner[c].strict)
           ELSE IF cleaner[c].dryRun THEN Settle(c, u, "dry_run", FALSE)
           ELSE [cleaner[c] EXCEPT !.pc = "unlink", !.uri = u]]
    /\ UNCHANGED <<now, run, refs, files, reports, removed, passes, cleaned>>

\* The file may have been deleted since, or refuse to be.
Unlink(c) ==
    LET u == cleaner[c].uri IN
    /\ cleaner[c].pc = "unlink"
    /\ \/ /\ u \in files
          /\ files' = files \ {u}
          /\ removed' = removed \cup {[uri |-> u, at |-> now]}
          /\ cleaner' = [cleaner EXCEPT ![c] = Settle(c, u, "deleted", FALSE)]
       \/ /\ cleaner' = [cleaner EXCEPT ![c] = Settle(c, u, "failed", TRUE)]
          /\ UNCHANGED <<files, removed>>
    /\ UNCHANGED <<now, run, refs, reports, passes, cleaned>>

\* The report is written under the second it was begun in; none is ever deleted.
WriteReport(c) ==
    /\ cleaner[c].pc = "apply" /\ cleaner[c].todo = {}
    /\ reports' = reports \cup {cleaner[c].at}
    /\ cleaner' = [cleaner EXCEPT ![c].pc = "done"]
    /\ cleaned' = IF cleaner[c].dryRun THEN cleaned ELSE cleaner[c].at
    /\ UNCHANGED <<now, run, refs, files, removed, passes>>

Exit(c) ==
    /\ cleaner[c].pc = "done"
    /\ cleaner' = [cleaner EXCEPT ![c] = Idle]
    /\ UNCHANGED <<now, run, refs, files, reports, removed, passes, cleaned>>

\* The command is interrupted; there is no report.
Interrupt(c) ==
    /\ cleaner[c].pc \in {"apply", "unlink"}
    /\ cleaner' = [cleaner EXCEPT ![c] = Idle]
    /\ UNCHANGED <<now, run, refs, files, reports, removed, passes, cleaned>>

Next ==
    \/ Tick
    \/ \E u \in Uris : RecordArtifact(u)
    \/ \E r \in Runs, s \in DOMAIN DaysFor : CompleteRun(r, s)
    \/ \E c \in Cleaners :
         \/ \E dryRun, strict \in BOOLEAN : Plan(c, dryRun, strict)
         \/ \E u \in Uris : Check(c, u)
         \/ Unlink(c) \/ WriteReport(c) \/ Exit(c) \/ Interrupt(c)

Spec == Init /\ [][Next]_vars

----
(* Properties *)

\* "Confirmed apply deletes only expired artifact files that resolve under the configured artifact
\* root": whatever ran between plan and unlink, every run that names a deleted URI was over and its
\* period had passed.
OnlyExpiredIsDeleted ==
    \A d \in removed :
       /\ d.uri \notin Unresolvable \cup Directories
       /\ \A r \in Runs : <<r, d.uri>> \in refs =>
             run[r].status # "running" /\ run[r].completed + DaysFor[run[r].status] <= d.at

\* A report accounts once for every URI of its plan, and its command fails exactly when something
\* was unsafe, failed, or missing in strict mode, even with another cleanup at work on the same files.
ReportIsComplete ==
    \A c \in Cleaners : cleaner[c].pc = "done" =>
       LET res == cleaner[c].result IN
       /\ UNION {res[k] : k \in Results} = cleaner[c].expired
       /\ \A k, l \in Results : k # l => res[k] \cap res[l] = {}
       /\ cleaner[c].errors = res["unsafe"] \cup res["failed"] \cup (IF cleaner[c].strict THEN res["missing"] ELSE {})

----
(* Statements of the documents that the code does not keep. *)

\* "the cleanup mechanism does not create unbounded report artifacts": after a confirmed
\* cleanup no report is left that was older than its period on the day the cleanup was begun.
ReportsExpire == \A day \in reports : cleaned < day + ReportDays
====
