---------------------------- MODULE RuntimeQueue ----------------------------
(***************************************************************************)
(* The runtime run queue: RuntimeQueueManager and RuntimeQueueWorker       *)
(* (runtime/queue.py) over InMemoryRuntimeStore (runtime/storage_memory.py)*)
(* with several worker threads, callers of the Runtime API (cancel, retry) *)
(* and stale-claim recovery.                                               *)
(*                                                                         *)
(* One action is one store call, because each store call runs under the    *)
(* store's lock (or is one dict operation) and everything between two calls*)
(* is local to its thread.  process_one is therefore a chain of actions    *)
(* whose position is proc[c].pc; the mark_cancelled chain is shared by     *)
(* the workers and by the API callers, as it is in the code.               *)
(***************************************************************************)
EXTENDS Naturals, Sequences, FiniteSets

CONSTANTS
  Workers,            \* worker threads (RuntimeQueueWorker.worker_id)
  Callers,            \* API or CLI callers of cancel
  Tasks,              \* task ids
  Tenants,            \* tenant ids
  TenantOf,           \* the tenant of each task: [Tasks -> Tenants]
  GlobalRunningLimit, \* RuntimeQueueConfig.global_running_limit
  TenantRunningLimit, \* RuntimeQueueConfig.tenant_running_limits
  MaxAttempts,        \* max_attempts of every queue item
  AttemptBound,       \* bound of the model: no claim beyond this attempt
  RetryDepth,         \* bound of the model: manual retries of manual retries
  Checkpoints,        \* cancellation checkpoints the loop passes
  Operations,         \* what the environment does: "cancel", "retry", "recover"
  Faults              \* {"uncaught"} when exceptions may escape process_one

ASSUME ConstantsAssumption ==
  /\ Workers \cap Callers = {}
  /\ TenantOf \in [Tasks -> Tenants]
  /\ GlobalRunningLimit \in Nat
  /\ TenantRunningLimit \in [Tenants -> Nat]
  /\ MaxAttempts \in Nat \ {0}
  /\ AttemptBound \in Nat
  /\ AttemptBound >= MaxAttempts
  /\ RetryDepth \in Nat
  /\ Checkpoints \in Nat \ {0}

VARIABLES
  items,     \* runtime_queue_items, by queue id
  runs,      \* runtime_runs: status by run id
  attempts,  \* runtime_run_attempts, by attempt id <<q, n>>
  claims,    \* ids <<q, w, n>> of runtime_run_claims with released_at NULL
  letters,   \* ids <<q, n>> of runtime_dead_letters
  quota,     \* runtime_quota_reservations: status by <<q, n>>
  proc       \* the local state of each thread

vars == <<items, runs, attempts, claims, letters, quota, proc>>

(***************************************************************************)
(* Identifiers.  enqueue derives the queue id from the idempotency key: the *)
(* task's key, then one ":manual-retry:<attempts+1>" suffix per manual     *)
(* retry.  Run, attempt and claim ids are derived as in the claim.         *)
(***************************************************************************)
AttemptNumbers == 1..AttemptBound
RetrySuffixes == UNION {[1..d -> 1..(AttemptBound + 1)] : d \in 0..RetryDepth}
QueueIds == Tasks \X RetrySuffixes
InitialId(t) == <<t, <<>>>>
TaskOf(q) == q[1]
RetryId(q) == <<TaskOf(q), Append(q[2], items[q].attempts + 1)>>
RunId(q, n) == <<TaskOf(q), n>>
RunIds == Tasks \X AttemptNumbers
AttemptIds == QueueIds \X AttemptNumbers

QueueStatuses == {"absent", "queued", "claiming", "running", "succeeded",
                  "failed", "cancelled", "retry_scheduled", "dead_lettered"}
\* Mutant: a claimed item can be claimed again.
ClaimableStatusesMutant == {"queued", "claiming", "retry_scheduled"}
ClaimableStatuses == {"queued", "retry_scheduled"}
RunningStatuses == {"claiming", "running"}
UncancellableStatuses == {"succeeded", "failed", "dead_lettered"}
RetryableStatuses == {"failed", "cancelled", "dead_lettered"}
TerminalStatuses == UncancellableStatuses \cup {"cancelled"}
RunStatuses == {"absent", "running", "succeeded", "failed", "cancelled"}
TerminalRunStatuses == {"succeeded", "failed", "cancelled"}

Actors == Workers \cup Callers
NoItem == <<>>

(***************************************************************************)
(* An item's claimed_until is "none" (NULL), "live" (in the future) or     *)
(* "expired"; due says scheduled_at <= now.  LeaseExpires and ComesDue let *)
(* time pass.  run is the attempt number in the item's run_id, 0 for NULL. *)
(***************************************************************************)
AbsentItem == [status |-> "absent", attempts |-> 0, run |-> 0,
               lease |-> "none", due |-> FALSE]
QueuedItem == [AbsentItem EXCEPT !.status = "queued", !.due = TRUE]
NoAttempt == [status |-> "absent", completed |-> FALSE]
IdleProc == [pc |-> "idle", q |-> NoItem, n |-> 0, left |-> 0,
             reserved |-> FALSE, result |-> "none"]

WorkerPcs == {"idle", "start", "mark_running", "reserve", "heartbeat",
              "check", "check_item", "phase", "complete", "loop_fail", "fail_read",
              "fail_write", "fail_item", "dead_letter", "mark_succeeded",
              "finalize", "cancel_run", "cancel_read", "cancel_update",
              "cancel_release", "cancel_run_read", "cancel_run_write",
              "attempt", "claim", "refund", "dead"}
CallerPcs == {"idle", "cancel_update", "cancel_release",
              "cancel_run_read", "cancel_run_write"}

Init ==
  /\ items = [q \in QueueIds |-> AbsentItem]
  /\ runs = [r \in RunIds |-> "absent"]
  /\ attempts = [a \in AttemptIds |-> NoAttempt]
  /\ claims = {}
  /\ letters = {}
  /\ quota = [a \in AttemptIds |-> "none"]
  /\ proc = [c \in Actors |-> IdleProc]

At(c, label) == proc[c].pc = label
SetProc(c, record) == proc' = [proc EXCEPT ![c] = record]
Goto(c, label) == SetProc(c, [proc[c] EXCEPT !.pc = label])
SetItem(q, record) == items' = [items EXCEPT ![q] = record]

-----------------------------------------------------------------------------
(* Intake.                                                                 *)

\* insert_runtime_queue_item returns the stored item when its key is known.
InsertRuntimeQueueItem(q) ==
  IF items[q].status = "absent" THEN SetItem(q, QueuedItem)
                                ELSE UNCHANGED items

Enqueue(t) ==
  /\ items[InitialId(t)].status = "absent"   \* a repeated key changes nothing here
  /\ InsertRuntimeQueueItem(InitialId(t))
  /\ UNCHANGED <<runs, attempts, claims, letters, quota, proc>>

\* Manual retry: the status is read, then enqueue inserts under the retry key.
\* Nothing reads the new row before it is inserted, so the read and the
\* insertion are one step.
Retry(q) ==
  /\ "retry" \in Operations
  /\ items[q].status \in RetryableStatuses
  /\ RetryId(q) \in QueueIds
  /\ InsertRuntimeQueueItem(RetryId(q))
  /\ UNCHANGED <<runs, attempts, claims, letters, quota, proc>>

-----------------------------------------------------------------------------
(* Time and stale-claim recovery.                                          *)

\* Only the recovery reads claimed_until.
LeaseExpires(q) ==
  /\ "recover" \in Operations
  /\ items[q].lease = "live"
  /\ SetItem(q, [items[q] EXCEPT !.lease = "expired"])
  /\ UNCHANGED <<runs, attempts, claims, letters, quota, proc>>

ComesDue(q) ==
  /\ items[q].status \in ClaimableStatuses
  /\ ~items[q].due
  /\ SetItem(q, [items[q] EXCEPT !.due = TRUE])
  /\ UNCHANGED <<runs, attempts, claims, letters, quota, proc>>

Stale == {q \in QueueIds : items[q].status \in RunningStatuses
                             /\ items[q].lease = "expired"}

\* _active_claim_for_queue: the first unreleased claim in insertion order,
\* which for one item is the order of its attempts.
ActiveClaimForQueue(q) ==
  {c \in claims : c[1] = q /\ \A d \in claims : d[1] = q => c[3] <= d[3]}

\* Mutant: a recovered item starts counting its attempts again.
RecoverStaleClaimsMutant ==
  /\ "recover" \in Operations
  /\ Stale # {}
  /\ items' = [q \in QueueIds |->
                 IF q \in Stale
                 THEN [items[q] EXCEPT !.status = "retry_scheduled",
                                       !.attempts = 0, !.lease = "none"]
                 ELSE items[q]]
  /\ claims' = claims \ UNION {ActiveClaimForQueue(q) : q \in Stale}
  /\ UNCHANGED <<runs, attempts, letters, quota, proc>>

RecoverStaleClaims ==
  /\ "recover" \in Operations
  /\ Stale # {}
  /\ items' = [q \in QueueIds |->
                 IF q \in Stale
                 THEN [items[q] EXCEPT !.status = "retry_scheduled",
                                       !.lease = "none"]
                 ELSE items[q]]
  /\ claims' = claims \ UNION {ActiveClaimForQueue(q) : q \in Stale}
  /\ UNCHANGED <<runs, attempts, letters, quota, proc>>

-----------------------------------------------------------------------------
(* Claiming.                                                               *)

RunningCount(S) ==
  Cardinality({q \in S : items[q].status \in RunningStatuses})
TenantItems(tenant) == {q \in QueueIds : TenantOf[TaskOf(q)] = tenant}

\* Mutant: the tenant's running limit is not looked at.
ClaimableMutant(q) ==
  /\ items[q].status \in ClaimableStatuses
  /\ items[q].due

\* The candidates of the claim.  Their order (priority, scheduled_at,
\* created_at, id) is abstracted: any candidate may come first.
Claimable(q) ==
  /\ items[q].status \in ClaimableStatuses
  /\ items[q].due
  /\ RunningCount(TenantItems(TenantOf[TaskOf(q)]))
       < TenantRunningLimit[TenantOf[TaskOf(q)]]

ClaimNextRuntimeQueueAttempt(w, q) ==
  LET n == items[q].attempts + 1 IN
  /\ At(w, "idle")
  /\ RunningCount(QueueIds) < GlobalRunningLimit
  /\ Claimable(q)
  /\ n \in AttemptNumbers
  /\ SetItem(q, [items[q] EXCEPT !.status = "claiming", !.attempts = n,
                                 !.lease = "live", !.run = n])
  /\ attempts' = [attempts EXCEPT ![<<q, n>>] =
                    [status |-> "running", completed |-> FALSE]]
  /\ claims' = claims \cup {<<q, w, n>>}
  /\ SetProc(w, [IdleProc EXCEPT !.pc = "start", !.q = q, !.n = n,
                                 !.left = Checkpoints])
  /\ UNCHANGED <<runs, letters, quota>>

-----------------------------------------------------------------------------
(* process_one after the claim, up to the runtime loop.                    *)

\* RuntimeEntryPoint.start: the run row is inserted, over any older row with
\* the same id; or loading, tenant status or composition fails first.
StartRun(w) ==
  /\ At(w, "start")
  /\ runs' = [runs EXCEPT ![RunId(proc[w].q, proc[w].n)] = "running"]
  /\ Goto(w, "mark_running")
  /\ UNCHANGED <<items, attempts, claims, letters, quota>>

StartFails(w) ==
  /\ At(w, "start")
  /\ Goto(w, "fail_read")
  /\ UNCHANGED <<items, runs, attempts, claims, letters, quota>>

\* An exception outside the caught tuple leaves process_one and run_forever.
UncaughtError(w) ==
  /\ "uncaught" \in Faults
  /\ proc[w].pc \in {"start", "phase"}
  /\ Goto(w, "dead")
  /\ UNCHANGED <<items, runs, attempts, claims, letters, quota>>

\* mark_running, and the attempt's profile fields.
MarkRunning(w) ==
  /\ At(w, "mark_running")
  /\ SetItem(proc[w].q, [items[proc[w].q] EXCEPT !.status = "running",
                                                 !.run = proc[w].n])
  /\ Goto(w, "reserve")
  /\ UNCHANGED <<runs, attempts, claims, letters, quota>>

\* RuntimeQuotaManager.reserve, or RuntimeQuotaError.
Reserve(w) ==
  /\ At(w, "reserve")
  /\ quota' = [quota EXCEPT ![<<proc[w].q, proc[w].n>>] = "reserved"]
  /\ SetProc(w, [proc[w] EXCEPT !.pc = "heartbeat", !.reserved = TRUE])
  /\ UNCHANGED <<items, runs, attempts, claims, letters>>

QuotaExhausted(w) ==
  /\ At(w, "reserve")
  /\ Goto(w, "fail_read")
  /\ UNCHANGED <<items, runs, attempts, claims, letters, quota>>

\* The one heartbeat of process_one, then the start of the loop: a broken
\* profile seal raises RuntimeLoopError before the loop touches the run, and a
\* profile that fails validate_profile_for_runtime is an error it handles.
Heartbeat(w) ==
  /\ At(w, "heartbeat")
  /\ SetItem(proc[w].q, [items[proc[w].q] EXCEPT !.lease = "live"])
  /\ \E next \in {"check", "loop_fail", "fail_read"} : Goto(w, next)
  /\ UNCHANGED <<runs, attempts, claims, letters, quota>>

-----------------------------------------------------------------------------
(* The runtime loop as the queue sees it.                                  *)

\* _raise_if_cancelled reads the run, then, through the worker's
\* cancellation_checker, the item.
RaiseIfRunCancelled(w) ==
  /\ At(w, "check")
  /\ Goto(w, IF runs[RunId(proc[w].q, proc[w].n)] = "cancelled"
             THEN "cancel_run" ELSE "check_item")
  /\ UNCHANGED <<items, runs, attempts, claims, letters, quota>>

RaiseIfItemCancelled(w) ==
  /\ At(w, "check_item")
  /\ IF items[proc[w].q].status = "cancelled"
     THEN Goto(w, "cancel_run")
     ELSE SetProc(w, [proc[w] EXCEPT !.pc = "phase", !.left = @ - 1])
  /\ UNCHANGED <<items, runs, attempts, claims, letters, quota>>

\* A phase ends: at the next checkpoint, after the last one, or in an error
\* the loop handles.
Phase(w) ==
  /\ At(w, "phase")
  /\ \/ proc[w].left > 0 /\ Goto(w, "check")
     \/ proc[w].left = 0 /\ Goto(w, "complete")
     \/ Goto(w, "loop_fail")
  /\ UNCHANGED <<items, runs, attempts, claims, letters, quota>>

\* FlightRecorder.complete_run: one write, whatever the run's status is.
CompleteRun(w, label, status, next) ==
  /\ At(w, label)
  /\ runs' = [runs EXCEPT ![RunId(proc[w].q, proc[w].n)] = status]
  /\ Goto(w, next)
  /\ UNCHANGED <<items, attempts, claims, letters, quota>>

LoopSucceeds(w) == CompleteRun(w, "complete", "succeeded", "mark_succeeded")
LoopFails(w) == CompleteRun(w, "loop_fail", "failed", "fail_read")
LoopCancels(w) == CompleteRun(w, "cancel_run", "cancelled", "cancel_read")

-----------------------------------------------------------------------------
(* The failure path of process_one.                                        *)

FailRead(w) ==
  /\ At(w, "fail_read")
  /\ Goto(w, IF runs[RunId(proc[w].q, proc[w].n)] = "running"
             THEN "fail_write" ELSE "fail_item")
  /\ UNCHANGED <<items, runs, attempts, claims, letters, quota>>

FailWrite(w) == CompleteRun(w, "fail_write", "failed", "fail_item")

\* mark_failed_or_retry decides on the item as it was claimed.
FailedStatus(n) == IF n < MaxAttempts THEN "retry_scheduled" ELSE "dead_lettered"

\* Mutant: no dead letter for an exhausted item.
MarkFailedOrRetryMutant(w) ==
  LET status == FailedStatus(proc[w].n) IN
  /\ At(w, "fail_item")
  /\ SetItem(proc[w].q, [items[proc[w].q] EXCEPT !.status = status,
                                                 !.run = proc[w].n,
                                                 !.due = FALSE,
                                                 !.lease = "none"])
  /\ SetProc(w, [proc[w] EXCEPT !.pc = "attempt", !.result = "failed"])
  /\ UNCHANGED <<runs, attempts, claims, letters, quota>>

MarkFailedOrRetry(w) ==
  LET status == FailedStatus(proc[w].n) IN
  /\ At(w, "fail_item")
  /\ SetItem(proc[w].q, [items[proc[w].q] EXCEPT !.status = status,
                                                 !.run = proc[w].n,
                                                 !.due = FALSE,
                                                 !.lease = "none"])
  /\ SetProc(w, [proc[w] EXCEPT
       !.pc = IF status = "dead_lettered" THEN "dead_letter" ELSE "attempt",
       !.result = "failed"])
  /\ UNCHANGED <<runs, attempts, claims, letters, quota>>

InsertRuntimeDeadLetter(w) ==
  /\ At(w, "dead_letter")
  /\ letters' = letters \cup {<<proc[w].q, proc[w].n>>}
  /\ Goto(w, "attempt")
  /\ UNCHANGED <<items, runs, attempts, claims, quota>>

-----------------------------------------------------------------------------
(* The success path of process_one.                                        *)

\* Mutant: the success is not written to the item.
MarkSucceededMutant(w) ==
  /\ At(w, "mark_succeeded")
  /\ SetProc(w, [proc[w] EXCEPT !.pc = "finalize", !.result = "succeeded"])
  /\ UNCHANGED <<items, runs, attempts, claims, letters, quota>>

\* mark_succeeded leaves the claim fields of the item as they are.
MarkSucceeded(w) ==
  /\ At(w, "mark_succeeded")
  /\ SetItem(proc[w].q, [items[proc[w].q] EXCEPT !.status = "succeeded",
                                                 !.run = proc[w].n])
  /\ SetProc(w, [proc[w] EXCEPT !.pc = "finalize", !.result = "succeeded"])
  /\ UNCHANGED <<runs, attempts, claims, letters, quota>>

Finalize(w) ==
  /\ At(w, "finalize")
  /\ quota' = [quota EXCEPT ![<<proc[w].q, proc[w].n>>] =
                 IF proc[w].reserved THEN "finalized" ELSE @]
  /\ Goto(w, "attempt")
  /\ UNCHANGED <<items, runs, attempts, claims, letters>>

-----------------------------------------------------------------------------
(* mark_cancelled, called by an API caller or by a worker whose loop saw   *)
(* the cancellation.                                                       *)

\* A caller's read: a cancelled item is returned and a terminal one raises
\* RuntimeQueueError, so only the others go on.
CallerCancelRead(c, q) ==
  /\ "cancel" \in Operations
  /\ At(c, "idle")
  /\ items[q].status \notin TerminalStatuses \cup {"absent"}
  /\ SetProc(c, [proc[c] EXCEPT !.pc = "cancel_update", !.q = q])
  /\ UNCHANGED <<items, runs, attempts, claims, letters, quota>>

\* A worker's read stands outside the try block of process_one: the
\* RuntimeQueueError of a terminal item ends the worker.
WorkerCancelRead(w) ==
  LET status == items[proc[w].q].status IN
  /\ At(w, "cancel_read")
  /\ SetProc(w, [proc[w] EXCEPT
       !.pc = CASE status = "cancelled" -> "attempt"
                [] status \in UncancellableStatuses -> "dead"
                [] OTHER -> "cancel_update",
       !.result = "cancelled"])
  /\ UNCHANGED <<items, runs, attempts, claims, letters, quota>>

CancelUpdate(c) ==
  /\ At(c, "cancel_update")
  /\ SetItem(proc[c].q, [items[proc[c].q] EXCEPT
       !.status = "cancelled",
       !.lease = "none",
       !.run = IF c \in Workers THEN proc[c].n ELSE @])
  /\ Goto(c, "cancel_release")
  /\ UNCHANGED <<runs, attempts, claims, letters, quota>>

ReleaseRuntimeQueueClaims(c) ==
  /\ At(c, "cancel_release")
  /\ claims' = {k \in claims : k[1] # proc[c].q}
  /\ Goto(c, "cancel_run_read")
  /\ UNCHANGED <<items, runs, attempts, letters, quota>>

\* A worker returns to process_one, a caller returns.
CancelReturns(c) ==
  SetProc(c, IF c \in Workers THEN [proc[c] EXCEPT !.pc = "attempt"]
                               ELSE IdleProc)

\* The run that mark_cancelled cancels: run_id or item["run_id"], where item
\* is the live record of the store.
EffectiveRun(c) == IF c \in Workers THEN proc[c].n ELSE items[proc[c].q].run

CancelRunRead(c) ==
  LET n == EffectiveRun(c) IN
  /\ At(c, "cancel_run_read")
  /\ IF n # 0 /\ runs[RunId(proc[c].q, n)] = "running"
     THEN SetProc(c, [proc[c] EXCEPT !.pc = "cancel_run_write", !.n = n])
     ELSE CancelReturns(c)
  /\ UNCHANGED <<items, runs, attempts, claims, letters, quota>>

CancelRunWrite(c) ==
  /\ At(c, "cancel_run_write")
  /\ runs' = [runs EXCEPT ![RunId(proc[c].q, proc[c].n)] = "cancelled"]
  /\ CancelReturns(c)
  /\ UNCHANGED <<items, attempts, claims, letters, quota>>

-----------------------------------------------------------------------------
(* The records of the attempt, common to the three outcomes.               *)

\* The status written is stored["status"], and stored is the live record.
UpdateRuntimeRunAttempt(w) ==
  /\ At(w, "attempt")
  /\ attempts' = [attempts EXCEPT ![<<proc[w].q, proc[w].n>>] =
                    [status |-> items[proc[w].q].status, completed |-> TRUE]]
  /\ Goto(w, "claim")
  /\ UNCHANGED <<items, runs, claims, letters, quota>>

\* Mutant: the reservation of a failed or cancelled attempt is not refunded.
UpdateRuntimeRunClaimMutant(w) ==
  /\ At(w, "claim")
  /\ claims' = claims \ {<<proc[w].q, w, proc[w].n>>}
  /\ SetProc(w, IdleProc)
  /\ UNCHANGED <<items, runs, attempts, letters, quota>>

UpdateRuntimeRunClaim(w) ==
  /\ At(w, "claim")
  /\ claims' = claims \ {<<proc[w].q, w, proc[w].n>>}
  /\ SetProc(w, IF proc[w].reserved /\ proc[w].result # "succeeded"
                THEN [proc[w] EXCEPT !.pc = "refund"] ELSE IdleProc)
  /\ UNCHANGED <<items, runs, attempts, letters, quota>>

Refund(w) ==
  /\ At(w, "refund")
  /\ quota' = [quota EXCEPT ![<<proc[w].q, proc[w].n>>] = "refunded"]
  /\ SetProc(w, IdleProc)
  /\ UNCHANGED <<items, runs, attempts, claims, letters>>

-----------------------------------------------------------------------------
MarkCancelled(c) ==
  \/ CancelUpdate(c) \/ ReleaseRuntimeQueueClaims(c)
  \/ CancelRunRead(c) \/ CancelRunWrite(c)

\* What a worker does between its claim and its return to run_forever.
ProcessOne(w) ==
  \/ StartRun(w) \/ StartFails(w) \/ MarkRunning(w)
  \/ Reserve(w) \/ QuotaExhausted(w) \/ Heartbeat(w)
  \/ RaiseIfRunCancelled(w) \/ RaiseIfItemCancelled(w) \/ Phase(w)
  \/ LoopSucceeds(w) \/ LoopFails(w) \/ LoopCancels(w)
  \/ FailRead(w) \/ FailWrite(w) \/ MarkFailedOrRetry(w)
  \/ InsertRuntimeDeadLetter(w) \/ MarkSucceeded(w) \/ Finalize(w)
  \/ WorkerCancelRead(w) \/ MarkCancelled(w)
  \/ UpdateRuntimeRunAttempt(w) \/ UpdateRuntimeRunClaim(w) \/ Refund(w)

Claim(w) == \E q \in QueueIds : ClaimNextRuntimeQueueAttempt(w, q)

Next ==
  \/ \E t \in Tasks : Enqueue(t)
  \/ \E q \in QueueIds : Retry(q) \/ LeaseExpires(q) \/ ComesDue(q)
  \/ RecoverStaleClaims
  \/ \E w \in Workers : Claim(w) \/ ProcessOne(w) \/ UncaughtError(w)
  \/ \E c \in Callers : \/ \E q \in QueueIds : CallerCancelRead(c, q)
                        \/ MarkCancelled(c)

Spec == Init /\ [][Next]_vars

-----------------------------------------------------------------------------
(* Properties.                                                             *)

ItemRecords == [status : QueueStatuses, attempts : 0..AttemptBound,
                run : 0..AttemptBound, lease : {"none", "live", "expired"},
                due : BOOLEAN]
AttemptRecords == [status : QueueStatuses, completed : BOOLEAN]
ProcRecords == [pc : WorkerPcs, q : QueueIds \cup {NoItem},
                n : 0..AttemptBound, left : 0..Checkpoints,
                reserved : BOOLEAN,
                result : {"none", "succeeded", "failed", "cancelled"}]

\* Every record has a status of the code's vocabulary, and every thread is
\* at a label of its procedure.
TypeOK ==
  /\ items \in [QueueIds -> ItemRecords]
  /\ runs \in [RunIds -> RunStatuses]
  /\ attempts \in [AttemptIds -> AttemptRecords]
  /\ claims \subseteq QueueIds \X Workers \X AttemptNumbers
  /\ letters \subseteq AttemptIds
  /\ quota \in [AttemptIds -> {"none", "reserved", "finalized", "refunded"}]
  /\ proc \in [Actors -> ProcRecords]

Busy(w) == proc[w].pc # "idle"

\* The worker has a cancellation checkpoint of the loop ahead of it.
AwaitingPcs == {"start", "mark_running", "reserve", "heartbeat", "check",
                "check_item"}
AwaitsCheck(w) == proc[w].pc \in AwaitingPcs

\* What the threads rely on: a busy worker holds an attempt that its item has
\* handed out, a caller in mark_cancelled holds an item that exists.
ThreadsHoldItems ==
  /\ \A w \in Workers : Busy(w) =>
       /\ proc[w].q \in QueueIds
       /\ proc[w].n \in AttemptNumbers
       /\ items[proc[w].q].status # "absent"
       /\ proc[w].n <= items[proc[w].q].attempts
  /\ \A w \in Workers : AwaitsCheck(w) => proc[w].left > 0
  /\ \A c \in Callers :
       /\ proc[c].pc \in CallerPcs
       /\ Busy(c) => /\ proc[c].q \in QueueIds
                     /\ items[proc[c].q].status # "absent"
       /\ At(c, "cancel_run_write") => proc[c].n \in AttemptNumbers

\* The labels at which process_one has not yet written the item's outcome.
ExecutingPcs == {"start", "mark_running", "reserve", "heartbeat", "check",
                 "check_item", "phase", "complete", "loop_fail", "fail_read", "fail_write",
                 "fail_item", "mark_succeeded", "cancel_run", "cancel_read",
                 "cancel_update"}
Executing(w) == proc[w].pc \in ExecutingPcs

\* An attempt number of a queue item is handed to one worker only, ever: the
\* claim raises attempts under the store's lock.  Holds with cancellation,
\* manual retry and stale recovery racing the workers.
OneWorkerPerAttempt ==
  \A v, w \in Workers :
    (v # w /\ Busy(v) /\ Busy(w) /\ proc[v].q = proc[w].q)
      => proc[v].n # proc[w].n

\* Without stale recovery a queue item is executed by one worker at a time:
\* a claim needs a claimable status, and until the worker writes the outcome
\* only a cancellation can change the status.
SingleExecutor ==
  \A v, w \in Workers :
    (v # w /\ Executing(v) /\ Executing(w)) => proc[v].q # proc[w].q

\* What an attempt opens, process_one closes: an active claim row, an attempt
\* row without completed_at and a quota reservation that is still reserved
\* belong to a worker that is still at that attempt (or died in it).
Open(q, n) ==
  \/ \E w \in Workers : <<q, w, n>> \in claims
  \/ attempts[<<q, n>>].status # "absent" /\ ~attempts[<<q, n>>].completed
  \/ quota[<<q, n>>] = "reserved"

AttemptsAreSettled ==
  \A q \in QueueIds : \A n \in AttemptNumbers :
    Open(q, n) => \E w \in Workers : Busy(w) /\ proc[w].q = q /\ proc[w].n = n

\* A dead-lettered item has its runtime_dead_letters row, or the worker that
\* moved it there is about to insert it.
DeadLettersRecorded ==
  \A q \in QueueIds : items[q].status = "dead_lettered" =>
    \/ \E n \in AttemptNumbers : <<q, n>> \in letters
    \/ \E w \in Workers : At(w, "dead_letter") /\ proc[w].q = q

\* Without cancellation and recovery the running limits checked by the claim
\* hold at every moment, not only when the claim checks them.
WithinRunningLimits ==
  /\ RunningCount(QueueIds) <= GlobalRunningLimit
  /\ \A tenant \in Tenants :
       RunningCount(TenantItems(tenant)) <= TenantRunningLimit[tenant]

-----------------------------------------------------------------------------
(* Statements of docs/reference/runtime-run-queue-contract.md.             *)

\* "Allowed transitions" lists none that leaves a terminal status.
TerminalItemsStay ==
  [][\A q \in QueueIds : items[q].status \in TerminalStatuses
       => items'[q].status = items[q].status]_vars

\* "Terminal runs and attempts are never reopened", also by a manual retry,
\* which "never mutates a terminal run or attempt".
TerminalRunsStay ==
  [][\A r \in RunIds : runs[r] \in TerminalRunStatuses
       => runs'[r] = runs[r]]_vars

\* "exhausted work moves to dead_lettered": no attempt follows the last one.
AttemptsWithinMax ==
  \A q \in QueueIds : items[q].attempts <= MaxAttempts
=============================================================================
