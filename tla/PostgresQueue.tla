---- MODULE PostgresQueue ----
(***************************************************************************)
(* The run queue over PostgreSQL: PostgresRuntimeStore under worker loops  *)
(* that run one transaction per iteration, callers that enqueue and cancel *)
(* in transactions of their own, and the artifact files, which belong to   *)
(* no transaction.  items, runs and quota are the committed rows; what a   *)
(* worker has written is in its txn record until it commits.  Isolation is *)
(* READ COMMITTED: a statement sees committed rows and its own.            *)
(* RuntimeQueue models the same worker over the in-memory store, call by   *)
(* call; here a step ends where another transaction can tell.              *)
(***************************************************************************)
EXTENDS Naturals, FiniteSets, FiniteSetsExt

CONSTANTS
    Workers, Callers,
    Ids,              \* queue ids, numbered in claim order (priority, scheduled_at, created_at)
    Tenants, TenantOf,
    Payloads,         \* task payloads
    Unlimited,        \* a limit that is not configured
    GlobalLimit,      \* global_running_limit
    TenantLimit,      \* tenant_running_limits
    QueuedLimit,      \* tenant_queued_limits
    TokenLimit,       \* tenant_token_limits_per_minute; the quota window is one and the same
    Tokens,           \* max_tokens of every profile
    MaxAttempts,
    MaxCalls,         \* bound: calls of each caller
    MaxCrashes,       \* bound: worker processes that die
    RunForeignKey     \* whether the database enforces run_id REFERENCES runtime_runs

ASSUME PostgresAssumption ==
    /\ Ids \subseteq Nat \ {0} /\ IsFiniteSet(Ids)
    /\ TenantOf \in [Ids -> Tenants]
    /\ MaxAttempts \in Nat
    /\ GlobalLimit \in Nat /\ TenantLimit \in [Tenants -> Nat]
    /\ "free" \notin Workers

VARIABLES
    items,     \* runtime_queue_items: status, attempts, attempt number in run_id
    runs,      \* runtime_runs: status by <<queue id, attempt number>>
    attempts,  \* runtime_run_attempts with their claim: status by the same key, "open" while running
    quota,     \* runtime_quota_reservations: status by the same key
    files,     \* the task-payload artifact of each queue id
    rowLock, advisory,  \* lock tables: holder by row, holder by advisory key
    txn, call,          \* local state of workers and callers
    accepted,  \* history: payload with which an item was inserted
    begun,     \* history: how often the run of an item was started
    passedOver,  \* history: items a worker went home without, although nobody ran them
    rejected,    \* history: claims the database rejected
    calls, crashes

tables == <<items, runs, attempts, quota>>
history == <<accepted, begun, passedOver, rejected>>
vars == <<tables, files, rowLock, advisory, txn, call, history, calls, crashes>>

\* The holder of a lock that nobody holds.
Free == "free"
Keys == Ids \X (1..MaxAttempts)
LockKeys == Tenants \cup {"global"}
NoTxn == [pc |-> "idle", todo |-> {}, q |-> 0, n |-> 0, reserved |-> FALSE]
NoCall == [pc |-> "idle", q |-> 0, run |-> 0, payload |-> "none"]

Init ==
    /\ items = [q \in Ids |-> [status |-> "absent", attempts |-> 0, run |-> 0]]
    /\ runs = [k \in Keys |-> "absent"]
    /\ attempts = [k \in Keys |-> "absent"]
    /\ quota = [k \in Keys |-> "none"]
    /\ files = [q \in Ids |-> "none"]
    /\ rowLock = [q \in Ids |-> Free] /\ advisory = [k \in LockKeys |-> Free]
    /\ txn = [w \in Workers |-> NoTxn] /\ call = [c \in Callers |-> NoCall]
    /\ accepted = [q \in Ids |-> "none"] /\ begun = [q \in Ids |-> 0]
    /\ passedOver = {} /\ rejected = {}
    /\ calls = [c \in Callers |-> 0] /\ crashes = 0

----
(* enqueue: count, write the artifact, insert *)

Queued(tenant) == {q \in Ids : TenantOf[q] = tenant /\ items[q].status \in {"queued", "retry_scheduled"}}

Enqueue(c, q, p) ==
    /\ call[c].pc = "idle" /\ calls[c] < MaxCalls
    /\ QueuedLimit[TenantOf[q]] # Unlimited => Cardinality(Queued(TenantOf[q])) < QueuedLimit[TenantOf[q]]
    /\ files' = [files EXCEPT ![q] = p]
    /\ call' = [call EXCEPT ![c] = [NoCall EXCEPT !.pc = "insert", !.q = q, !.payload = p]]
    /\ calls' = [calls EXCEPT ![c] = @ + 1]
    /\ UNCHANGED <<tables, rowLock, advisory, txn, history, crashes>>

\* ON CONFLICT (idempotency_key) DO UPDATE touches the row: it waits for its lock and changes nothing.
InsertRuntimeQueueItem(c) ==
    LET q == call[c].q IN
    /\ call[c].pc = "insert" /\ rowLock[q] = Free
    /\ IF items[q].status = "absent"
       THEN /\ items' = [items EXCEPT ![q] = [status |-> "queued", attempts |-> 0, run |-> 0]]
            /\ accepted' = [accepted EXCEPT ![q] = call[c].payload]
       ELSE UNCHANGED <<items, accepted>>
    /\ call' = [call EXCEPT ![c] = NoCall]
    /\ UNCHANGED <<runs, attempts, quota, files, rowLock, advisory, txn, begun, passedOver, rejected, calls, crashes>>

(* mark_cancelled: read, then update under the row lock *)

CancelRead(c, q) ==
    /\ call[c].pc = "idle" /\ calls[c] < MaxCalls
    /\ items[q].status \in {"queued", "claiming", "running", "retry_scheduled"}
    /\ call' = [call EXCEPT ![c] = [NoCall EXCEPT !.pc = "cancel", !.q = q, !.run = items[q].run]]
    /\ calls' = [calls EXCEPT ![c] = @ + 1]
    /\ UNCHANGED <<tables, files, rowLock, advisory, txn, history, crashes>>

CancelUpdate(c) ==
    LET q == call[c].q
        k == <<q, call[c].run>>
    IN /\ call[c].pc = "cancel" /\ rowLock[q] = Free
       /\ items' = [items EXCEPT ![q].status = "cancelled"]
       /\ runs' = IF k \in Keys /\ runs[k] \notin {"absent", "succeeded", "failed"} THEN [runs EXCEPT ![k] = "cancelled"] ELSE runs
       /\ call' = [call EXCEPT ![c] = NoCall]
       /\ UNCHANGED <<attempts, quota, files, rowLock, advisory, txn, history, calls, crashes>>

----
(* claim_next_runtime_queue_attempt *)

Claimable == {q \in Ids : items[q].status \in {"queued", "retry_scheduled"} /\ items[q].attempts < MaxAttempts}
Running(tenants) == {q \in Ids : TenantOf[q] \in tenants /\ items[q].status \in {"claiming", "running"}}

ReleaseLocksMutant(w) ==
    /\ rowLock' = [q \in Ids |-> IF rowLock[q] = w THEN Free ELSE rowLock[q]]
    /\ UNCHANGED advisory

\* The end of a transaction: its locks are released.
ReleaseLocks(w) ==
    /\ rowLock' = [q \in Ids |-> IF rowLock[q] = w THEN Free ELSE rowLock[q]]
    /\ advisory' = [k \in LockKeys |-> IF advisory[k] = w THEN Free ELSE advisory[k]]

\* Items whose row is locked by a worker that is busy running another item.
Unattended == {q \in Claimable : \E w \in Workers : rowLock[q] = w /\ txn[w].q \notin {0, q}}

\* process_one returns None; the iteration commits nothing.
ReturnNone(w) ==
    /\ txn' = [txn EXCEPT ![w] = NoTxn]
    /\ ReleaseLocks(w)

SelectForUpdateMutant(w) ==
    /\ txn[w].pc = "idle" /\ Claimable # {}
    /\ rowLock' = [q \in Ids |-> IF q \in Claimable /\ rowLock[q] = Free THEN w ELSE rowLock[q]]
    /\ txn' = [txn EXCEPT ![w] = [NoTxn EXCEPT !.pc = "global", !.todo = Claimable]]
    /\ UNCHANGED <<tables, files, advisory, call, history, calls, crashes>>

\* FOR UPDATE SKIP LOCKED, without LIMIT: every claimable row that is free is locked.
SelectForUpdate(w) ==
    LET found == {q \in Claimable : rowLock[q] = Free} IN
    /\ txn[w].pc = "idle" /\ found # {}
    /\ rowLock' = [q \in Ids |-> IF q \in found THEN w ELSE rowLock[q]]
    /\ txn' = [txn EXCEPT ![w] = [NoTxn EXCEPT !.pc = "global", !.todo = found]]
    /\ UNCHANGED <<tables, files, advisory, call, history, calls, crashes>>

\* Nothing selected: the worker sleeps until its next poll.
SelectNothing(w) ==
    /\ txn[w].pc = "idle" /\ \A q \in Claimable : rowLock[q] # Free
    /\ passedOver' = passedOver \cup Unattended
    /\ passedOver' # passedOver
    /\ UNCHANGED <<tables, files, rowLock, advisory, txn, call, accepted, begun, rejected, calls, crashes>>

\* The advisory lock is held until the transaction ends.
CheckGlobalLimit(w) ==
    /\ txn[w].pc = "global"
    /\ IF GlobalLimit = Unlimited
       THEN txn' = [txn EXCEPT ![w].pc = "tenant"] /\ UNCHANGED <<rowLock, advisory>>
       ELSE /\ advisory["global"] \in {Free, w}
            /\ IF Cardinality(Running(Tenants)) >= GlobalLimit
               THEN ReturnNone(w)
               ELSE /\ advisory' = [advisory EXCEPT !["global"] = w]
                    /\ txn' = [txn EXCEPT ![w].pc = "tenant"]
                    /\ UNCHANGED rowLock
    /\ UNCHANGED <<tables, files, call, history, calls, crashes>>

\* ORDER BY: the candidates are taken in claim order.
Candidate(w) == Min(txn[w].todo)
LastCandidate(w) == txn[w].todo = {Candidate(w)}

NextCandidate(w) ==
    IF LastCandidate(w) THEN ReturnNone(w)
    ELSE txn' = [txn EXCEPT ![w].todo = @ \ {Candidate(w)}, ![w].pc = "global"] /\ UNCHANGED rowLock

CheckTenantLimitMutant(w) ==
    LET tenant == TenantOf[Candidate(w)] IN
    /\ txn[w].pc = "tenant"
    /\ IF TenantLimit[tenant] # Unlimited /\ Cardinality(Running({tenant})) >= TenantLimit[tenant]
       THEN NextCandidate(w)
       ELSE txn' = [txn EXCEPT ![w].pc = "claim"] /\ UNCHANGED rowLock
    /\ UNCHANGED <<advisory, tables, files, call, history, calls, crashes>>

CheckTenantLimit(w) ==
    LET tenant == TenantOf[Candidate(w)]
        limit == TenantLimit[tenant]
    IN /\ txn[w].pc = "tenant"
       /\ IF limit = Unlimited
          THEN txn' = [txn EXCEPT ![w].pc = "claim"] /\ UNCHANGED <<rowLock, advisory>>
          ELSE /\ advisory[tenant] \in {Free, w}
               /\ IF Cardinality(Running({tenant})) >= limit
                  THEN /\ NextCandidate(w)
                       /\ ~LastCandidate(w) => advisory' = [advisory EXCEPT ![tenant] = w]
                  ELSE /\ advisory' = [advisory EXCEPT ![tenant] = w]
                       /\ txn' = [txn EXCEPT ![w].pc = "claim"]
                       /\ UNCHANGED rowLock
       /\ UNCHANGED <<tables, files, call, history, calls, crashes>>

ClaimAttemptMutant(w) ==
    LET q == Candidate(w)
        n == items[q].attempts + 1
    IN /\ txn[w].pc = "claim"
       /\ items' = [items EXCEPT ![q] = [status |-> "claiming", attempts |-> n, run |-> n]]
       /\ attempts' = [attempts EXCEPT ![<<q, n>>] = "open"]
       /\ txn' = [txn EXCEPT ![w] = [NoTxn EXCEPT !.pc = "reserve", !.q = q, !.n = n]]
       /\ begun' = [begun EXCEPT ![q] = @ + 1]
       /\ UNCHANGED <<runs, quota, files, rowLock, advisory, call, accepted, passedOver, rejected, calls, crashes>>

\* UPDATE, attempt and claim rows, then entrypoint.start and mark_running: all of it uncommitted.
\* The UPDATE sets run_id to a run that start has yet to insert.
ClaimAttempt(w) ==
    LET q == Candidate(w)
        n == items[q].attempts + 1
    IN /\ txn[w].pc = "claim"
       /\ IF RunForeignKey /\ runs[<<q, n>>] = "absent"
          THEN /\ rejected' = rejected \cup {q}
               /\ txn' = [txn EXCEPT ![w] = [NoTxn EXCEPT !.pc = "dead"]]
               /\ ReleaseLocks(w)
               /\ UNCHANGED begun
          ELSE /\ txn' = [txn EXCEPT ![w] = [NoTxn EXCEPT !.pc = "reserve", !.q = q, !.n = n]]
               /\ begun' = [begun EXCEPT ![q] = @ + 1]
               /\ UNCHANGED <<rowLock, advisory, rejected>>
       /\ UNCHANGED <<tables, files, call, accepted, passedOver, calls, crashes>>

----
(* Quota, loop, settlement *)

UsedTokens(tenant) ==
    Tokens * Cardinality({k \in Keys : TenantOf[k[1]] = tenant /\ quota[k] \in {"reserved", "finalized"}})

\* The sum sees committed reservations only.
Reserve(w) ==
    LET tenant == TenantOf[txn[w].q] IN
    /\ txn[w].pc = "reserve"
    /\ txn' = IF TokenLimit # Unlimited /\ UsedTokens(tenant) + Tokens > TokenLimit
              THEN [txn EXCEPT ![w].pc = "fail"]
              ELSE [txn EXCEPT ![w].pc = "loop", ![w].reserved = TRUE]
    /\ UNCHANGED <<tables, files, rowLock, advisory, call, history, calls, crashes>>

\* The item's row is locked, so no cancellation is visible at the loop's checkpoints.
Loop(w) ==
    /\ txn[w].pc = "loop"
    /\ \E next \in {"succeed", "fail"} : txn' = [txn EXCEPT ![w].pc = next]
    /\ UNCHANGED <<tables, files, rowLock, advisory, call, history, calls, crashes>>

FailedStatus(n) == IF n < MaxAttempts THEN "retry_scheduled" ELSE "dead_lettered"

\* mark_failed_or_retry or mark_succeeded, attempt, claim, reservation, and the commit of the iteration.
Settle(w) ==
    LET k == <<txn[w].q, txn[w].n>>
        failed == txn[w].pc = "fail"
    IN /\ txn[w].pc \in {"succeed", "fail"}
       /\ items' = [items EXCEPT ![k[1]] = [status |-> IF failed THEN FailedStatus(k[2]) ELSE "succeeded",
                                            attempts |-> k[2], run |-> k[2]]]
       /\ runs' = [runs EXCEPT ![k] = IF failed THEN "failed" ELSE "succeeded"]
       /\ attempts' = [attempts EXCEPT ![k] = items'[k[1]].status]
       /\ quota' = IF txn[w].reserved THEN [quota EXCEPT ![k] = IF failed THEN "refunded" ELSE "finalized"] ELSE quota
       /\ ReturnNone(w)
       /\ UNCHANGED <<files, call, history, calls, crashes>>

\* An exception process_one does not handle, or the end of the process: rollback.
Rollback(w) ==
    /\ txn[w].pc \in {"global", "tenant", "claim", "reserve", "loop"} /\ crashes < MaxCrashes
    /\ txn' = [txn EXCEPT ![w] = [NoTxn EXCEPT !.pc = "dead"]]
    /\ ReleaseLocks(w)
    /\ crashes' = crashes + 1
    /\ UNCHANGED <<tables, files, call, history, calls>>

\* The service manager starts the worker again.
Restart(w) ==
    /\ txn[w].pc = "dead"
    /\ txn' = [txn EXCEPT ![w] = NoTxn]
    /\ UNCHANGED <<tables, files, rowLock, advisory, call, history, calls, crashes>>

Iterate(w) ==
    \/ SelectForUpdate(w) \/ CheckGlobalLimit(w) \/ CheckTenantLimit(w) \/ ClaimAttempt(w)
    \/ Reserve(w) \/ Loop(w) \/ Settle(w) \/ Restart(w)

Next ==
    \/ \E w \in Workers : Iterate(w) \/ SelectNothing(w) \/ Rollback(w)
    \/ \E c \in Callers : InsertRuntimeQueueItem(c) \/ CancelUpdate(c)
    \/ \E c \in Callers, q \in Ids : CancelRead(c, q) \/ \E p \in Payloads : Enqueue(c, q, p)

Spec == Init /\ [][Next]_vars

----
(* Properties *)

Executing == {w \in Workers : txn[w].q # 0}

\* An iteration is all or nothing: no committed row is in the middle of an attempt.  Nothing is
\* left claimed, no attempt is open, and every reservation of a settled attempt is used or refunded,
\* wherever a worker dies.
NothingIsHalfDone ==
    /\ \A q \in Ids : items[q].status \notin {"claiming", "running"}
    /\ \A k \in Keys : attempts[k] # "open" /\ quota[k] # "reserved" /\ (runs[k] # "absent" <=> attempts[k] # "absent")

\* Two workers never run the same item at once.
OneWorkerPerItem == \A v, w \in Executing : txn[v].q = txn[w].q => v = w

\* The running limits hold for the runs under way, although none of them is visible to the count:
\* the advisory locks are held until the iteration ends.
LimitsCoverUncommittedRuns ==
    /\ GlobalLimit # Unlimited => Cardinality(Executing) <= GlobalLimit
    /\ \A tenant \in Tenants : TenantLimit[tenant] # Unlimited =>
          Cardinality({w \in Executing : TenantOf[txn[w].q] = tenant}) <= TenantLimit[tenant]

\* Workers that wait for rows, limits and each other still get through: whatever is accepted is
\* settled in the end.
Pending == \E q \in Ids : items[q].status \notin {"absent", "succeeded", "dead_lettered", "cancelled"}
AcceptedWorkSettles == Pending ~> ~Pending

----
(* Statements of the documents that the code does not keep. *)

\* "Token and tool-call quota breaches ... fail closed": the tokens reserved and used in a window
\* stay within the tenant's limit.
QuotaHolds == \A tenant \in Tenants : TokenLimit # Unlimited => UsedTokens(tenant) <= TokenLimit

\* "Claim selection must not ... starve eligible tenants behind ineligible locked ... tenants": no
\* worker goes home while an item that nobody runs could be claimed.
NobodyIsPassedOver == passedOver = {}

\* "A claim moves a queue item to `claiming` ... sets ... `run_id`": the database takes the claim.
ClaimsAreTaken == rejected = {}

\* "exhausted work moves to `dead_lettered`": an item's run is started at most max_attempts times.
RunsWithinMaxAttempts == \A q \in Ids : begun[q] <= MaxAttempts

\* "Cancellation completes the run with status and stop reason `cancelled`": no item is cancelled
\* whose last run succeeded.
CancelledMeansNotDone == \A q \in Ids : items[q].status = "cancelled" /\ items[q].run > 0 => runs[<<q, items[q].run>>] # "succeeded"

\* "Manual retry replays the original task payload": the artifact of an item is the payload it was
\* accepted with.
PayloadIsOriginal == \A q \in Ids : items[q].status # "absent" => files[q] = accepted[q]
====
