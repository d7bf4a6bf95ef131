---- MODULE MCPostgresQueue ----
(***************************************************************************)
(* Small instances of PostgresQueue.                                       *)
(***************************************************************************)
EXTENDS PostgresQueue

\* Two items of one tenant, one of another.
TwoAndOne == [q \in Ids |-> IF q <= 2 THEN "a" ELSE "b"]
NoLimits == [tenant \in Tenants |-> Unlimited]
OnlyA == [tenant \in Tenants |-> IF tenant = "a" THEN 1 ELSE Unlimited]
OneEach == [tenant \in Tenants |-> 1]

VARIABLE scene

\* The second scene: one run at a time, and one accepted item per tenant.
Limited == INSTANCE PostgresQueue WITH GlobalLimit <- 1, TenantLimit <- OneEach, QueuedLimit <- OneEach

ScenesInit == scene \in {"parallel", "limited"} /\ Init
ScenesNext ==
    /\ scene' = scene
    /\ \/ scene = "parallel" /\ Next
       \/ scene = "limited" /\ Limited!Next

IterateStep(w) ==
    /\ scene' = scene
    /\ \/ scene = "parallel" /\ Iterate(w)
       \/ scene = "limited" /\ Limited!Iterate(w)
CallerStep(c) ==
    /\ scene' = scene
    /\ \/ scene = "parallel" /\ (InsertRuntimeQueueItem(c) \/ CancelUpdate(c))
       \/ scene = "limited" /\ (Limited!InsertRuntimeQueueItem(c) \/ Limited!CancelUpdate(c))

\* A worker's loop goes on while its process runs and is restarted when it does not; statements of
\* a caller finish once the row they wait for is free.
ScenesSpec ==
    /\ ScenesInit /\ [][ScenesNext]_<<vars, scene>>
    /\ \A w \in Workers : WF_<<vars, scene>>(IterateStep(w))
    /\ \A c \in Callers : SF_<<vars, scene>>(CallerStep(c))

\* In both scenes the running limits hold for the runs under way, although the query that counts
\* runs sees none of them before it commits.
RunningLimitsHold == IF scene = "limited" THEN Limited!LimitsCoverUncommittedRuns ELSE LimitsCoverUncommittedRuns
====
