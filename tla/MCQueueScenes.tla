---- MODULE MCQueueScenes ----
(***************************************************************************)
(* Instances of RuntimeQueue side by side.  scene is chosen at the start   *)
(* and never changes; it says which instance the behaviour belongs to.  The*)
(* constants a .cfg gives are those of the first scene, the others differ  *)
(* from it as written here.                                                *)
(***************************************************************************)
EXTENDS MCRuntimeQueue

VARIABLE scene

\* The first attempt is already the last.
Last == INSTANCE RuntimeQueue WITH MaxAttempts <- 1

\* Manual retries instead of automatic ones; nobody cancels.
Manual == INSTANCE RuntimeQueue WITH MaxAttempts <- 1, AttemptBound <- 1, RetryDepth <- 1, Callers <- {}, Operations <- {"retry"}

\* Two tasks of a tenant that may run one; nobody cancels.
Limited == INSTANCE RuntimeQueue WITH
    Tasks <- MCTwoTasks, TenantOf <- [t \in MCTwoTasks |-> "ten"], TenantRunningLimit <- MCTenantLimitOne, Callers <- {}, Operations <- {},
    MaxAttempts <- 1, AttemptBound <- 1

sceneVars == <<vars, scene>>

\* Recovery, cancellation and escaping exceptions, with and without an attempt to spare.
RecoveryInit == scene \in {"spare", "last"} /\ Init
RecoveryNext == scene' = scene /\ ((scene = "spare" /\ Next) \/ (scene = "last" /\ Last!Next))
RecoverySpec == RecoveryInit /\ [][RecoveryNext]_sceneVars

-----------------------------------------------------------------------------
\* Automatic retries, manual retries, running limits; no recovery and no escaping exception.
PollingInit ==
    \/ scene = "automatic" /\ Init
    \/ scene = "manual" /\ Manual!Init
    \/ scene = "limited" /\ Limited!Init
PollingNext ==
    /\ scene' = scene
    /\ \/ scene = "automatic" /\ Next
       \/ scene = "manual" /\ Manual!Next
       \/ scene = "limited" /\ Limited!Next

\* run_forever polls for ever and every call of the store returns; clocks
\* advance.  Nothing obliges a caller to cancel or to retry.
ClaimStep(w) ==
    /\ scene' = scene
    /\ \/ scene = "automatic" /\ Claim(w)
       \/ scene = "manual" /\ Manual!Claim(w)
       \/ scene = "limited" /\ Limited!Claim(w)
ProcessStep(w) ==
    /\ scene' = scene
    /\ \/ scene = "automatic" /\ ProcessOne(w)
       \/ scene = "manual" /\ Manual!ProcessOne(w)
       \/ scene = "limited" /\ Limited!ProcessOne(w)
CancelStep(c) ==
    /\ scene' = scene
    /\ scene = "automatic"
    /\ MarkCancelled(c)
DueStep(q) ==
    /\ scene' = scene
    /\ scene = "automatic"
    /\ ComesDue(q)

PollingSpec ==
    /\ PollingInit /\ [][PollingNext]_sceneVars
    /\ \A w \in Workers : WF_sceneVars(ClaimStep(w)) /\ WF_sceneVars(ProcessStep(w))
    /\ \A c \in Callers : WF_sceneVars(CancelStep(c))
    /\ \A q \in QueueIds : WF_sceneVars(DueStep(q))

\* Without cancellation and recovery the running limits that the claim
\* checks hold at every moment, not only when it checks them.
RunningLimitsHold == scene = "limited" => Limited!WithinRunningLimits

\* Whatever is enqueued, retried automatically or retried by hand comes to
\* rest: while the workers keep polling, every queue item reaches a terminal
\* status.
Unsettled == \E q \in DOMAIN items : items[q].status \notin TerminalStatuses \cup {"absent"}
EventuallySettled == Unsettled ~> ~Unsettled
====
