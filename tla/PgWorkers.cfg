SPECIFICATION ScenesSpec
\* Calls are bounded, so the queue comes to rest.
CHECK_DEADLOCK FALSE
CONSTANTS
    Workers = {w1, w2}
    Callers = {c1}
    Ids = {1, 2, 3}
    Tenants = {"a", "b"}
    TenantOf <- TwoAndOne
    Payloads = {"p1"}
    Unlimited = 99
    GlobalLimit = 99
    TenantLimit <- OnlyA
    QueuedLimit <- NoLimits
    TokenLimit = 4
    Tokens = 2
    MaxAttempts = 2
    MaxCalls = 3
    MaxCrashes = 1
    RunForeignKey = FALSE
INVARIANTS
    
    OneWorkerPerItem
    RunningLimitsHold
PROPERTY AcceptedWorkSettles
