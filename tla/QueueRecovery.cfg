SPECIFICATION RecoverySpec
CONSTANTS
  w1 = w1
  w2 = w2
  c1 = c1
  t1 = t1
  t2 = t2
  Workers <- MCWorkers
  Callers = {c1}
  Tasks <- MCOneTask
  Tenants <- MCTenants
  TenantOf <- MCTenantOf
  GlobalRunningLimit = 2
  TenantRunningLimit <- MCTenantLimit
  MaxAttempts = 2
  AttemptBound = 2
  RetryDepth = 0
  Checkpoints = 1
  Operations = {"cancel", "recover"}
  Faults = {"uncaught"}
SYMMETRY WorkerSymmetry
CHECK_DEADLOCK FALSE
INVARIANTS OneWorkerPerAttempt AttemptsAreSettled DeadLettersRecorded
