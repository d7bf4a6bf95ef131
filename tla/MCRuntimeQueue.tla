--------------------------- MODULE MCRuntimeQueue ---------------------------
(* Small instances of RuntimeQueue for TLC.                                *)
EXTENDS RuntimeQueue, TLC

CONSTANTS w1, w2, c1, t1, t2

MCWorkers == {w1, w2}
MCOneTask == {t1}
MCTwoTasks == {t1, t2}
MCTenants == {"ten"}
MCTenantOf == [t \in Tasks |-> "ten"]
MCTenantLimit == [t \in Tenants |-> 2]
MCTenantLimitOne == [t \in Tenants |-> 1]
WorkerSymmetry == Permutations(MCWorkers)
=============================================================================
