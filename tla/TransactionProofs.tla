------------------------- MODULE TransactionProofs --------------------------
(***************************************************************************)
(* Work that several processes do in several transactions each.  The queue *)
(* over PostgreSQL, for every number of workers, callers, items, tenants   *)
(* and attempts, and every limit: a worker's iteration is all or nothing,  *)
(* no item is run twice at once, and the running limits hold for runs that *)
(* no count can see yet.  Supplier confirmations, for every order, every   *)
(* entry and every number of requests: what the match leaves out is an     *)
(* exception, and every status has the decisions that led to it.           *)
(***************************************************************************)
EXTENDS PostgresQueue, Sequences, FiniteSetTheorems, WellFoundedInduction, TLAPS

Selecting == {"global", "tenant", "claim"}
Working == {"reserve", "loop", "succeed", "fail"}
Txns == [pc : {"idle", "dead"} \cup Selecting \cup Working, todo : SUBSET Ids,
         q : Ids \cup {0}, n : Nat, reserved : BOOLEAN]
Settled == {"absent", "queued", "succeeded", "cancelled", "retry_scheduled", "dead_lettered"}

\* The committed rows: no status of a run under way is among them.
RowsInv ==
  /\ items \in [Ids -> [status : Settled, attempts : Nat, run : Nat]]
  /\ runs \in [Keys -> {"absent", "succeeded", "failed", "cancelled"}]
  /\ attempts \in [Keys -> Settled]
  /\ quota \in [Keys -> {"none", "finalized", "refunded"}]
  /\ \A k \in Keys : runs[k] # "absent" <=> attempts[k] # "absent"

LocksType ==
  /\ rowLock \in [Ids -> Workers \cup {Free}]
  /\ advisory \in [LockKeys -> Workers \cup {Free}]
  /\ txn \in [Workers -> Txns]

\* What worker v holds: the rows it selected, the row it works on, and the advisory
\* locks of the limits it has passed.
HoldsRows(v) ==
  /\ txn[v].pc \in Selecting => txn[v].todo # {} /\ \A q \in txn[v].todo : rowLock[q] = v
  /\ txn[v].pc \in Working <=> txn[v].q # 0
  /\ txn[v].q # 0 => rowLock[txn[v].q] = v

HoldsGlobal(v) ==
  GlobalLimit # Unlimited /\ txn[v].pc \in {"tenant", "claim"} \cup Working =>
     advisory["global"] = v /\ GlobalLimit > 0

HoldsTenant(v, q) ==
  TenantLimit[TenantOf[q]] # Unlimited =>
     advisory[TenantOf[q]] = v /\ TenantLimit[TenantOf[q]] > 0

Holds(v) ==
  /\ HoldsRows(v)
  /\ HoldsGlobal(v)
  /\ txn[v].pc = "claim" => HoldsTenant(v, Candidate(v))
  /\ txn[v].q # 0 => HoldsTenant(v, txn[v].q)

PInv == RowsInv /\ LocksType /\ \A v \in Workers : Holds(v)

-----------------------------------------------------------------------------
(* What one worker's step leaves of the locks of the others.               *)

\* A set of numbers that is not empty has a least one.
LEMMA MinLemma ==
  ASSUME NEW T, T \subseteq Nat, T # {}
  PROVE  Min(T) \in T
<1> DEFINE R == OpToRel(<, Nat)
<1>1. IsWellFoundedOn(R, Nat)
  BY NatLessThanWellFounded, Zenon
<1>2. \A a, b \in Nat : a < b => <<a, b>> \in R
  BY Zenon DEF OpToRel
<1> HIDE DEF R
<1>3. \E x \in T : \A y \in T : ~ (<<y, x>> \in R)
  BY <1>1, WFMin, Zenon
<1>4. PICK x \in T : \A y \in T : ~ (<<y, x>> \in R)
  BY <1>3, Zenon
<1>5. \A y \in T : ~ (y < x)
  BY <1>2, <1>4, Zenon
<1>6. \A y \in T : x =< y
  BY <1>5
<1>. QED BY <1>6, Zenon DEF Min

Keeps(w) ==
  /\ \A v \in Workers \ {w} : txn'[v] = txn[v]
  /\ \A v \in Workers \ {w}, q \in Ids : rowLock[q] = v => rowLock'[q] = v
  /\ \A v \in Workers \ {w}, k \in LockKeys : advisory[k] = v => advisory'[k] = v

\* Such a step takes nothing from another worker.
LEMMA OthersLemma ==
  ASSUME PInv, NEW w, Keeps(w), NEW v \in Workers, v # w
  PROVE  Holds(v)'
<1>1. txn[v] \in Txns /\ txn'[v] = txn[v]
  BY Zenon DEF PInv, LocksType, Keeps
<1>2. Holds(v)
  BY Zenon DEF PInv
<1>3. HoldsRows(v)'
  <2>1. \A q \in txn[v].todo : q \in Ids
    BY <1>1, Zenon DEF Txns
  <2>2. txn[v].q # 0 => txn[v].q \in Ids
    BY <1>1, Zenon DEF Txns
  <2>. QED BY <1>1, <1>2, <2>1, <2>2 DEF Holds, HoldsRows, Keeps
<1>4. HoldsGlobal(v)'
  BY <1>1, <1>2, Zenon DEF Holds, HoldsGlobal, Keeps, LockKeys
<1>5. ASSUME NEW q \in Ids, HoldsTenant(v, q)
      PROVE  HoldsTenant(v, q)'
  <2>1. TenantOf[q] \in LockKeys
    BY PostgresAssumption, Zenon DEF LockKeys
  <2>. QED BY <1>5, <2>1, Zenon DEF HoldsTenant, Keeps
<1>6. txn[v].pc = "claim" => Candidate(v) \in Ids
  <2>1. SUFFICES ASSUME txn[v].pc = "claim" PROVE Candidate(v) \in Ids
    BY Zenon
  <2>2. txn[v].todo # {} /\ txn[v].todo \subseteq Ids
    BY <1>1, <1>2, <2>1, Zenon DEF Holds, HoldsRows, Selecting, Txns
  <2>3. txn[v].todo \subseteq Nat
    BY <2>2, PostgresAssumption, Zenon
  <2>4. Min(txn[v].todo) \in txn[v].todo
    BY <2>2, <2>3, MinLemma, Zenon
  <2>. QED BY <2>2, <2>4, Zenon DEF Candidate
<1>7. Candidate(v)' = Candidate(v)
  BY <1>1, Zenon DEF Candidate
<1>8. txn[v].q # 0 => txn[v].q \in Ids
  BY <1>1, Zenon DEF Txns
<1>9. (txn[v].pc = "claim" => HoldsTenant(v, Candidate(v)))'
  BY <1>1, <1>2, <1>5, <1>6, <1>7, Zenon DEF Holds, HoldsTenant
<1>10. (txn[v].q # 0 => HoldsTenant(v, txn[v].q))'
  BY <1>1, <1>2, <1>5, <1>8, Zenon DEF Holds, HoldsTenant
<1>. QED BY <1>3, <1>4, <1>9, <1>10, Zenon DEF Holds

\* All of the invariant but the rows, after a step of worker w.
LEMMA WorkerLemma ==
  ASSUME PInv, NEW w \in Workers, Keeps(w), LocksType', Holds(w)', RowsInv'
  PROVE  PInv'
<1>1. ASSUME NEW v \in Workers PROVE Holds(v)'
  <2>1. CASE v = w
    BY <2>1, Zenon
  <2>2. CASE v # w
    BY <2>2, OthersLemma, Zenon
  <2>. QED BY <2>1, <2>2, Zenon
<1>. QED BY <1>1, Zenon DEF PInv

\* The end of a transaction.
LEMMA EndLemma ==
  ASSUME PInv, NEW w \in Workers, ReleaseLocks(w),
         NEW label \in {"idle", "dead"}, txn' = [txn EXCEPT ![w] = [NoTxn EXCEPT !.pc = label]]
  PROVE  Keeps(w) /\ LocksType' /\ Holds(w)'
<1> DEFINE t == [NoTxn EXCEPT !.pc = label]
<1>1. t \in Txns /\ t.pc = label /\ t.q = 0
  BY Zenon DEF Txns, NoTxn
<1> HIDE DEF t
<1>2. txn' = [txn EXCEPT ![w] = t]
  BY Zenon DEF t
<1>3. LocksType'
  BY <1>1, <1>2, Zenon DEF PInv, LocksType, ReleaseLocks
<1>4. Keeps(w)
  BY <1>2, Zenon DEF PInv, LocksType, ReleaseLocks, Keeps
<1>5. txn'[w] = t
  BY <1>2, Zenon DEF PInv, LocksType
<1>6. Holds(w)'
  BY <1>1, <1>5, Zenon DEF Holds, HoldsRows, HoldsGlobal, Selecting, Working
<1>. QED BY <1>3, <1>4, <1>6, Zenon

\* return_none ends the transaction.
LEMMA ReturnLemma ==
  ASSUME PInv, NEW w \in Workers, ReturnNone(w)
  PROVE  Keeps(w) /\ LocksType' /\ Holds(w)'
<1>1. NoTxn = [NoTxn EXCEPT !.pc = "idle"]
  BY DEF NoTxn
<1>2. ReleaseLocks(w) /\ txn' = [txn EXCEPT ![w] = [NoTxn EXCEPT !.pc = "idle"]]
  BY <1>1, Zenon DEF ReturnNone
<1>. QED BY <1>2, EndLemma, Zenon

\* A worker that moves on in its transaction without touching its locks.
LEMMA MoveLemma ==
  ASSUME PInv, NEW w \in Workers, NEW t \in Txns, txn' = [txn EXCEPT ![w] = t],
         UNCHANGED <<rowLock, advisory>>
  PROVE  Keeps(w) /\ LocksType' /\ txn'[w] = t
  BY Zenon DEF PInv, LocksType, Keeps

\* A worker takes an advisory lock that is free or its own.
LEMMA LockLemma ==
  ASSUME PInv, NEW w \in Workers, NEW t \in Txns, txn' = [txn EXCEPT ![w] = t],
         NEW k \in LockKeys, advisory[k] \in {Free, w},
         advisory' = [advisory EXCEPT ![k] = w], UNCHANGED rowLock
  PROVE  /\ Keeps(w) /\ LocksType' /\ txn'[w] = t
         /\ advisory'[k] = w
         /\ \A l \in LockKeys : advisory[l] = w => advisory'[l] = w
  BY PostgresAssumption, Zenon DEF PInv, LocksType, Keeps, Free

\* The candidate of a worker that is selecting is one of its locked rows.
LEMMA CandidateLemma ==
  ASSUME PInv, NEW w \in Workers, txn[w].pc \in Selecting
  PROVE  /\ Candidate(w) \in txn[w].todo
         /\ Candidate(w) \in Ids
         /\ rowLock[Candidate(w)] = w
         /\ TenantOf[Candidate(w)] \in LockKeys
         /\ TenantLimit[TenantOf[Candidate(w)]] \in Nat
<1>1. txn[w].todo \subseteq Ids
  BY Zenon DEF PInv, LocksType, Txns
<1>2. txn[w].todo # {} /\ \A q \in txn[w].todo : rowLock[q] = w
  BY Zenon DEF PInv, Holds, HoldsRows
<1>3. txn[w].todo \subseteq Nat
  BY <1>1, PostgresAssumption, Zenon
<1>4. Candidate(w) \in txn[w].todo
  BY <1>2, <1>3, MinLemma, Zenon DEF Candidate
<1>. QED BY <1>1, <1>2, <1>4, PostgresAssumption, Zenon DEF LockKeys

\* How many rows a count finds.
LEMMA CountLemma ==
  ASSUME NEW tenants
  PROVE  Cardinality(Running(tenants)) \in Nat
<1>1. Running(tenants) \subseteq Ids
  BY Zenon DEF Running
<1>2. IsFiniteSet(Running(tenants))
  BY <1>1, PostgresAssumption, FS_Subset, Zenon
<1>. QED BY <1>2, FS_CardinalityType, Zenon

-----------------------------------------------------------------------------
(* The steps of a worker.                                                  *)

\* SELECT ... FOR UPDATE SKIP LOCKED: the worker holds the rows it selected.
LEMMA SelectLemma ==
  ASSUME PInv, NEW w \in Workers, SelectForUpdate(w)
  PROVE  PInv'
<1> DEFINE found == {q \in Claimable : rowLock[q] = Free}
           t == [NoTxn EXCEPT !.pc = "global", !.todo = found]
<1>1. /\ txn[w].pc = "idle" /\ found # {}
      /\ rowLock' = [q \in Ids |-> IF q \in found THEN w ELSE rowLock[q]]
      /\ txn' = [txn EXCEPT ![w] = t]
      /\ UNCHANGED <<items, runs, attempts, quota, advisory>>
  BY Zenon DEF SelectForUpdate, tables
<1>2. found \subseteq Ids /\ \A q \in found : rowLock[q] = Free
  BY Zenon DEF Claimable
<1> HIDE DEF found
<1>3. t \in Txns /\ t.pc = "global" /\ t.q = 0 /\ t.todo = found
  BY <1>2, Zenon DEF Txns, NoTxn, Selecting, Working
<1> HIDE DEF t
<1>4. RowsInv'
  BY <1>1, Zenon DEF PInv, RowsInv
<1>5. LocksType' /\ txn'[w] = t
  BY <1>1, <1>3, Zenon DEF PInv, LocksType
<1>6. Keeps(w)
  BY <1>1, <1>2, PostgresAssumption, Zenon DEF PInv, LocksType, Keeps, Free
<1>7. Holds(w)'
  BY <1>1, <1>2, <1>3, <1>5, Zenon DEF Holds, HoldsRows, HoldsGlobal, Selecting, Working
<1>. QED BY <1>4, <1>5, <1>6, <1>7, WorkerLemma, Zenon

\* The global limit is counted under its advisory lock.
LEMMA GlobalLemma ==
  ASSUME PInv, NEW w \in Workers, CheckGlobalLimit(w)
  PROVE  PInv'
<1> DEFINE t == [txn[w] EXCEPT !.pc = "tenant"]
<1>1. txn[w].pc = "global" /\ UNCHANGED <<items, runs, attempts, quota>>
  BY Zenon DEF CheckGlobalLimit, tables
<1>2. RowsInv'
  BY <1>1, Zenon DEF PInv, RowsInv
<1>3. txn \in [Workers -> Txns] /\ txn[w] \in Txns
  BY Zenon DEF PInv, LocksType
<1>4. /\ t \in Txns /\ t.pc = "tenant" /\ t.q = txn[w].q /\ t.todo = txn[w].todo
      /\ [txn EXCEPT ![w].pc = "tenant"] = [txn EXCEPT ![w] = t]
  BY <1>3, Zenon DEF Txns, Selecting
<1>5. /\ txn[w].q = 0 /\ txn[w].todo # {} /\ txn[w].todo \subseteq Ids
      /\ \A q \in txn[w].todo : rowLock[q] = w
  BY <1>1, <1>3, Zenon DEF PInv, Holds, HoldsRows, Selecting, Working, Txns
<1> HIDE DEF t
<1>6. CASE GlobalLimit = Unlimited
  <2>1. txn' = [txn EXCEPT ![w] = t] /\ UNCHANGED <<rowLock, advisory>>
    BY <1>4, <1>6, Zenon DEF CheckGlobalLimit
  <2>2. Keeps(w) /\ LocksType' /\ txn'[w] = t
    BY <1>4, <2>1, MoveLemma, Zenon
  <2>3. Holds(w)'
    BY <1>4, <1>5, <1>6, <2>1, <2>2, Zenon DEF Holds, HoldsRows, HoldsGlobal, Selecting, Working
  <2>. QED BY <1>2, <2>2, <2>3, WorkerLemma, Zenon
<1>7. CASE GlobalLimit # Unlimited /\ Cardinality(Running(Tenants)) >= GlobalLimit
  <2>1. ReturnNone(w)
    BY <1>7, Zenon DEF CheckGlobalLimit
  <2>. QED BY <1>2, <2>1, ReturnLemma, WorkerLemma, Zenon
<1>8. CASE GlobalLimit # Unlimited /\ ~(Cardinality(Running(Tenants)) >= GlobalLimit)
  <2>1. /\ advisory["global"] \in {Free, w}
        /\ advisory' = [advisory EXCEPT !["global"] = w]
        /\ txn' = [txn EXCEPT ![w] = t]
        /\ UNCHANGED rowLock
    BY <1>4, <1>8, Zenon DEF CheckGlobalLimit
  <2>2. "global" \in LockKeys
    BY Zenon DEF LockKeys
  <2>3. Keeps(w) /\ LocksType' /\ txn'[w] = t /\ advisory'["global"] = w
    BY <1>4, <2>1, <2>2, LockLemma
  <2>4. GlobalLimit > 0
    BY <1>8, CountLemma, PostgresAssumption
  <2>5. Holds(w)'
    BY <1>4, <1>5, <2>1, <2>3, <2>4, Zenon DEF Holds, HoldsRows, HoldsGlobal, Selecting, Working
  <2>. QED BY <1>2, <2>3, <2>5, WorkerLemma, Zenon
<1>. QED BY <1>6, <1>7, <1>8, Zenon

\* The limit of a tenant is counted under its advisory lock.
LEMMA TenantLemma ==
  ASSUME PInv, NEW w \in Workers, CheckTenantLimit(w)
  PROVE  PInv'
<1>8. PICK c : c = Candidate(w)
  BY Zenon
<1> DEFINE tenant == TenantOf[c]
           limit == TenantLimit[tenant]
           t == [txn[w] EXCEPT !.pc = "claim"]
           u == [txn[w] EXCEPT !.todo = @ \ {c}, !.pc = "global"]
<1>1. txn[w].pc = "tenant" /\ UNCHANGED <<items, runs, attempts, quota>>
  BY Zenon DEF CheckTenantLimit, tables
<1>2. RowsInv'
  BY <1>1, Zenon DEF PInv, RowsInv
<1>3. txn \in [Workers -> Txns] /\ txn[w] \in Txns
  BY Zenon DEF PInv, LocksType
<1>4. /\ c \in txn[w].todo /\ c \in Ids /\ rowLock[c] = w
      /\ tenant \in LockKeys /\ limit \in Nat
  BY <1>1, <1>8, CandidateLemma, Zenon DEF Selecting
<1>5. /\ txn[w].q = 0 /\ txn[w].todo # {} /\ txn[w].todo \subseteq Ids
      /\ \A q \in txn[w].todo : rowLock[q] = w
      /\ HoldsGlobal(w)
  BY <1>1, <1>3, Zenon DEF PInv, Holds, HoldsRows, Selecting, Working, Txns
<1>6. /\ t \in Txns /\ t.pc = "claim" /\ t.q = 0 /\ t.todo = txn[w].todo
      /\ [txn EXCEPT ![w].pc = "claim"] = [txn EXCEPT ![w] = t]
  BY <1>3, <1>5, Zenon DEF Txns, Selecting
<1>7. /\ u \in Txns /\ u.pc = "global" /\ u.q = 0 /\ u.todo = txn[w].todo \ {c}
      /\ [txn EXCEPT ![w].todo = @ \ {c}, ![w].pc = "global"] = [txn EXCEPT ![w] = u]
  BY <1>3, <1>5, Zenon DEF Txns, Selecting
<1> HIDE DEF tenant, limit, t, u
<1>9. CASE limit = Unlimited
  <2>1. txn' = [txn EXCEPT ![w] = t] /\ UNCHANGED <<rowLock, advisory>>
    BY <1>6, <1>9, <1>8, Zenon DEF CheckTenantLimit, tenant, limit
  <2>2. Keeps(w) /\ LocksType' /\ txn'[w] = t
    BY <1>6, <2>1, MoveLemma, Zenon
  <2>3. Candidate(w)' = c
    BY <1>6, <1>8, <2>2, Zenon DEF Candidate
  <2>4. HoldsTenant(w, c)'
    BY <1>9, Zenon DEF HoldsTenant, limit, tenant
  <2>5. HoldsRows(w)' /\ HoldsGlobal(w)'
    BY <1>1, <1>5, <1>6, <2>1, <2>2, Zenon DEF HoldsRows, HoldsGlobal, Selecting, Working
  <2>6. Holds(w)'
    BY <1>6, <2>2, <2>3, <2>4, <2>5, Zenon DEF Holds, HoldsTenant
  <2>. QED BY <1>2, <2>2, <2>6, WorkerLemma, Zenon
<1>10. CASE limit # Unlimited /\ Cardinality(Running({tenant})) >= limit /\ LastCandidate(w)
  <2>1. ReturnNone(w)
    BY <1>10, <1>8, Zenon DEF CheckTenantLimit, NextCandidate, tenant, limit
  <2>. QED BY <1>2, <2>1, ReturnLemma, WorkerLemma, Zenon
<1>11. CASE limit # Unlimited /\ Cardinality(Running({tenant})) >= limit /\ ~LastCandidate(w)
  <2>1. /\ advisory[tenant] \in {Free, w}
        /\ txn' = [txn EXCEPT ![w] = u]
        /\ advisory' = [advisory EXCEPT ![tenant] = w]
        /\ UNCHANGED rowLock
    BY <1>7, <1>11, <1>8, Zenon DEF CheckTenantLimit, NextCandidate, tenant, limit
  <2>2. Keeps(w) /\ LocksType' /\ txn'[w] = u
    <3>1. u \in Txns /\ tenant \in LockKeys
      BY <1>4, <1>7, Zenon
    <3>. QED BY <2>1, <3>1, LockLemma, Zenon
  <2>3. u.todo # {}
    BY <1>4, <1>7, <1>8, <1>11 DEF LastCandidate
  <2>4. Holds(w)'
    BY <1>5, <1>7, <2>1, <2>2, <2>3, Zenon DEF Holds, HoldsRows, HoldsGlobal, Selecting, Working
  <2>. QED BY <1>2, <2>2, <2>4, WorkerLemma, Zenon
<1>12. CASE limit # Unlimited /\ ~(Cardinality(Running({tenant})) >= limit)
  <2>1. /\ advisory[tenant] \in {Free, w}
        /\ txn' = [txn EXCEPT ![w] = t]
        /\ advisory' = [advisory EXCEPT ![tenant] = w]
        /\ UNCHANGED rowLock
    BY <1>6, <1>12, <1>8, Zenon DEF CheckTenantLimit, tenant, limit
  <2>2. /\ Keeps(w) /\ LocksType' /\ txn'[w] = t /\ advisory'[tenant] = w
        /\ \A l \in LockKeys : advisory[l] = w => advisory'[l] = w
    BY <1>4, <1>6, <2>1, LockLemma
  <2>3. limit > 0
    BY <1>4, <1>12, CountLemma
  <2>4. Candidate(w)' = c
    BY <1>6, <1>8, <2>2, Zenon DEF Candidate
  <2>5. HoldsTenant(w, c)'
    BY <2>2, <2>3, Zenon DEF HoldsTenant, limit, tenant
  <2>6. HoldsRows(w)'
    BY <1>5, <1>6, <2>1, <2>2, Zenon DEF HoldsRows, Selecting, Working
  <2>7. HoldsGlobal(w)'
    BY <1>1, <1>5, <1>6, <2>2, Zenon DEF HoldsGlobal, Working, LockKeys
  <2>8. Holds(w)'
    BY <1>6, <2>2, <2>4, <2>5, <2>6, <2>7, Zenon DEF Holds, HoldsTenant
  <2>. QED BY <1>2, <2>2, <2>8, WorkerLemma, Zenon
<1>. QED BY <1>9, <1>10, <1>11, <1>12, Zenon

\* The claimed row is one of those the worker holds.
LEMMA ClaimLemma ==
  ASSUME PInv, NEW w \in Workers, ClaimAttempt(w)
  PROVE  PInv'
<1>0. PICK c : c = Candidate(w)
  BY Zenon
<1> DEFINE n == items[c].attempts + 1
           t == [NoTxn EXCEPT !.pc = "reserve", !.q = c, !.n = n]
<1>1. txn[w].pc = "claim" /\ UNCHANGED <<items, runs, attempts, quota>>
  BY Zenon DEF ClaimAttempt, tables
<1>2. RowsInv'
  BY <1>1, Zenon DEF PInv, RowsInv
<1>3. c \in Ids /\ rowLock[c] = w
  BY <1>0, <1>1, CandidateLemma, Zenon DEF Selecting
<1>4. n \in Nat
  BY <1>3 DEF PInv, RowsInv
<1>5. HoldsGlobal(w) /\ HoldsTenant(w, c)
  BY <1>0, <1>1, Zenon DEF PInv, Holds
<1>6. \/ txn' = [txn EXCEPT ![w] = [NoTxn EXCEPT !.pc = "dead"]] /\ ReleaseLocks(w)
      \/ txn' = [txn EXCEPT ![w] = t] /\ UNCHANGED <<rowLock, advisory>>
  BY <1>0, Zenon DEF ClaimAttempt
<1> HIDE DEF n
<1>7. t \in Txns /\ t.pc = "reserve" /\ t.q = c
  BY <1>3, <1>4, Zenon DEF Txns, NoTxn, Working
<1> HIDE DEF t
<1>8. CASE txn' = [txn EXCEPT ![w] = [NoTxn EXCEPT !.pc = "dead"]] /\ ReleaseLocks(w)
  BY <1>2, <1>8, EndLemma, WorkerLemma, Zenon
<1>9. CASE txn' = [txn EXCEPT ![w] = t] /\ UNCHANGED <<rowLock, advisory>>
  <2>1. Keeps(w) /\ LocksType' /\ txn'[w] = t
    BY <1>7, <1>9, MoveLemma, Zenon
  <2>2. c # 0
    BY <1>3, PostgresAssumption, Zenon
  <2>3. HoldsRows(w)' /\ HoldsGlobal(w)'
    BY <1>1, <1>3, <1>5, <1>7, <1>9, <2>1, <2>2, Zenon
       DEF HoldsRows, HoldsGlobal, Selecting, Working
  <2>4. HoldsTenant(w, c)'
    BY <1>5, <1>9, Zenon DEF HoldsTenant
  <2>5. Holds(w)'
    BY <1>7, <2>1, <2>3, <2>4, Zenon DEF Holds, HoldsTenant
  <2>. QED BY <1>2, <2>1, <2>5, WorkerLemma, Zenon
<1>. QED BY <1>6, <1>8, <1>9, Zenon

\* Reserve and Loop move on inside the iteration.
LEMMA ProgressLemma ==
  ASSUME PInv, NEW w \in Workers, Reserve(w) \/ Loop(w)
  PROVE  PInv'
<1>1. txn[w].pc \in Working /\ UNCHANGED <<items, runs, attempts, quota, rowLock, advisory>>
  BY Zenon DEF Reserve, Loop, tables, Working
<1>2. RowsInv'
  BY <1>1, Zenon DEF PInv, RowsInv
<1>3. txn \in [Workers -> Txns] /\ txn[w] \in Txns
  BY Zenon DEF PInv, LocksType
<1>4. PICK t \in Txns : /\ txn' = [txn EXCEPT ![w] = t]
                        /\ t.pc \in Working /\ t.q = txn[w].q
  <2>1. CASE Reserve(w)
    <3> DEFINE a == [txn[w] EXCEPT !.pc = "fail"]
               b == [txn[w] EXCEPT !.pc = "loop", !.reserved = TRUE]
    <3>1. /\ a \in Txns /\ a.pc \in Working /\ a.q = txn[w].q
          /\ b \in Txns /\ b.pc \in Working /\ b.q = txn[w].q
      BY <1>3, Zenon DEF Txns, Working
    <3>2. \/ txn' = [txn EXCEPT ![w].pc = "fail"]
          \/ txn' = [txn EXCEPT ![w].pc = "loop", ![w].reserved = TRUE]
      BY <2>1, Zenon DEF Reserve
    <3>3. /\ [txn EXCEPT ![w].pc = "fail"] = [txn EXCEPT ![w] = a]
          /\ [txn EXCEPT ![w].pc = "loop", ![w].reserved = TRUE] = [txn EXCEPT ![w] = b]
      BY <1>3, Zenon
    <3> HIDE DEF a, b
    <3>. QED BY <3>1, <3>2, <3>3, Zenon
  <2>2. CASE Loop(w)
    <3>1. PICK next \in {"succeed", "fail"} : txn' = [txn EXCEPT ![w].pc = next]
      BY <2>2, Zenon DEF Loop
    <3> DEFINE a == [txn[w] EXCEPT !.pc = next]
    <3>2. a \in Txns /\ a.pc \in Working /\ a.q = txn[w].q
      BY <1>3, <3>1, Zenon DEF Txns, Working
    <3>3. txn' = [txn EXCEPT ![w] = a]
      BY <1>3, <3>1, Zenon
    <3> HIDE DEF a
    <3>. QED BY <3>2, <3>3, Zenon
  <2>. QED BY <2>1, <2>2, Zenon
<1>5. Keeps(w) /\ LocksType' /\ txn'[w] = t
  BY <1>1, <1>4, MoveLemma, Zenon
<1>6. Holds(w)
  BY Zenon DEF PInv
<1>7. HoldsRows(w)' /\ HoldsGlobal(w)'
  BY <1>1, <1>4, <1>5, <1>6, Zenon DEF Holds, HoldsRows, HoldsGlobal, Selecting, Working
<1>8. (txn[w].q # 0 => HoldsTenant(w, txn[w].q))'
  BY <1>1, <1>4, <1>5, <1>6, Zenon DEF Holds, HoldsTenant
<1>9. Holds(w)'
  BY <1>4, <1>5, <1>7, <1>8, Zenon DEF Holds, Working
<1>. QED BY <1>2, <1>5, <1>9, WorkerLemma, Zenon

\* The commit: the rows of one attempt are written together.
LEMMA SettleLemma ==
  ASSUME PInv, NEW w \in Workers, Settle(w)
  PROVE  PInv'
<1>1. PICK q, n : q = txn[w].q /\ n = txn[w].n
  BY Zenon
<1> DEFINE failed == txn[w].pc = "fail"
           status == IF failed THEN FailedStatus(n) ELSE "succeeded"
           row == [status |-> status, attempts |-> n, run |-> n]
           k == <<q, n>>
<1>2. txn[w].pc \in Working /\ txn[w] \in Txns
  BY Zenon DEF PInv, LocksType, Settle, Working
<1>3. q \in Ids /\ n \in Nat
  BY <1>1, <1>2, Zenon DEF PInv, Holds, HoldsRows, Txns
<1>4. status \in Settled \ {"absent"}
  BY Zenon DEF FailedStatus, Settled
<1>5. /\ items' = [items EXCEPT ![q] = row]
      /\ runs' = [runs EXCEPT ![k] = IF failed THEN "failed" ELSE "succeeded"]
      /\ attempts' = [attempts EXCEPT ![k] = items'[q].status]
      /\ ReturnNone(w)
  BY <1>1, Zenon DEF Settle
<1>6. \/ quota' = [quota EXCEPT ![k] = IF failed THEN "refunded" ELSE "finalized"]
      \/ quota' = quota
  BY <1>1, Zenon DEF Settle
<1> HIDE DEF status
<1>7. row \in [status : Settled, attempts : Nat, run : Nat] /\ row.status = status
  BY <1>3, <1>4, Zenon
<1> HIDE DEF row
<1>8. items' \in [Ids -> [status : Settled, attempts : Nat, run : Nat]] /\ items'[q] = row
  BY <1>3, <1>5, <1>7, Zenon DEF PInv, RowsInv
<1>9. attempts' = [attempts EXCEPT ![k] = status]
  BY <1>5, <1>7, <1>8, Zenon
<1> HIDE DEF failed, k
<1>10. RowsInv'
  <2>1. runs' \in [Keys -> {"absent", "succeeded", "failed", "cancelled"}]
    BY <1>5, Zenon DEF PInv, RowsInv
  <2>2. attempts' \in [Keys -> Settled]
    BY <1>4, <1>9, Zenon DEF PInv, RowsInv
  <2>3. quota' \in [Keys -> {"none", "finalized", "refunded"}]
    BY <1>6, Zenon DEF PInv, RowsInv
  <2>4. \A j \in Keys : runs'[j] # "absent" <=> attempts'[j] # "absent"
    <3> SUFFICES ASSUME NEW j \in Keys
                 PROVE  runs'[j] # "absent" <=> attempts'[j] # "absent"
      BY Zenon
    <3>1. CASE j = k
      <4>1. runs'[j] \in {"failed", "succeeded"}
        BY <1>5, <3>1, Zenon DEF PInv, RowsInv
      <4>2. attempts'[j] = status
        BY <1>9, <3>1, Zenon DEF PInv, RowsInv
      <4>. QED BY <1>4, <4>1, <4>2, Zenon
    <3>2. CASE j # k
      BY <1>5, <1>9, <3>2, Zenon DEF PInv, RowsInv
    <3>. QED BY <3>1, <3>2, Zenon
  <2>. QED BY <1>8, <2>1, <2>2, <2>3, <2>4, Zenon DEF RowsInv
<1>. QED BY <1>5, <1>10, ReturnLemma, WorkerLemma, Zenon

\* A process dies, is started again, or finds nothing.
LEMMA RestLemma ==
  ASSUME PInv, NEW w \in Workers, Rollback(w) \/ Restart(w) \/ SelectNothing(w)
  PROVE  PInv'
<1>1. UNCHANGED <<items, runs, attempts, quota>>
  BY Zenon DEF Rollback, Restart, SelectNothing, tables
<1>2. RowsInv'
  BY <1>1, Zenon DEF PInv, RowsInv
<1>3. CASE Rollback(w)
  <2>1. ReleaseLocks(w) /\ txn' = [txn EXCEPT ![w] = [NoTxn EXCEPT !.pc = "dead"]]
    BY <1>3, Zenon DEF Rollback
  <2>. QED BY <1>2, <2>1, EndLemma, WorkerLemma, Zenon
<1>4. CASE Restart(w)
  <2>1. txn' = [txn EXCEPT ![w] = NoTxn] /\ UNCHANGED <<rowLock, advisory>>
    BY <1>4, Zenon DEF Restart
  <2>2. NoTxn \in Txns /\ NoTxn.pc = "idle" /\ NoTxn.q = 0
    BY Zenon DEF NoTxn, Txns
  <2>3. Keeps(w) /\ LocksType' /\ txn'[w] = NoTxn
    BY <2>1, <2>2, MoveLemma, Zenon
  <2>4. Holds(w)'
    BY <2>2, <2>3, Zenon DEF Holds, HoldsRows, HoldsGlobal, Selecting, Working
  <2>. QED BY <1>2, <2>3, <2>4, WorkerLemma, Zenon
<1>5. CASE SelectNothing(w)
  <2>1. UNCHANGED <<rowLock, advisory, txn>>
    BY <1>5, Zenon DEF SelectNothing
  <2>2. \A v \in Workers : Holds(v)'
    BY <2>1 DEF PInv, Holds, HoldsRows, HoldsGlobal, HoldsTenant, Candidate
  <2>. QED BY <1>2, <2>1, <2>2, Zenon DEF PInv, LocksType
<1>. QED BY <1>3, <1>4, <1>5, Zenon

\* The callers write rows and hold no lock longer than a statement.
LEMMA CallerLemma ==
  ASSUME PInv, RowsInv', UNCHANGED <<rowLock, advisory, txn>>
  PROVE  PInv'
<1>1. \A v \in Workers : Holds(v)'
  BY DEF PInv, Holds, HoldsRows, HoldsGlobal, HoldsTenant, Candidate
<1>. QED BY <1>1, Zenon DEF PInv, LocksType

\* Callers write committed rows and hold no lock.
LEMMA CallsLemma ==
  ASSUME PInv, NEW c \in Callers,
         \/ InsertRuntimeQueueItem(c) \/ CancelUpdate(c)
         \/ \E q \in Ids : CancelRead(c, q) \/ \E p \in Payloads : Enqueue(c, q, p)
  PROVE  PInv'
<1>1. CASE InsertRuntimeQueueItem(c)
  <2> DEFINE row == [status |-> "queued", attempts |-> 0, run |-> 0]
  <2>1. /\ items' = items \/ items' = [items EXCEPT ![call[c].q] = row]
        /\ UNCHANGED <<runs, attempts, quota, rowLock, advisory, txn>>
    BY <1>1, Zenon DEF InsertRuntimeQueueItem
  <2>2. row \in [status : Settled, attempts : Nat, run : Nat]
    BY Zenon DEF Settled
  <2> HIDE DEF row
  <2>3. RowsInv'
    BY <2>1, <2>2, Zenon DEF PInv, RowsInv
  <2>. QED BY <2>1, <2>3, CallerLemma, Zenon
<1>2. CASE CancelUpdate(c)
  <2>1. PICK q, k : /\ items' = [items EXCEPT ![q].status = "cancelled"]
                    /\ \/ runs' = runs
                       \/ k \in Keys /\ runs[k] # "absent" /\ runs' = [runs EXCEPT ![k] = "cancelled"]
    BY <1>2, Zenon DEF CancelUpdate
  <2>2. UNCHANGED <<attempts, quota, rowLock, advisory, txn>>
    BY <1>2, Zenon DEF CancelUpdate
  <2>3. items' \in [Ids -> [status : Settled, attempts : Nat, run : Nat]]
    BY <2>1 DEF PInv, RowsInv, Settled
  <2>4. /\ runs' \in [Keys -> {"absent", "succeeded", "failed", "cancelled"}]
        /\ \A j \in Keys : runs'[j] # "absent" <=> runs[j] # "absent"
    BY <2>1, Zenon DEF PInv, RowsInv
  <2>5. RowsInv'
    BY <2>2, <2>3, <2>4, Zenon DEF PInv, RowsInv
  <2>. QED BY <2>2, <2>5, CallerLemma, Zenon
<1>3. CASE \E q \in Ids : CancelRead(c, q) \/ \E p \in Payloads : Enqueue(c, q, p)
  <2>1. UNCHANGED <<items, runs, attempts, quota, rowLock, advisory, txn>>
    BY <1>3, Zenon DEF CancelRead, Enqueue, tables
  <2>2. RowsInv'
    BY <2>1, Zenon DEF PInv, RowsInv
  <2>. QED BY <2>1, <2>2, CallerLemma, Zenon
<1>. QED BY <1>1, <1>2, <1>3, Zenon

-----------------------------------------------------------------------------
(* The invariant is inductive.                                             *)

\* The invariant holds at the start.
LEMMA InitLemma == Init => PInv
<1> SUFFICES ASSUME Init PROVE PInv
  BY Zenon
<1>1. RowsInv
  BY Zenon DEF Init, RowsInv, Settled
<1>2. NoTxn \in Txns /\ NoTxn.pc = "idle" /\ NoTxn.q = 0
  BY Zenon DEF NoTxn, Txns
<1>3. LocksType
  BY <1>2, Zenon DEF Init, LocksType
<1>4. ASSUME NEW v \in Workers PROVE Holds(v)
  <2>1. txn[v] = NoTxn
    BY Zenon DEF Init
  <2>. QED BY <1>2, <2>1, Zenon DEF Holds, HoldsRows, HoldsGlobal, Selecting, Working
<1>. QED BY <1>1, <1>3, <1>4, Zenon DEF PInv

\* Every step keeps it.
LEMMA StepLemma == PInv /\ [Next]_vars => PInv'
<1> SUFFICES ASSUME PInv, [Next]_vars PROVE PInv'
  BY Zenon
<1>1. CASE UNCHANGED vars
  <2>1. UNCHANGED <<items, runs, attempts, quota, rowLock, advisory, txn>>
    BY <1>1, Zenon DEF vars, tables
  <2>2. RowsInv'
    BY <2>1, Zenon DEF PInv, RowsInv
  <2>. QED BY <2>1, <2>2, CallerLemma, Zenon
<1>2. ASSUME NEW w \in Workers, Iterate(w) \/ SelectNothing(w) \/ Rollback(w)
      PROVE  PInv'
  BY <1>2, SelectLemma, GlobalLemma, TenantLemma, ClaimLemma, ProgressLemma, SettleLemma,
     RestLemma, Zenon DEF Iterate
<1>3. CASE \/ \E c \in Callers : InsertRuntimeQueueItem(c) \/ CancelUpdate(c)
           \/ \E c \in Callers, q \in Ids :
                CancelRead(c, q) \/ \E p \in Payloads : Enqueue(c, q, p)
  BY <1>3, CallsLemma, Zenon
<1>. QED BY <1>1, <1>2, <1>3, Zenon DEF Next

\* So it holds always.
LEMMA Invariance == Spec => []PInv
  BY InitLemma, StepLemma, PTL DEF Spec

-----------------------------------------------------------------------------
(* What follows.                                                           *)

\* No committed row is in the middle of an attempt, wherever a worker dies: the
\* worker's iteration is one transaction (_queue_worker_iteration_boundary).
THEOREM IterationsAreAtomic == Spec => []NothingIsHalfDone
<1>1. PInv => NothingIsHalfDone
  BY Zenon DEF PInv, RowsInv, NothingIsHalfDone, Settled
<1>. QED BY <1>1, Invariance, PTL

\* Two workers never run the same item: FOR UPDATE SKIP LOCKED hands a row to one of
\* them, and the row stays locked until the iteration ends.
THEOREM ItemsAreExclusive == Spec => []OneWorkerPerItem
<1>1. PInv => OneWorkerPerItem
  BY DEF PInv, Holds, HoldsRows, OneWorkerPerItem, Executing
<1>. QED BY <1>1, Invariance, PTL

\* A set any two members of which are equal.
LEMMA AtMostOne ==
  ASSUME NEW T, \A v, w \in T : v = w
  PROVE  T = {} \/ Cardinality(T) = 1
<1>1. CASE T # {}
  <2>1. PICK v : v \in T
    BY <1>1, Zenon
  <2>2. T = {v}
    BY <2>1, Zenon
  <2>. QED BY <2>2, FS_Singleton, Zenon
<1>. QED BY <1>1, Zenon

\* The running limits hold for the runs under way although the counts of
\* claim_next_runtime_queue_attempt see none of them: whoever runs holds the advisory
\* lock of every limit that applies, so at most one run per limit is under way.
THEOREM LimitsHold == Spec => []LimitsCoverUncommittedRuns
<1>1. ASSUME PInv PROVE LimitsCoverUncommittedRuns
  <2>1. \A w \in Executing : w \in Workers /\ txn[w].q \in Ids
    BY <1>1, Zenon DEF PInv, LocksType, Txns, Executing
  <2>2. ASSUME GlobalLimit # Unlimited PROVE Cardinality(Executing) <= GlobalLimit
    <3>1. \A w \in Executing : advisory["global"] = w /\ GlobalLimit > 0
      BY <1>1, <2>2, Zenon DEF PInv, Holds, HoldsRows, HoldsGlobal, Executing
    <3>2. Executing = {} \/ Cardinality(Executing) = 1
      BY <3>1, AtMostOne, Zenon
    <3>3. CASE Executing = {}
      BY <3>3, FS_EmptySet, PostgresAssumption
    <3>4. CASE Executing # {} /\ Cardinality(Executing) = 1
      BY <3>1, <3>4, PostgresAssumption
    <3>. QED BY <3>2, <3>3, <3>4, Zenon
  <2>3. ASSUME NEW tenant \in Tenants, TenantLimit[tenant] # Unlimited
        PROVE  Cardinality({w \in Executing : TenantOf[txn[w].q] = tenant}) <= TenantLimit[tenant]
    <3> DEFINE T == {w \in Executing : TenantOf[txn[w].q] = tenant}
    <3>1. \A w \in T : advisory[tenant] = w /\ TenantLimit[tenant] > 0
      BY <1>1, <2>1, <2>3, Zenon DEF PInv, Holds, HoldsTenant, Executing
    <3>2. T = {} \/ Cardinality(T) = 1
      BY <3>1, AtMostOne, Zenon
    <3>3. TenantLimit[tenant] \in Nat /\ (T # {} => TenantLimit[tenant] > 0)
      BY <3>1, PostgresAssumption, Zenon
    <3> HIDE DEF T
    <3>4. CASE T = {}
      BY <3>3, <3>4, FS_EmptySet DEF T
    <3>5. CASE T # {} /\ Cardinality(T) = 1
      <4>1. Cardinality(T) <= TenantLimit[tenant]
        BY <3>3, <3>5
      <4>. QED BY <4>1, Zenon DEF T
    <3>. QED BY <3>2, <3>4, <3>5, Zenon
  <2>. QED BY <2>2, <2>3, Zenon DEF LimitsCoverUncommittedRuns
<1>2. PInv => LimitsCoverUncommittedRuns
  BY <1>1, Zenon
<1>. QED BY <1>2, Invariance, PTL

-----------------------------------------------------------------------------
(* Tables.  A table is a sequence of rows; what a row is, its owner says.  *)

IsTable(q) == \E S : q \in Seq(S)

\* An inserted row.
LEMMA Inserted ==
  ASSUME NEW q, IsTable(q), NEW row
  PROVE  /\ IsTable(Append(q, row)) /\ DOMAIN Append(q, row) = DOMAIN q \cup {Len(q) + 1}
         /\ Append(q, row)[Len(q) + 1] = row /\ Len(q) + 1 \notin DOMAIN q
         /\ \A i \in DOMAIN q : Append(q, row)[i] = q[i]
<1>1. PICK S : q \in Seq(S)
  BY Zenon DEF IsTable
<1>2. q \in Seq(S \cup {row})
  BY <1>1
<1>3. /\ Append(q, row) \in Seq(S \cup {row}) /\ DOMAIN Append(q, row) = DOMAIN q \cup {Len(q) + 1}
      /\ Append(q, row)[Len(q) + 1] = row /\ Len(q) + 1 \notin DOMAIN q
      /\ \A i \in DOMAIN q : Append(q, row)[i] = q[i]
  BY <1>2
<1>. QED BY <1>3, Zenon DEF IsTable

\* An updated row.
LEMMA Updated ==
  ASSUME NEW q, IsTable(q), NEW row, NEW k \in DOMAIN q
  PROVE  /\ IsTable([q EXCEPT ![k] = row]) /\ DOMAIN [q EXCEPT ![k] = row] = DOMAIN q
         /\ [q EXCEPT ![k] = row][k] = row
         /\ \A i \in DOMAIN q : i # k => [q EXCEPT ![k] = row][i] = q[i]
<1>1. PICK S : q \in Seq(S)
  BY Zenon DEF IsTable
<1>2. q \in Seq(S \cup {row})
  BY <1>1
<1>3. [q EXCEPT ![k] = row] \in Seq(S \cup {row})
  BY <1>2
<1>. QED BY <1>3, Zenon DEF IsTable

\* z holds the rows of q and, behind them, those of p.
Joins(z, q, p) ==
    /\ IsTable(z)
    /\ \A i \in DOMAIN q : i \in DOMAIN z /\ z[i] = q[i]
    /\ \A i \in DOMAIN z : i \notin DOMAIN q => i - Len(q) \in DOMAIN p /\ z[i] = p[i - Len(q)]
    /\ \A i \in DOMAIN p : Len(q) + i \in DOMAIN z /\ z[Len(q) + i] = p[i]

\* Rows added all at once.
LEMMA JoinedTables ==
  ASSUME NEW q, IsTable(q), NEW p, IsTable(p)
  PROVE  Joins(q \o p, q, p)
<1>1. PICK S, T : q \in Seq(S) /\ p \in Seq(T)
  BY Zenon DEF IsTable
<1>2. q \in Seq(S \cup T) /\ p \in Seq(S \cup T)
  BY <1>1
<1>3. q \o p \in Seq(S \cup T)
  BY <1>2
<1>4. IsTable(q \o p)
  BY <1>3, Zenon DEF IsTable
<1>5. /\ \A i \in DOMAIN q : i \in DOMAIN (q \o p) /\ (q \o p)[i] = q[i]
      /\ \A i \in DOMAIN (q \o p) : i \notin DOMAIN q => i - Len(q) \in DOMAIN p /\ (q \o p)[i] = p[i - Len(q)]
      /\ \A i \in DOMAIN p : Len(q) + i \in DOMAIN (q \o p) /\ (q \o p)[Len(q) + i] = p[i]
  BY <1>2
<1>. QED BY <1>4, <1>5 DEF Joins

\* The first n numbers.
LEMMA Numbers ==
  ASSUME NEW n \in Nat
  PROVE  IsFiniteSet(1..n) /\ Cardinality(1..n) = n
BY FS_Interval

-----------------------------------------------------------------------------
(* Supplier confirmations.                                                 *)

CONSTANTS None, Orders, Entries, Threads, MaxRequests, MaxSyncs, BufferDays

VARIABLES order, confirmations, exceptions, decisions, drafts, thread, served

Confirm == INSTANCE OrderConfirmation

\* The rows of a table are finitely many.
LEMMA TableIndices ==
  ASSUME NEW q, IsTable(q)
  PROVE  IsFiniteSet(DOMAIN q)
<1>1. PICK S : q \in Seq(S)
  BY Zenon DEF IsTable
<1>2. Len(q) \in Nat /\ DOMAIN q = 1..Len(q)
  BY <1>1
<1>3. PICK n : n = Len(q)
  BY Zenon
<1>. QED BY <1>2, <1>3, Numbers, Zenon

\* A finite set, written down as rows.
LEMMA WrittenDown ==
  ASSUME NEW S, IsFiniteSet(S)
  PROVE  /\ IsTable(Confirm!Inserts(S))
         /\ \A i \in DOMAIN Confirm!Inserts(S) : Confirm!Inserts(S)[i] \in S
         /\ \A x \in S : \E i \in DOMAIN Confirm!Inserts(S) : Confirm!Inserts(S)[i] = x
<1>1. PICK n : n = Cardinality(S)
  BY Zenon
<1>2. n \in Nat /\ ExistsBijection(1..n, S)
  BY <1>1, FS_CardinalityType, Zenon
<1>3. \A T : Confirm!Cardinality(T) = Cardinality(T)
  BY Zenon DEF Confirm!Cardinality, Cardinality, Confirm!IsFiniteSet, IsFiniteSet
<1>4. \E f \in [1..n -> S] : Confirm!IsInjective(f)
  BY <1>2, Zenon DEF ExistsBijection, Bijection, Injection, IsInjective, Confirm!IsInjective
<1>5. PICK f : f = Confirm!Inserts(S)
  BY Zenon
<1>6. f = CHOOSE g \in [1..n -> S] : Confirm!IsInjective(g)
  BY <1>1, <1>3, <1>5, Zenon DEF Confirm!Inserts
<1>7. f \in [1..n -> S] /\ Confirm!IsInjective(f)
  BY <1>4, <1>6, Zenon
<1>8. f \in Injection(1..n, S)
  BY <1>7, Zenon DEF Injection, IsInjective, Confirm!IsInjective
<1>9. IsFiniteSet(1..n) /\ Cardinality(1..n) = n
  BY <1>2, Numbers, Zenon
<1>10. f \in Surjection(1..n, S)
  BY <1>1, <1>8, <1>9, FS_Injection, Zenon
<1>11. \A x \in S : \E i \in 1..n : f[i] = x
  BY <1>10, Zenon DEF Surjection
<1>12. f \in Seq(S)
  BY <1>2, <1>7
<1>13. DOMAIN f = 1..n /\ \A i \in 1..n : f[i] \in S
  BY <1>7, Zenon
<1>. QED BY <1>5, <1>11, <1>12, <1>13, Zenon DEF IsTable

\* The largest number of a set that has one.
LEMMA LargestOf ==
  ASSUME NEW S, S \subseteq Int, NEW m \in S, \A y \in S : m >= y
  PROVE  Confirm!Max(S) = m
<1>1. \E x \in S : \A y \in S : x >= y
  BY Zenon
<1>2. PICK z : z = Confirm!Max(S)
  BY Zenon
<1>3. z \in S /\ \A y \in S : z >= y
  BY <1>1, <1>2, Zenon DEF Confirm!Max
<1>4. z >= m /\ m >= z /\ z \in Int /\ m \in Int
  BY <1>3, Zenon
<1>5. z = m
  BY <1>4
<1>. QED BY <1>2, <1>5, Zenon

ConfirmationRow(c) ==
    /\ c = [lines |-> c.lines, status |-> c.status, severity |-> c.severity,
            rows |-> c.rows, review |-> c.review, inbox |-> c.inbox]
    /\ IsTable(c.lines) /\ IsTable(c.rows)
ExceptionRow(e) ==
    e = [conf |-> e.conf, line |-> e.line, pos |-> e.pos, type |-> e.type, severity |-> e.severity, status |-> e.status]

BooksHold ==
    /\ IsTable(order.rows)
    /\ IsTable(confirmations) /\ \A k \in DOMAIN confirmations : ConfirmationRow(confirmations[k])
    /\ IsTable(exceptions) /\ \A e \in DOMAIN exceptions : ExceptionRow(exceptions[e])
    /\ IsTable(decisions) /\ \A i \in DOMAIN decisions : decisions[i].exc \in DOMAIN exceptions

MatchHolds(r) ==
    /\ r = [pc |-> r.pc, id |-> r.id, exc |-> r.exc, act |-> r.act, version |-> r.version, rows |-> r.rows]
    /\ IsTable(r.rows)
    /\ r.pc \in {"fetch", "match"} => r.id \in DOMAIN confirmations
MatchesHold == thread = [t \in Threads |-> thread[t]] /\ \A t \in Threads : MatchHolds(thread[t])

\* The decisions D with the numbers O lead from open to the status s, each from where the one before
\* it led.  Of any of them, one is the last.
Before(O, i) == {j \in O : j < i}
Chain(D, O, s) ==
    /\ s = IF O = {} THEN "open" ELSE D[Confirm!Max({0} \cup O)].new
    /\ \A i \in O : D[i].old = IF Before(O, i) = {} THEN "open" ELSE D[Confirm!Max(Before(O, i))].new
Newest(O) == O \subseteq Nat \ {0} /\ \A T \in SUBSET O : T # {} => \E m \in T : \A i \in T : m >= i

Own(e) == {i \in DOMAIN decisions : decisions[i].exc = e}
Traced(e) == Chain(decisions, Own(e), exceptions[e].status)

Accounted(k) ==
    \A p \in DOMAIN confirmations[k].rows :
       \/ p \in Confirm!Matched(confirmations[k].rows, confirmations[k].lines)
       \/ \E e \in DOMAIN exceptions : exceptions[e].conf = k /\ exceptions[e].type = "missing_position" /\ exceptions[e].pos = p

ConfirmInv ==
    /\ BooksHold /\ MatchesHold
    /\ \A k \in DOMAIN confirmations : Accounted(k)
    /\ \A e \in DOMAIN exceptions : Traced(e) /\ Newest(Own(e))

\* The properties are those of every confirmation and of every exception.
LEMMA ConfirmGoals ==
  ASSUME ConfirmInv
  PROVE  Confirm!NothingGoesMissing /\ Confirm!DecisionsAreTraced
<1>1. Confirm!NothingGoesMissing
  <2>1. ASSUME NEW k \in DOMAIN confirmations, NEW p \in DOMAIN confirmations[k].rows,
               p \notin Confirm!Matched(confirmations[k].rows, confirmations[k].lines)
        PROVE  \E e \in Confirm!Of(k) : exceptions[e].type = "missing_position" /\ exceptions[e].pos = p
    <3>1. PICK e \in DOMAIN exceptions :
             exceptions[e].conf = k /\ exceptions[e].type = "missing_position" /\ exceptions[e].pos = p
      BY <2>1, Zenon DEF ConfirmInv, Accounted
    <3>2. e \in Confirm!Of(k)
      BY <3>1, Zenon DEF Confirm!Of
    <3>. QED BY <3>1, <3>2, Zenon
  <2>. QED BY <2>1, Zenon DEF Confirm!NothingGoesMissing
<1>2. Confirm!DecisionsAreTraced
  BY Zenon DEF ConfirmInv, Traced, Chain, Before, Own, Confirm!DecisionsAreTraced
<1>. QED BY <1>1, <1>2, Zenon

\* What a comparison of two rows finds is little.
LEMMA FewFindings ==
  ASSUME NEW rows, NEW l
  PROVE  IsFiniteSet(Confirm!LineFindings(rows, l))
<1>1. IsFiniteSet({}) /\ \A x : IsFiniteSet({x})
  BY FS_EmptySet, FS_Singleton, Zenon
<1>2. \A o : IsFiniteSet(Confirm!QuantityFinding(o, l))
  BY <1>1, Zenon DEF Confirm!QuantityFinding
<1>3. \A o : IsFiniteSet(Confirm!PriceFinding(o, l))
  BY <1>1, Zenon DEF Confirm!PriceFinding
<1>4. \A o : IsFiniteSet(Confirm!DeliveryFinding(o, l))
  BY <1>1, Zenon DEF Confirm!DeliveryFinding
<1>5. PICK o : o = rows[Confirm!Candidate(rows, l)]
  BY Zenon
<1>6. IsFiniteSet(Confirm!QuantityFinding(o, l) \cup Confirm!PriceFinding(o, l))
  BY <1>2, <1>3, FS_Union, Zenon
<1>7. IsFiniteSet(Confirm!QuantityFinding(o, l) \cup Confirm!PriceFinding(o, l) \cup Confirm!DeliveryFinding(o, l))
  BY <1>4, <1>6, FS_Union, Zenon
<1>. QED BY <1>1, <1>5, <1>7, Zenon DEF Confirm!LineFindings

\* The exceptions of a match are finitely many, belong to it, are open, and name every position that
\* no line was compared with.
Findings(k, rows, lines, N) ==
    /\ IsFiniteSet(N)
    /\ \A x \in N : ExceptionRow(x) /\ x.conf = k /\ x.status = "open"
    /\ \A p \in DOMAIN rows : p \in Confirm!Matched(rows, lines) \/
         \E x \in N : x.type = "missing_position" /\ x.pos = p

\* What a match finds is what the books need.
LEMMA ManyFindings ==
  ASSUME NEW k, NEW rows, IsTable(rows), NEW lines, IsTable(lines)
  PROVE  Findings(k, rows, lines, Confirm!FoundExceptions(k, rows, lines))
<1>. DEFINE Found(i, f) == [conf |-> k, line |-> i, pos |-> Confirm!Candidate(rows, lines[i]),
                            type |-> f[1], severity |-> f[2], status |-> "open"]
            Lost(i) == [conf |-> k, line |-> 0, pos |-> i, type |-> "missing_position", severity |-> "red", status |-> "open"]
            InLine(i) == {Found(i, f) : f \in Confirm!LineFindings(rows, lines[i])}
            Family == {InLine(i) : i \in DOMAIN lines}
            Lacking == {Lost(i) : i \in Confirm!Missing(rows, lines)}
<1>1. Confirm!FoundExceptions(k, rows, lines) = (UNION Family) \cup Lacking
  BY Zenon DEF Confirm!FoundExceptions
<1>2. \A i, f : ExceptionRow(Found(i, f)) /\ Found(i, f).conf = k /\ Found(i, f).status = "open"
  BY DEF ExceptionRow
<1>3. \A i : /\ ExceptionRow(Lost(i)) /\ Lost(i).conf = k /\ Lost(i).status = "open"
             /\ Lost(i).type = "missing_position" /\ Lost(i).pos = i
  BY Zenon DEF ExceptionRow
<1>. HIDE DEF Found, Lost
<1>4. ASSUME NEW x \in Confirm!FoundExceptions(k, rows, lines)
      PROVE  ExceptionRow(x) /\ x.conf = k /\ x.status = "open"
  <2>1. ASSUME NEW i, NEW f, x = Found(i, f) PROVE ExceptionRow(x) /\ x.conf = k /\ x.status = "open"
    BY <1>2, <2>1, Zenon
  <2>2. ASSUME NEW i, x = Lost(i) PROVE ExceptionRow(x) /\ x.conf = k /\ x.status = "open"
    BY <1>3, <2>2, Zenon
  <2>3. (\E i, f : x = Found(i, f)) \/ \E i : x = Lost(i)
    BY <1>1, Zenon
  <2>. QED BY <2>1, <2>2, <2>3, Zenon
<1>5. ASSUME NEW p \in DOMAIN rows, p \notin Confirm!Matched(rows, lines)
      PROVE  \E x \in Confirm!FoundExceptions(k, rows, lines) : x.type = "missing_position" /\ x.pos = p
  <2>1. p \in Confirm!Missing(rows, lines)
    BY <1>5, Zenon DEF Confirm!Missing
  <2>2. Lost(p) \in Confirm!FoundExceptions(k, rows, lines)
    BY <1>1, <2>1, Zenon
  <2>. QED BY <1>3, <2>2, Zenon
<1>6. IsFiniteSet(Lacking)
  <2>1. PICK M : M = Confirm!Missing(rows, lines)
    BY Zenon
  <2>2. M \in SUBSET (DOMAIN rows)
    BY <2>1, Zenon DEF Confirm!Missing
  <2>3. IsFiniteSet(M)
    BY <2>2, TableIndices, FS_Subset, Zenon
  <2>4. PICK g : g = [i \in M |-> Lost(i)]
    BY Zenon
  <2>5. Lacking = {Lost(i) : i \in M}
    BY <2>1, Zenon
  <2>. HIDE DEF Lacking
  <2>6. g \in [M -> Lacking] /\ \A x \in Lacking : \E i \in M : g[i] = x
    BY <2>4, <2>5, Zenon
  <2>7. g \in Surjection(M, Lacking)
    BY <2>6, Zenon DEF Surjection
  <2>. QED BY <2>3, <2>7, FS_Surjection, Zenon
<1>7. ASSUME NEW i \in DOMAIN lines PROVE IsFiniteSet(InLine(i))
  <2>1. PICK M : M = Confirm!LineFindings(rows, lines[i])
    BY Zenon
  <2>2. IsFiniteSet(M)
    BY <2>1, FewFindings, Zenon
  <2>3. PICK g : g = [f \in M |-> Found(i, f)]
    BY Zenon
  <2>4. InLine(i) = {Found(i, f) : f \in M}
    BY <2>1, Zenon
  <2>. HIDE DEF InLine
  <2>5. g \in [M -> InLine(i)] /\ \A x \in InLine(i) : \E f \in M : g[f] = x
    BY <2>3, <2>4, Zenon
  <2>6. g \in Surjection(M, InLine(i))
    BY <2>5, Zenon DEF Surjection
  <2>. QED BY <2>2, <2>6, FS_Surjection, Zenon
<1>. HIDE DEF InLine, Lacking
<1>8. IsFiniteSet(Family)
  <2>1. PICK g : g = [i \in DOMAIN lines |-> InLine(i)]
    BY Zenon
  <2>2. g \in [DOMAIN lines -> Family] /\ \A x \in Family : \E i \in DOMAIN lines : g[i] = x
    BY <2>1, Zenon
  <2>. HIDE DEF Family
  <2>3. g \in Surjection(DOMAIN lines, Family)
    BY <2>2, Zenon DEF Surjection
  <2>. QED BY <2>3, TableIndices, FS_Surjection, Zenon
<1>9. \A T \in Family : IsFiniteSet(T)
  BY <1>7, Zenon
<1>. HIDE DEF Family
<1>10. IsFiniteSet(UNION Family)
  BY <1>8, <1>9, FS_UNION, Zenon
<1>11. IsFiniteSet((UNION Family) \cup Lacking)
  BY <1>6, <1>10, FS_Union, Zenon
<1>12. IsFiniteSet(Confirm!FoundExceptions(k, rows, lines))
  BY <1>1, <1>11, Zenon
<1>. QED BY <1>4, <1>5, <1>12, Zenon DEF Findings

-----------------------------------------------------------------------------
(* Chains of decisions.                                                    *)

\* No decision: the exception is open.
LEMMA EmptyChain == Newest({}) /\ \A D : Chain(D, {}, "open")
<1>1. Newest({})
  BY Zenon DEF Newest
<1>2. ASSUME NEW D PROVE Chain(D, {}, "open")
  BY Zenon DEF Chain
<1>. QED BY <1>1, <1>2, Zenon

\* The last of some decisions is one of them.
LEMMA LastOne ==
  ASSUME NEW O, Newest(O), NEW T, T \subseteq O, T # {}
  PROVE  Confirm!Max(T) \in T /\ Confirm!Max({0} \cup T) = Confirm!Max(T)
<1>1. T \in SUBSET O
  BY Zenon
<1>2. PICK m \in T : \A i \in T : m >= i
  BY <1>1, Zenon DEF Newest
<1>3. \A i \in T : i \in Nat \ {0}
  BY Zenon DEF Newest
<1>4. T \subseteq Int /\ ({0} \cup T) \subseteq Int /\ m >= 0
  BY <1>3
<1>5. Confirm!Max(T) = m
  BY <1>2, <1>4, LargestOf, Zenon
<1>6. m \in {0} \cup T /\ \A y \in {0} \cup T : m >= y
  BY <1>2, <1>4, Zenon
<1>7. Confirm!Max({0} \cup T) = m
  BY <1>4, <1>6, LargestOf, Zenon
<1>. QED BY <1>2, <1>5, <1>7, Zenon

\* Where a chain leads depends on its own decisions.
LEMMA ChainStays ==
  ASSUME NEW D, NEW E, NEW O, Newest(O), \A i \in O : E[i] = D[i], NEW s, Chain(D, O, s)
  PROVE  Chain(E, O, s)
<1>1. s = IF O = {} THEN "open" ELSE E[Confirm!Max({0} \cup O)].new
  <2>1. CASE O = {}
    BY <2>1, Zenon DEF Chain
  <2>2. CASE O # {}
    <3>1. Confirm!Max({0} \cup O) \in O
      BY <2>2, LastOne, Zenon
    <3>2. E[Confirm!Max({0} \cup O)] = D[Confirm!Max({0} \cup O)]
      BY <3>1, Zenon
    <3>. QED BY <2>2, <3>2, Zenon DEF Chain
  <2>. QED BY <2>1, <2>2, Zenon
<1>2. ASSUME NEW i \in O
      PROVE  E[i].old = IF Before(O, i) = {} THEN "open" ELSE E[Confirm!Max(Before(O, i))].new
  <2>1. PICK T : T = Before(O, i)
    BY Zenon
  <2>2. T \subseteq O
    BY <2>1, Zenon DEF Before
  <2>3. E[i].old = IF T = {} THEN "open" ELSE D[Confirm!Max(T)].new
    BY <1>2, <2>1, Zenon DEF Chain
  <2>4. T # {} => E[Confirm!Max(T)] = D[Confirm!Max(T)]
    BY <2>2, LastOne, Zenon
  <2>. QED BY <2>1, <2>3, <2>4, Zenon
<1>. QED BY <1>1, <1>2, Zenon DEF Chain

\* One more decision, from where the chain has led so far.
LEMMA ChainGrows ==
  ASSUME NEW D, NEW E, NEW O, Newest(O), \A i \in O : E[i] = D[i], NEW s, Chain(D, O, s),
         NEW n \in Nat \ {0}, \A i \in O : i < n, E[n].old = s
  PROVE  Newest(O \cup {n}) /\ Chain(E, O \cup {n}, E[n].new)
<1>1. Chain(E, O, s)
  BY ChainStays, Zenon
<1>2. O \subseteq Nat \ {0} /\ \A i \in O : i \in Nat
  BY Zenon DEF Newest
<1>3. Newest(O \cup {n})
  <2>1. ASSUME NEW T \in SUBSET (O \cup {n}), T # {} PROVE \E m \in T : \A i \in T : m >= i
    <3>1. CASE n \in T
      <4>1. \A i \in T : n >= i
        BY <1>2
      <4>. QED BY <3>1, <4>1, Zenon
    <3>2. CASE n \notin T
      <4>1. T \in SUBSET O
        BY <3>2, Zenon
      <4>. QED BY <2>1, <4>1, Zenon DEF Newest
    <3>. QED BY <3>1, <3>2, Zenon
  <2>2. O \cup {n} \subseteq Nat \ {0}
    BY <1>2, Zenon
  <2>. QED BY <2>1, <2>2, Zenon DEF Newest
<1>4. Confirm!Max({0} \cup (O \cup {n})) = n
  <2>1. n \in {0} \cup (O \cup {n}) /\ ({0} \cup (O \cup {n})) \subseteq Int /\ \A y \in {0} \cup (O \cup {n}) : n >= y
    BY <1>2
  <2>. QED BY <2>1, LargestOf, Zenon
<1>5. Before(O \cup {n}, n) = O
  <2>1. ~(n < n) /\ \A i \in O : i < n
    OBVIOUS
  <2>. QED BY <2>1, Zenon DEF Before
<1>6. \A i \in O : Before(O \cup {n}, i) = Before(O, i)
  <2>1. \A i \in O : ~(n < i)
    BY <1>2
  <2>. QED BY <2>1, Zenon DEF Before
<1>7. E[n].old = IF O = {} THEN "open" ELSE E[Confirm!Max(O)].new
  <2>1. O # {} => Confirm!Max({0} \cup O) = Confirm!Max(O)
    BY LastOne, Zenon
  <2>2. E[n].old = IF O = {} THEN "open" ELSE E[Confirm!Max({0} \cup O)].new
    BY <1>1, Zenon DEF Chain
  <2>. QED BY <2>1, <2>2, Zenon
<1>8. ASSUME NEW i \in O \cup {n}
      PROVE  E[i].old = IF Before(O \cup {n}, i) = {} THEN "open" ELSE E[Confirm!Max(Before(O \cup {n}, i))].new
  <2>1. CASE i = n
    BY <1>5, <1>7, <2>1, Zenon
  <2>2. CASE i \in O
    <3>1. E[i].old = IF Before(O, i) = {} THEN "open" ELSE E[Confirm!Max(Before(O, i))].new
      BY <1>1, <2>2, Zenon DEF Chain
    <3>. QED BY <1>6, <2>2, <3>1, Zenon
  <2>. QED BY <1>8, <2>1, <2>2, Zenon
<1>9. Chain(E, O \cup {n}, E[n].new)
  <2>1. O \cup {n} # {}
    BY Zenon
  <2>. QED BY <1>4, <1>8, <2>1, Zenon DEF Chain
<1>. QED BY <1>3, <1>9, Zenon

-----------------------------------------------------------------------------
(* The steps of a confirmation.                                            *)

\* What a step that appends exceptions or changes their status leaves as it was.
ExceptionsStay ==
    /\ DOMAIN exceptions \subseteq DOMAIN exceptions'
    /\ \A e \in DOMAIN exceptions : /\ exceptions'[e].conf = exceptions[e].conf
                                    /\ exceptions'[e].type = exceptions[e].type
                                    /\ exceptions'[e].pos = exceptions[e].pos

\* A confirmation that is accounted for stays so while its rows and its exceptions stay.
LEMMA AccountedStays ==
  ASSUME ExceptionsStay, NEW k, Accounted(k),
         confirmations'[k].rows = confirmations[k].rows, confirmations'[k].lines = confirmations[k].lines
  PROVE  Accounted(k)'
<1>1. ASSUME NEW p \in DOMAIN confirmations'[k].rows,
             p \notin Confirm!Matched(confirmations'[k].rows, confirmations'[k].lines)
      PROVE  \E e \in DOMAIN exceptions' :
                exceptions'[e].conf = k /\ exceptions'[e].type = "missing_position" /\ exceptions'[e].pos = p
  <2>1. p \notin Confirm!Matched(confirmations[k].rows, confirmations[k].lines)
    BY <1>1, Zenon
  <2>2. PICK e \in DOMAIN exceptions :
           exceptions[e].conf = k /\ exceptions[e].type = "missing_position" /\ exceptions[e].pos = p
    BY <1>1, <2>1, Zenon DEF Accounted
  <2>. QED BY <2>2, Zenon DEF ExceptionsStay
<1>. QED BY <1>1, Zenon DEF Accounted

\* The decisions stay: so does the trace of an exception whose status stays.
LEMMA TraceStays ==
  ASSUME decisions' = decisions, NEW e, Traced(e) /\ Newest(Own(e)), exceptions'[e].status = exceptions[e].status
  PROVE  (Traced(e) /\ Newest(Own(e)))'
<1>1. Own(e)' = Own(e)
  BY Zenon DEF Own
<1>2. Newest(Own(e))'
  BY <1>1, Zenon DEF Newest
<1>4. Traced(e)'
  BY <1>1, Zenon DEF Traced
<1>. QED BY <1>2, <1>4, Zenon

\* A step that leaves the books alone.
LEMMA OnlyRequests ==
  ASSUME ConfirmInv, UNCHANGED <<confirmations, exceptions, decisions>>, IsTable(order.rows)', MatchesHold'
  PROVE  ConfirmInv'
<1>1. BooksHold'
  BY Zenon DEF ConfirmInv, BooksHold, ConfirmationRow, ExceptionRow
<1>2. ExceptionsStay
  BY Zenon DEF ExceptionsStay
<1>3. \A k \in DOMAIN confirmations' : Accounted(k)'
  BY <1>2, AccountedStays, Zenon DEF ConfirmInv
<1>4. \A e \in DOMAIN exceptions' : (Traced(e) /\ Newest(Own(e)))'
  BY TraceStays, Zenon DEF ConfirmInv
<1>. QED BY <1>1, <1>3, <1>4, Zenon DEF ConfirmInv

\* One request moves.
LEMMA MatchMoves ==
  ASSUME MatchesHold, DOMAIN confirmations \subseteq DOMAIN confirmations', NEW t \in Threads, NEW q,
         thread' = [thread EXCEPT ![t] = q], MatchHolds(q)'
  PROVE  MatchesHold'
<1>1. thread' = [u \in Threads |-> thread'[u]] /\ thread'[t] = q
      /\ \A u \in Threads : u # t => thread'[u] = thread[u]
  BY Zenon DEF MatchesHold
<1>2. ASSUME NEW u \in Threads PROVE MatchHolds(thread[u])'
  <2>1. CASE u = t
    BY <1>1, <2>1, Zenon DEF MatchHolds
  <2>2. CASE u # t
    <3>1. PICK r : r = thread[u]
      BY Zenon
    <3>2. MatchHolds(r)
      BY <3>1, Zenon DEF MatchesHold
    <3>3. MatchHolds(r)'
      BY <3>2, Zenon DEF MatchHolds
    <3>4. thread'[u] = r
      BY <1>1, <2>2, <3>1, Zenon
    <3>. QED BY <3>3, <3>4, Zenon DEF MatchHolds
  <2>. QED BY <2>1, <2>2, Zenon
<1>. QED BY <1>1, <1>2, Zenon DEF MatchesHold

\* A thread without a request has nothing to keep.
LEMMA NoMatch == MatchHolds(Confirm!Idle) /\ MatchHolds(Confirm!Idle)'
<1>1. PICK r : r = Confirm!Idle
  BY Zenon
<1>2. /\ r = [pc |-> r.pc, id |-> r.id, exc |-> r.exc, act |-> r.act, version |-> r.version, rows |-> r.rows]
      /\ r.pc = "idle" /\ r.rows = <<>>
  BY <1>1, Zenon DEF Confirm!Idle
<1>3. IsTable(<<>>)
  BY DEF IsTable
<1>4. r.pc \notin {"fetch", "match"}
  BY <1>2, Zenon
<1>5. MatchHolds(r) /\ MatchHolds(r)'
  BY <1>2, <1>3, <1>4, Zenon DEF MatchHolds
<1>. QED BY <1>1, <1>5, Zenon

\* A new confirmation has not been matched: it names no position of the order.
LEMMA CreateStep ==
  ASSUME ConfirmInv, NEW t \in Threads, NEW entry, IsTable(entry), Confirm!CreateConfirmation(t, entry)
  PROVE  ConfirmInv'
<1>1. PICK row : row = [lines |-> entry, status |-> "matching_in_progress", severity |-> [i \in DOMAIN entry |-> "yellow"],
                        rows |-> <<>>, review |-> FALSE, inbox |-> "context_confirmed"]
  BY Zenon
<1>2. PICK n : n = Len(confirmations) + 1
  BY Zenon
<1>3. PICK q : q = [Confirm!Idle EXCEPT !.pc = "fetch", !.id = n]
  BY Zenon
<1>4. /\ confirmations' = Append(confirmations, row) /\ thread' = [thread EXCEPT ![t] = q]
      /\ UNCHANGED <<order, exceptions, decisions>>
  BY <1>1, <1>2, <1>3, Zenon DEF Confirm!CreateConfirmation
<1>5. /\ IsTable(confirmations') /\ DOMAIN confirmations' = DOMAIN confirmations \cup {n}
      /\ confirmations'[n] = row /\ \A k \in DOMAIN confirmations : confirmations'[k] = confirmations[k]
  <2>1. IsTable(confirmations)
    BY Zenon DEF ConfirmInv, BooksHold
  <2>. QED BY <1>2, <1>4, <2>1, Inserted
<1>6. row.rows = <<>> /\ IsTable(<<>>) /\ DOMAIN <<>> = {}
  BY <1>1 DEF IsTable
<1>7. ConfirmationRow(row)
  <2>1. /\ row = [lines |-> row.lines, status |-> row.status, severity |-> row.severity,
                  rows |-> row.rows, review |-> row.review, inbox |-> row.inbox]
        /\ row.lines = entry
    BY <1>1, Zenon
  <2>. QED BY <1>6, <2>1, Zenon DEF ConfirmationRow
<1>8. BooksHold'
  BY <1>4, <1>5, <1>7, Zenon DEF ConfirmInv, BooksHold, ConfirmationRow, ExceptionRow
<1>9. MatchesHold'
  <2>1. /\ q = [pc |-> q.pc, id |-> q.id, exc |-> q.exc, act |-> q.act, version |-> q.version, rows |-> q.rows]
        /\ q.rows = <<>> /\ q.id = n
    BY <1>3, Zenon DEF Confirm!Idle
  <2>2. MatchHolds(q)'
    BY <1>5, <1>6, <2>1, Zenon DEF MatchHolds
  <2>. QED BY <1>4, <1>5, <2>2, MatchMoves, Zenon DEF ConfirmInv
<1>10. ASSUME NEW k \in DOMAIN confirmations' PROVE Accounted(k)'
  <2>1. CASE k \in DOMAIN confirmations
    <3>1. ExceptionsStay
      BY <1>4, Zenon DEF ExceptionsStay
    <3>. QED BY <1>5, <2>1, <3>1, AccountedStays, Zenon DEF ConfirmInv
  <2>2. CASE k = n
    BY <1>5, <1>6, <2>2, Zenon DEF Accounted
  <2>. QED BY <1>5, <2>1, <2>2, Zenon
<1>11. \A e \in DOMAIN exceptions' : (Traced(e) /\ Newest(Own(e)))'
  BY <1>4, TraceStays, Zenon DEF ConfirmInv
<1>. QED BY <1>8, <1>9, <1>10, <1>11, Zenon DEF ConfirmInv

\* The match context is read: the positions are those of the order at that moment.
LEMMA FetchStep ==
  ASSUME ConfirmInv, NEW t \in Threads, Confirm!FetchMatchContext(t)
  PROVE  ConfirmInv'
<1>1. PICK r : r = thread[t]
  BY Zenon
<1>2. MatchHolds(r) /\ r.pc = "fetch"
  BY <1>1, Zenon DEF ConfirmInv, MatchesHold, Confirm!FetchMatchContext
<1>3. PICK q : q = [r EXCEPT !.pc = "match", !.version = order.version, !.rows = order.rows]
  BY Zenon
<1>4. /\ thread' = [thread EXCEPT ![t].pc = "match", ![t].version = order.version, ![t].rows = order.rows]
      /\ UNCHANGED <<order, confirmations, exceptions, decisions>>
  BY Zenon DEF Confirm!FetchMatchContext
<1>5. thread' = [thread EXCEPT ![t] = [@ EXCEPT !.pc = "match", !.version = order.version, !.rows = order.rows]]
  BY <1>4, Zenon
<1>6. thread' = [thread EXCEPT ![t] = q]
  BY <1>1, <1>3, <1>5, Zenon
<1>7. /\ q = [pc |-> q.pc, id |-> q.id, exc |-> q.exc, act |-> q.act, version |-> q.version, rows |-> q.rows]
      /\ q.rows = order.rows /\ q.id = r.id
  BY <1>2, <1>3, Zenon DEF MatchHolds
<1>8. IsTable(order.rows)
  BY Zenon DEF ConfirmInv, BooksHold
<1>9. r.id \in DOMAIN confirmations
  <2>1. r.pc \in {"fetch", "match"}
    BY <1>2, Zenon
  <2>. QED BY <1>2, <2>1, Zenon DEF MatchHolds
<1>10. MatchHolds(q)'
  BY <1>4, <1>7, <1>8, <1>9, Zenon DEF MatchHolds
<1>11. MatchesHold'
  BY <1>4, <1>6, <1>10, MatchMoves, Zenon DEF ConfirmInv
<1>. QED BY <1>4, <1>8, <1>11, OnlyRequests, Zenon

\* One confirmation row changes, and keeps its lines.
LEMMA ConfirmationMoves ==
  ASSUME ConfirmInv, NEW k \in DOMAIN confirmations, NEW row, ConfirmationRow(row),
         confirmations' = [confirmations EXCEPT ![k] = row]
  PROVE  /\ IsTable(confirmations') /\ DOMAIN confirmations' = DOMAIN confirmations /\ confirmations'[k] = row
         /\ \A j \in DOMAIN confirmations : j # k => confirmations'[j] = confirmations[j]
         /\ \A j \in DOMAIN confirmations' : ConfirmationRow(confirmations'[j])
<1>1. /\ IsTable(confirmations') /\ DOMAIN confirmations' = DOMAIN confirmations /\ confirmations'[k] = row
      /\ \A j \in DOMAIN confirmations : j # k => confirmations'[j] = confirmations[j]
  BY Updated, Zenon DEF ConfirmInv, BooksHold
<1>2. \A j \in DOMAIN confirmations' : ConfirmationRow(confirmations'[j])
  BY <1>1, Zenon DEF ConfirmInv, BooksHold
<1>. QED BY <1>1, <1>2, Zenon

\* The result of a match: what it does not compare it reports.
LEMMA WriteStep ==
  ASSUME ConfirmInv, NEW t \in Threads, Confirm!WriteMatching(t)
  PROVE  ConfirmInv'
<1>. DEFINE r == thread[t]
            k == r.id
            lines == confirmations[k].lines
            N == Confirm!FoundExceptions(k, r.rows, lines)
            s == Confirm!Inserts(N)
            a == Confirm!RollUp(k, r.rows, lines)
            b == [i \in DOMAIN lines |-> Confirm!LineSeverity(r.rows, lines[i])]
            c == \E e \in DOMAIN exceptions : exceptions[e].conf = k /\ exceptions[e].status = "open"
            d == IF a = "context_revision_required" THEN "context_revision_required" ELSE "matching_complete"
            stale == r.version # order.version /\ r.rows # <<>>
<1>1. /\ r.pc = "match" /\ Confirm!Finish(t) /\ UNCHANGED <<order, decisions>>
      /\ stale => UNCHANGED <<confirmations, exceptions>>
      /\ ~stale => /\ confirmations' = [confirmations EXCEPT ![k].status = a, ![k].rows = r.rows,
                                                             ![k].severity = b, ![k].review = c, ![k].inbox = d]
                   /\ exceptions' = exceptions \o s
  BY Zenon DEF Confirm!WriteMatching
<1>2. MatchHolds(r)
  BY Zenon DEF ConfirmInv, MatchesHold
<1>. HIDE DEF r, k, lines, N, s, a, b, c, d, stale
<1>3. k \in DOMAIN confirmations /\ IsTable(r.rows)
  <2>1. r.pc \in {"fetch", "match"}
    BY <1>1, Zenon
  <2>. QED BY <1>2, <2>1, Zenon DEF MatchHolds, k
<1>4. thread' = [thread EXCEPT ![t] = Confirm!Idle]
  BY <1>1, Zenon DEF Confirm!Finish
<1>5. IsTable(order.rows)'
  BY <1>1, Zenon DEF ConfirmInv, BooksHold
<1>6. CASE stale
  <2>1. UNCHANGED <<confirmations, exceptions>>
    BY <1>1, <1>6, Zenon
  <2>2. MatchesHold'
    BY <1>4, <2>1, NoMatch, MatchMoves, Zenon DEF ConfirmInv
  <2>. QED BY <1>1, <1>5, <2>1, <2>2, OnlyRequests, Zenon
<1>7. CASE ~stale
  <2>2. /\ confirmations' = [confirmations EXCEPT ![k].status = a, ![k].rows = r.rows,
                                                  ![k].severity = b, ![k].review = c, ![k].inbox = d]
        /\ exceptions' = exceptions \o s
    BY <1>1, <1>7, Zenon
  <2>3. PICK row : row = [confirmations[k] EXCEPT !.status = a, !.rows = r.rows, !.severity = b, !.review = c, !.inbox = d]
    BY Zenon
  <2>4. confirmations' = [confirmations EXCEPT ![k] = row]
    <3>1. confirmations' = [confirmations EXCEPT ![k] =
                              [@ EXCEPT !.status = a, !.rows = r.rows, !.severity = b, !.review = c, !.inbox = d]]
      BY <2>2, Zenon
    <3>. QED BY <2>3, <3>1, Zenon
  <2>5. ConfirmationRow(row) /\ row.rows = r.rows /\ row.lines = lines /\ IsTable(lines)
    <3>1. ConfirmationRow(confirmations[k])
      BY <1>3, Zenon DEF ConfirmInv, BooksHold
    <3>2. PICK o : o = confirmations[k]
      BY Zenon
    <3>3. /\ row = [lines |-> row.lines, status |-> row.status, severity |-> row.severity,
                    rows |-> row.rows, review |-> row.review, inbox |-> row.inbox]
          /\ row.rows = r.rows /\ row.lines = o.lines
      <4>1. o = [lines |-> o.lines, status |-> o.status, severity |-> o.severity,
                 rows |-> o.rows, review |-> o.review, inbox |-> o.inbox]
        BY <3>1, <3>2, Zenon DEF ConfirmationRow
      <4>2. row = [o EXCEPT !.status = a, !.rows = r.rows, !.severity = b, !.review = c, !.inbox = d]
        BY <2>3, <3>2, Zenon
      <4>. QED BY <4>1, <4>2, Zenon
    <3>. QED BY <1>3, <3>1, <3>2, <3>3, Zenon DEF ConfirmationRow, lines
  <2>6. /\ IsTable(confirmations') /\ DOMAIN confirmations' = DOMAIN confirmations /\ confirmations'[k] = row
        /\ \A j \in DOMAIN confirmations : j # k => confirmations'[j] = confirmations[j]
        /\ \A j \in DOMAIN confirmations' : ConfirmationRow(confirmations'[j])
    BY <1>3, <2>4, <2>5, ConfirmationMoves, Zenon
  <2>7. /\ IsFiniteSet(N)
        /\ \A x \in N : ExceptionRow(x) /\ x.conf = k /\ x.status = "open"
        /\ \A p \in DOMAIN r.rows : p \in Confirm!Matched(r.rows, lines) \/
             \E x \in N : x.type = "missing_position" /\ x.pos = p
    <3>1. IsTable(r.rows) /\ IsTable(lines)
      BY <1>3, <2>5, Zenon
    <3>2. Findings(k, r.rows, lines, N)
      BY <3>1, ManyFindings, Zenon DEF N
    <3>. QED BY <3>2, Zenon DEF Findings
  <2>8. IsTable(s) /\ (\A i \in DOMAIN s : s[i] \in N) /\ \A x \in N : \E i \in DOMAIN s : s[i] = x
    <3>1. IsFiniteSet(N)
      BY <2>7, Zenon
    <3>2. IsTable(s)
      BY <3>1, WrittenDown, Zenon DEF s
    <3>3. \A i \in DOMAIN s : s[i] \in N
      BY <3>1, WrittenDown, Zenon DEF s
    <3>4. \A x \in N : \E i \in DOMAIN s : s[i] = x
      BY <3>1, WrittenDown, Zenon DEF s
    <3>. QED BY <3>2, <3>3, <3>4, Zenon
  <2>10. /\ IsTable(exceptions')
         /\ \A e \in DOMAIN exceptions : e \in DOMAIN exceptions' /\ exceptions'[e] = exceptions[e]
         /\ \A e \in DOMAIN exceptions' : e \notin DOMAIN exceptions => exceptions'[e] \in N
         /\ \A x \in N : \E e \in DOMAIN exceptions' : exceptions'[e] = x
    <3>1. IsTable(exceptions)
      BY Zenon DEF ConfirmInv, BooksHold
    <3>2. PICK z : z = exceptions \o s
      BY Zenon
    <3>3. Joins(z, exceptions, s)
      BY <2>8, <3>1, <3>2, JoinedTables, Zenon
    <3>4. ASSUME NEW x \in N PROVE \E e \in DOMAIN z : z[e] = x
      <4>1. PICK i \in DOMAIN s : s[i] = x
        BY <2>8, <3>4, Zenon
      <4>. QED BY <3>3, <4>1, Zenon DEF Joins
    <3>5. \A e \in DOMAIN z : e \notin DOMAIN exceptions => z[e] \in N
      BY <2>8, <3>3, Zenon DEF Joins
    <3>6. exceptions' = z
      BY <2>2, <3>2, Zenon
    <3>. QED BY <3>3, <3>4, <3>5, <3>6, Zenon DEF Joins
  <2>11. BooksHold'
    <3>1. \A e \in DOMAIN exceptions' : ExceptionRow(exceptions'[e])
      BY <2>7, <2>10, Zenon DEF ConfirmInv, BooksHold
    <3>2. \A i \in DOMAIN decisions : decisions[i].exc \in DOMAIN exceptions'
      BY <2>10, Zenon DEF ConfirmInv, BooksHold
    <3>. QED BY <1>1, <1>5, <2>6, <2>10, <3>1, <3>2, Zenon DEF ConfirmInv, BooksHold, ConfirmationRow,
                ExceptionRow
  <2>12. MatchesHold'
    BY <1>4, <2>6, NoMatch, MatchMoves, Zenon DEF ConfirmInv
  <2>13. ASSUME NEW j \in DOMAIN confirmations' PROVE Accounted(j)'
    <3>1. CASE j # k
      <4>1. ExceptionsStay
        BY <2>10, Zenon DEF ExceptionsStay
      <4>2. j \in DOMAIN confirmations /\ confirmations'[j] = confirmations[j]
        BY <2>6, <2>13, <3>1, Zenon
      <4>. QED BY <4>1, <4>2, AccountedStays, Zenon DEF ConfirmInv
    <3>2. CASE j = k
      <4>1. ASSUME NEW p \in DOMAIN r.rows, p \notin Confirm!Matched(r.rows, lines)
            PROVE  \E e \in DOMAIN exceptions' :
                      exceptions'[e].conf = k /\ exceptions'[e].type = "missing_position" /\ exceptions'[e].pos = p
        <5>1. PICK x \in N : x.type = "missing_position" /\ x.pos = p
          BY <2>7, <4>1, Zenon
        <5>2. x.conf = k
          BY <2>7, <5>1, Zenon
        <5>. QED BY <2>10, <5>1, <5>2, Zenon
      <4>2. confirmations'[j].rows = r.rows /\ confirmations'[j].lines = lines
        BY <2>5, <2>6, <3>2, Zenon
      <4>. QED BY <3>2, <4>1, <4>2, Zenon DEF Accounted
    <3>. QED BY <3>1, <3>2, Zenon
  <2>14. ASSUME NEW e \in DOMAIN exceptions' PROVE (Traced(e) /\ Newest(Own(e)))'
    <3>1. CASE e \in DOMAIN exceptions
      BY <1>1, <2>10, <3>1, TraceStays, Zenon DEF ConfirmInv
    <3>2. CASE e \notin DOMAIN exceptions
      <4>1. Own(e)' = {}
        <5>1. \A i \in DOMAIN decisions : decisions[i].exc # e
          BY <3>2, Zenon DEF ConfirmInv, BooksHold
        <5>. QED BY <1>1, <5>1, Zenon DEF Own
      <4>2. exceptions'[e].status = "open"
        BY <2>7, <2>10, <2>14, <3>2, Zenon
      <4>. QED BY <4>1, <4>2, EmptyChain, Zenon DEF Traced
    <3>. QED BY <3>1, <3>2, Zenon
  <2>. QED BY <2>11, <2>12, <2>13, <2>14, Zenon DEF ConfirmInv
<1>. QED BY <1>6, <1>7, Zenon

\* A decision moves one exception from the status it has to the next, and says so.
LEMMA DecideStep ==
  ASSUME ConfirmInv, NEW t \in Threads, NEW k, NEW x, NEW act, Confirm!DecideException(t, k, x, act)
  PROVE  ConfirmInv'
<1>. DEFINE new == Confirm!NewStatus(act)
            found == x \in DOMAIN exceptions /\ exceptions[x].conf = k
            open == IF found THEN {e \in DOMAIN exceptions \ {x} : exceptions[e].conf = k /\ exceptions[e].status = "open"}
                    ELSE {}
            q == [Confirm!Idle EXCEPT !.pc = "draft", !.id = k, !.exc = x]
            d == [exc |-> x, old |-> exceptions[x].status, new |-> new]
            w == IF new = "waiting_for_supplier" THEN "suspended" ELSE IF open = {} THEN "approved" ELSE confirmations[k].status
<1>1. /\ k \in DOMAIN confirmations
      /\ confirmations' = [confirmations EXCEPT ![k].status =
            IF new = "waiting_for_supplier" THEN "suspended" ELSE IF open = {} THEN "approved" ELSE @]
      /\ found => exceptions' = [exceptions EXCEPT ![x].status = new] /\ decisions' = Append(decisions, d)
      /\ ~found => UNCHANGED <<exceptions, decisions>>
      /\ thread' = [thread EXCEPT ![t] = q] \/ thread' = thread
      /\ UNCHANGED order
  BY Zenon DEF Confirm!DecideException
<1>. HIDE DEF new, open, w, d
<1>2. PICK row : row = [confirmations[k] EXCEPT !.status = w]
  BY Zenon
<1>3. confirmations' = [confirmations EXCEPT ![k] = row]
  <2>1. confirmations' = [confirmations EXCEPT ![k] = [@ EXCEPT !.status = w]]
    BY <1>1, Zenon DEF w
  <2>. QED BY <1>2, <2>1, Zenon
<1>4. ConfirmationRow(row) /\ row.rows = confirmations[k].rows /\ row.lines = confirmations[k].lines
  <2>1. PICK o : o = confirmations[k]
    BY Zenon
  <2>2. ConfirmationRow(o)
    BY <1>1, <2>1, Zenon DEF ConfirmInv, BooksHold
  <2>3. row = [o EXCEPT !.status = w]
    BY <1>2, <2>1, Zenon
  <2>4. o = [lines |-> o.lines, status |-> o.status, severity |-> o.severity,
             rows |-> o.rows, review |-> o.review, inbox |-> o.inbox]
    BY <2>2, Zenon DEF ConfirmationRow
  <2>5. /\ row = [lines |-> row.lines, status |-> row.status, severity |-> row.severity,
                  rows |-> row.rows, review |-> row.review, inbox |-> row.inbox]
        /\ row.rows = o.rows /\ row.lines = o.lines
    BY <2>3, <2>4, Zenon
  <2>. QED BY <2>1, <2>2, <2>5, Zenon DEF ConfirmationRow
<1>5. /\ IsTable(confirmations') /\ DOMAIN confirmations' = DOMAIN confirmations /\ confirmations'[k] = row
      /\ \A j \in DOMAIN confirmations : j # k => confirmations'[j] = confirmations[j]
      /\ \A j \in DOMAIN confirmations' : ConfirmationRow(confirmations'[j])
  BY <1>1, <1>3, <1>4, ConfirmationMoves, Zenon
<1>6. \A j \in DOMAIN confirmations : /\ confirmations'[j].rows = confirmations[j].rows
                                      /\ confirmations'[j].lines = confirmations[j].lines
  BY <1>4, <1>5, Zenon
<1>7. MatchesHold'
  <2>1. CASE thread' = thread
    BY <1>5, <2>1, Zenon DEF ConfirmInv, MatchesHold, MatchHolds
  <2>2. CASE thread' = [thread EXCEPT ![t] = q]
    <3>1. PICK p : p = q
      BY Zenon
    <3>2. /\ p = [pc |-> p.pc, id |-> p.id, exc |-> p.exc, act |-> p.act, version |-> p.version, rows |-> p.rows]
          /\ p.rows = <<>> /\ p.pc = "draft"
      <4>1. p = [Confirm!Idle EXCEPT !.pc = "draft", !.id = k, !.exc = x]
        BY <3>1, Zenon
      <4>. HIDE DEF q
      <4>. QED BY <4>1, Zenon DEF Confirm!Idle
    <3>3. thread' = [thread EXCEPT ![t] = p]
      BY <2>2, <3>1, Zenon
    <3>. HIDE DEF q
    <3>4. p.pc \notin {"fetch", "match"} /\ IsTable(p.rows)
      BY <3>2 DEF IsTable
    <3>5. MatchHolds(p)'
      BY <3>2, <3>4, Zenon DEF MatchHolds
    <3>. QED BY <1>5, <3>3, <3>5, MatchMoves, Zenon DEF ConfirmInv
  <2>. QED BY <1>1, <2>1, <2>2, Zenon
<1>8. IsTable(order.rows)'
  BY <1>1, Zenon DEF ConfirmInv, BooksHold
<1>. HIDE DEF q, found
<1>9. CASE ~found
  <2>1. UNCHANGED <<exceptions, decisions>>
    BY <1>1, <1>9, Zenon
  <2>2. ExceptionsStay
    BY <2>1, Zenon DEF ExceptionsStay
  <2>3. BooksHold'
    BY <1>5, <1>8, <2>1, Zenon DEF ConfirmInv, BooksHold, ExceptionRow
  <2>4. \A j \in DOMAIN confirmations' : Accounted(j)'
    BY <1>5, <1>6, <2>2, AccountedStays, Zenon DEF ConfirmInv
  <2>5. \A e \in DOMAIN exceptions' : (Traced(e) /\ Newest(Own(e)))'
    BY <2>1, TraceStays, Zenon DEF ConfirmInv
  <2>. QED BY <1>7, <2>3, <2>4, <2>5, Zenon DEF ConfirmInv
<1>10. CASE found
  <2>1. /\ x \in DOMAIN exceptions
        /\ exceptions' = [exceptions EXCEPT ![x].status = new] /\ decisions' = Append(decisions, d)
    BY <1>1, <1>10, Zenon DEF found
  <2>2. PICK xr : xr = [exceptions[x] EXCEPT !.status = new]
    BY Zenon
  <2>3. exceptions' = [exceptions EXCEPT ![x] = xr]
    BY <2>1, <2>2, Zenon
  <2>4. /\ ExceptionRow(xr) /\ xr.status = new
        /\ xr.conf = exceptions[x].conf /\ xr.type = exceptions[x].type /\ xr.pos = exceptions[x].pos
    <3>1. ExceptionRow(exceptions[x])
      BY <2>1, Zenon DEF ConfirmInv, BooksHold
    <3>. QED BY <2>2, <3>1, Zenon DEF ExceptionRow
  <2>5. /\ IsTable(exceptions') /\ DOMAIN exceptions' = DOMAIN exceptions /\ exceptions'[x] = xr
        /\ \A e \in DOMAIN exceptions : e # x => exceptions'[e] = exceptions[e]
    <3>1. IsTable(exceptions)
      BY Zenon DEF ConfirmInv, BooksHold
    <3>2. x \in DOMAIN exceptions
      BY <2>1, Zenon
    <3>. QED BY <2>3, <3>1, <3>2, Updated, Zenon
  <2>6. PICK n : n = Len(decisions) + 1
    BY Zenon
  <2>7. /\ IsTable(decisions') /\ DOMAIN decisions' = DOMAIN decisions \cup {n}
        /\ decisions'[n] = d /\ \A i \in DOMAIN decisions : decisions'[i] = decisions[i] /\ i < n
        /\ n \in Nat \ {0}
    <3>1. IsTable(decisions)
      BY Zenon DEF ConfirmInv, BooksHold
    <3>2. PICK S : decisions \in Seq(S)
      BY <3>1, Zenon DEF IsTable
    <3>3. n \in Nat \ {0} /\ \A i \in DOMAIN decisions : i < n
      BY <2>6, <3>2
    <3>4. /\ IsTable(decisions') /\ DOMAIN decisions' = DOMAIN decisions \cup {n}
          /\ decisions'[n] = d /\ \A i \in DOMAIN decisions : decisions'[i] = decisions[i]
      BY <2>1, <2>6, <3>1, Inserted
    <3>. QED BY <3>3, <3>4, Zenon
  <2>8. d.exc = x /\ d.old = exceptions[x].status /\ d.new = new
    BY Zenon DEF d
  <2>9. ExceptionsStay
    BY <2>4, <2>5, Zenon DEF ExceptionsStay
  <2>10. BooksHold'
    <3>1. \A e \in DOMAIN exceptions' : ExceptionRow(exceptions'[e])
      BY <2>4, <2>5, Zenon DEF ConfirmInv, BooksHold
    <3>2. \A i \in DOMAIN decisions' : decisions'[i].exc \in DOMAIN exceptions'
      BY <2>1, <2>5, <2>7, <2>8, Zenon DEF ConfirmInv, BooksHold
    <3>. QED BY <1>5, <1>8, <2>5, <2>7, <3>1, <3>2, Zenon DEF BooksHold
  <2>11. \A j \in DOMAIN confirmations' : Accounted(j)'
    BY <1>5, <1>6, <2>9, AccountedStays, Zenon DEF ConfirmInv
  <2>12. ASSUME NEW e \in DOMAIN exceptions' PROVE (Traced(e) /\ Newest(Own(e)))'
    <3>1. e \in DOMAIN exceptions /\ Traced(e) /\ Newest(Own(e))
      BY <2>5, <2>12, Zenon DEF ConfirmInv
    <3>2. CASE e # x
      <4>1. exceptions'[e].status = exceptions[e].status
        BY <2>5, <3>1, <3>2, Zenon
      <4>2. Own(e)' = Own(e)
        BY <2>7, <2>8, <3>2, Zenon DEF Own
      <4>3. \A i \in Own(e) : decisions'[i] = decisions[i]
        BY <2>7, Zenon DEF Own
      <4>4. Chain(decisions', Own(e), exceptions[e].status)
        BY <3>1, <4>3, ChainStays, Zenon DEF Traced
      <4>. QED BY <3>1, <4>1, <4>2, <4>4, Zenon DEF Traced
    <3>3. CASE e = x
      <4>1. exceptions'[e].status = new /\ d.old = exceptions[e].status
        BY <2>4, <2>5, <2>8, <3>3, Zenon
      <4>2. Own(e)' = Own(e) \cup {n}
        BY <2>7, <2>8, <3>3, Zenon DEF Own
      <4>3. \A i \in Own(e) : decisions'[i] = decisions[i] /\ i < n
        BY <2>7, Zenon DEF Own
      <4>4. decisions'[n].old = exceptions[e].status /\ decisions'[n].new = new
        BY <2>7, <2>8, <4>1, Zenon
      <4>5. Newest(Own(e) \cup {n}) /\ Chain(decisions', Own(e) \cup {n}, decisions'[n].new)
        BY <2>7, <3>1, <4>3, <4>4, ChainGrows, Zenon DEF Traced
      <4>. QED BY <4>1, <4>2, <4>4, <4>5, Zenon DEF Traced
    <3>. QED BY <3>2, <3>3, Zenon
  <2>. QED BY <1>7, <2>10, <2>11, <2>12, Zenon DEF ConfirmInv
<1>. QED BY <1>9, <1>10, Zenon

\* A letter is drafted, or a request ends otherwise.
LEMMA DraftStep ==
  ASSUME ConfirmInv, NEW t \in Threads, Confirm!CreateDraft(t)
  PROVE  ConfirmInv'
<1>1. PICK q : q = Confirm!Idle
  BY Zenon
<1>2. thread' = [thread EXCEPT ![t] = q] /\ UNCHANGED <<order, confirmations, exceptions, decisions>>
  BY <1>1, Zenon DEF Confirm!CreateDraft, Confirm!Finish
<1>3. MatchHolds(q)'
  BY <1>1, NoMatch, Zenon
<1>4. MatchesHold'
  BY <1>2, <1>3, MatchMoves, Zenon DEF ConfirmInv
<1>5. IsTable(order.rows)'
  BY <1>2, Zenon DEF ConfirmInv, BooksHold
<1>. QED BY <1>2, <1>4, <1>5, OnlyRequests, Zenon

\* The order is synchronised: what was matched was matched with the positions of then.
LEMMA ConfirmSync ==
  ASSUME ConfirmInv, NEW o, IsTable(o), Confirm!Synchronise(o)
  PROVE  ConfirmInv'
<1>1. order' = [version |-> order.version + 1, rows |-> o] /\ UNCHANGED <<confirmations, exceptions, decisions, thread>>
  BY Zenon DEF Confirm!Synchronise
<1>2. order'.rows = o
  BY <1>1, Zenon
<1>3. IsTable(order.rows)'
  BY <1>2, Zenon
<1>4. MatchesHold'
  BY <1>1, Zenon DEF ConfirmInv, MatchesHold, MatchHolds
<1>. QED BY <1>1, <1>3, <1>4, OnlyRequests, Zenon

\* A crash loses the requests, not the books.
LEMMA ConfirmCrash ==
  ASSUME ConfirmInv, Confirm!Crash
  PROVE  ConfirmInv'
<1>1. thread' = [t \in Threads |-> Confirm!Idle] /\ UNCHANGED <<order, confirmations, exceptions, decisions>>
  BY Zenon DEF Confirm!Crash
<1>2. MatchesHold'
  BY <1>1, NoMatch, Zenon DEF MatchesHold
<1>3. IsTable(order.rows)'
  BY <1>1, Zenon DEF ConfirmInv, BooksHold
<1>. QED BY <1>1, <1>2, <1>3, OnlyRequests, Zenon

\* Every step keeps the invariant.
LEMMA ConfirmStep ==
  ASSUME \A q \in Orders \cup Entries : IsTable(q), ConfirmInv, [Confirm!Next]_Confirm!vars
  PROVE  ConfirmInv'
<1>1. ASSUME NEW t \in Threads, NEW e \in Entries, Confirm!CreateConfirmation(t, e) PROVE ConfirmInv'
  <2>1. IsTable(e)
    BY Zenon
  <2>. QED BY <1>1, <2>1, CreateStep, Zenon
<1>2. ASSUME NEW o \in Orders, Confirm!Synchronise(o) PROVE ConfirmInv'
  <2>1. IsTable(o)
    BY Zenon
  <2>. QED BY <1>2, <2>1, ConfirmSync, Zenon
<1>3. ASSUME UNCHANGED Confirm!vars PROVE ConfirmInv'
  <2>1. UNCHANGED <<order, confirmations, exceptions, decisions, thread>>
    BY <1>3, Zenon DEF Confirm!vars
  <2>2. MatchesHold'
    BY <2>1, Zenon DEF ConfirmInv, MatchesHold, MatchHolds
  <2>3. IsTable(order.rows)'
    BY <2>1, Zenon DEF ConfirmInv, BooksHold
  <2>. QED BY <2>1, <2>2, <2>3, OnlyRequests, Zenon
<1>. QED BY <1>1, <1>2, <1>3, FetchStep, WriteStep, DraftStep, DecideStep, ConfirmCrash, Zenon DEF Confirm!Next

\* Nothing has been confirmed at first.
LEMMA ConfirmInit ==
  ASSUME \A q \in Orders \cup Entries : IsTable(q), Confirm!Init
  PROVE  ConfirmInv
<1>1. PICK o \in Orders : order = [version |-> 0, rows |-> o]
  BY Zenon DEF Confirm!Init
<1>2. order.rows = o
  BY <1>1, Zenon
<1>3. IsTable(order.rows)
  BY <1>1, <1>2, Zenon
<1>4. /\ confirmations = <<>> /\ exceptions = <<>> /\ decisions = <<>> /\ thread = [t \in Threads |-> Confirm!Idle]
  BY Zenon DEF Confirm!Init
<1>5. IsTable(<<>>) /\ DOMAIN <<>> = {}
  BY DEF IsTable
<1>6. BooksHold
  BY <1>3, <1>4, <1>5, Zenon DEF BooksHold
<1>7. MatchesHold
  BY <1>4, NoMatch, Zenon DEF MatchesHold
<1>. QED BY <1>4, <1>5, <1>6, <1>7, Zenon DEF ConfirmInv

\* Every position of the order a confirmation was matched with is compared or reported missing, and
\* the decisions on an exception lead from open to the status it has, for every content of the order
\* and every text entered (recompute_supplier_confirmation_matching,
\* decide_supplier_confirmation_exception).
THEOREM ConfirmationsAreAccounted ==
  ASSUME \A q \in Orders \cup Entries : IsTable(q)
  PROVE  Confirm!Spec => [](Confirm!NothingGoesMissing /\ Confirm!DecisionsAreTraced)
<1>1. Confirm!Init => ConfirmInv
  BY ConfirmInit, Zenon
<1>2. ConfirmInv /\ [Confirm!Next]_Confirm!vars => ConfirmInv'
  BY ConfirmStep, Zenon
<1>3. ConfirmInv => Confirm!NothingGoesMissing /\ Confirm!DecisionsAreTraced
  BY ConfirmGoals, Zenon
<1>. QED BY <1>1, <1>2, <1>3, PTL DEF Confirm!Spec

=============================================================================
