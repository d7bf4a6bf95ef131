------------------------- MODULE RuntimeQueueProofs -------------------------
(***************************************************************************)
(* Proofs about RuntimeQueue for every set of workers, callers, tasks and  *)
(* every value of the limits.                                              *)
(***************************************************************************)
EXTENDS RuntimeQueue, FiniteSetTheorems, TLAPS

\* The key of a task's first enqueue is a queue id, and the runs of an item
\* are run ids.
LEMMA IdsLemma ==
  /\ \A t \in Tasks : InitialId(t) \in QueueIds
  /\ \A q \in QueueIds : \A n \in AttemptNumbers :
       /\ RunId(q, n) \in RunIds
       /\ <<q, n>> \in AttemptIds
<1>1. <<>> \in [1..0 -> 1..(AttemptBound + 1)] /\ 0 \in 0..RetryDepth
  BY ConstantsAssumption
<1>2. <<>> \in RetrySuffixes
  BY <1>1, Zenon DEF RetrySuffixes
<1>. QED
  BY <1>2, Zenon DEF QueueIds, InitialId, RunId, RunIds, TaskOf, AttemptIds

-----------------------------------------------------------------------------
(* Updates of one record.                                                  *)

\* SetProc changes the local state of one thread.
LEMMA SetProcLemma ==
  ASSUME TypeOK, NEW c \in Actors, NEW r \in ProcRecords, SetProc(c, r)
  PROVE  /\ proc' \in [Actors -> ProcRecords]
         /\ proc'[c] = r
         /\ \A d \in Actors \ {c} : proc'[d] = proc[d]
  BY Zenon DEF TypeOK, SetProc

\* Goto changes the label of one thread and nothing else of it.
LEMMA GotoLemma ==
  ASSUME TypeOK, NEW c \in Actors, NEW label \in WorkerPcs, Goto(c, label)
  PROVE  /\ proc' \in [Actors -> ProcRecords]
         /\ proc'[c] = [proc[c] EXCEPT !.pc = label]
         /\ \A d \in Actors \ {c} : proc'[d] = proc[d]
<1>1. proc[c] \in ProcRecords
  BY Zenon DEF TypeOK
<1>2. [proc[c] EXCEPT !.pc = label] \in ProcRecords
  BY <1>1, Zenon DEF ProcRecords
<1>. QED BY <1>2, SetProcLemma, Zenon DEF Goto

\* SetItem changes one queue item.
LEMMA SetItemLemma ==
  ASSUME TypeOK, NEW q \in QueueIds, NEW r \in ItemRecords, SetItem(q, r)
  PROVE  /\ items' \in [QueueIds -> ItemRecords]
         /\ items'[q] = r
         /\ \A p \in QueueIds \ {q} : items'[p] = items[p]
  BY Zenon DEF TypeOK, SetItem

\* The idle record is a record of a thread.
LEMMA IdleLemma == IdleProc \in ProcRecords
  BY ConstantsAssumption DEF IdleProc, ProcRecords, WorkerPcs

-----------------------------------------------------------------------------
(* Types.                                                                  *)

TypeInv == TypeOK /\ ThreadsHoldItems

\* The initial state is well-typed.
LEMMA TypeInit == Init => TypeInv
<1>. SUFFICES ASSUME Init PROVE TypeInv
  BY Zenon
<1>1. AbsentItem \in ItemRecords /\ NoAttempt \in AttemptRecords
  BY ConstantsAssumption
  DEF AbsentItem, ItemRecords, NoAttempt, AttemptRecords, QueueStatuses
<1>2. TypeOK
  BY <1>1, IdleLemma, Zenon DEF Init, TypeOK, RunStatuses
<1>3. ThreadsHoldItems
  BY Zenon DEF Init, ThreadsHoldItems, IdleProc, Busy, At, AwaitsCheck, AwaitingPcs,
         Actors, CallerPcs
<1>. QED BY <1>2, <1>3, Zenon DEF TypeInv

-----------------------------------------------------------------------------
(* What one step of a worker inside process_one may do.                    *)

StoresOK ==
  /\ runs \in [RunIds -> RunStatuses]
  /\ attempts \in [AttemptIds -> AttemptRecords]
  /\ claims \subseteq QueueIds \X Workers \X AttemptNumbers
  /\ letters \subseteq AttemptIds
  /\ quota \in [AttemptIds -> {"none", "reserved", "finalized", "refunded"}]

\* The step keeps the types, the attempt counters, the existence of items, the
\* other threads and the attempt the worker holds.  It changes the status of
\* no item but the worker's own, and that one only while the worker executes.
WorkerFrame(w) ==
  /\ TypeOK'
  /\ Busy(w)
  /\ \A q \in QueueIds :
       /\ items'[q].attempts = items[q].attempts
       /\ items[q].status # "absent" => items'[q].status # "absent"
       /\ items'[q].status # items[q].status
            => /\ q = proc[w].q
               /\ Executing(w)
               /\ proc'[w].pc \in ExecutingPcs => items'[q].status = "running"
               /\ items'[q].status = "dead_lettered"
                    => proc'[w].pc = "dead_letter"
  /\ \A d \in Actors \ {w} : proc'[d] = proc[d]
  /\ proc'[w].pc # "idle" => /\ proc'[w].q = proc[w].q
                             /\ proc'[w].n = proc[w].n
  /\ AwaitsCheck(w)' => proc'[w].left > 0
  /\ proc'[w].pc \in ExecutingPcs => Executing(w)

\* A step that gives the worker the record r and leaves the items alone.
LEMMA ProcFrame ==
  ASSUME TypeInv, NEW w \in Workers, Busy(w), NEW r \in ProcRecords,
         SetProc(w, r), UNCHANGED items, StoresOK',
         r.pc # "idle" => r.q = proc[w].q /\ r.n = proc[w].n,
         r.pc \in AwaitingPcs => r.left > 0,
         r.pc \in ExecutingPcs => Executing(w)
  PROVE  WorkerFrame(w)
<1>1. TypeOK /\ w \in Actors
  BY Zenon DEF TypeInv, Actors
<1>2. /\ proc' \in [Actors -> ProcRecords]
      /\ proc'[w] = r
      /\ \A d \in Actors \ {w} : proc'[d] = proc[d]
  BY <1>1, SetProcLemma, Zenon
<1>3. TypeOK'
  BY <1>1, <1>2, Zenon DEF TypeOK, StoresOK
<1>. QED BY <1>2, <1>3, Zenon DEF WorkerFrame, AwaitsCheck

\* A step that also gives the worker's item the record i.
LEMMA ItemFrame ==
  ASSUME TypeInv, NEW w \in Workers, Busy(w), NEW r \in ProcRecords,
         NEW i \in ItemRecords, SetProc(w, r), SetItem(proc[w].q, i), StoresOK',
         r.pc # "idle" => r.q = proc[w].q /\ r.n = proc[w].n,
         r.pc \in AwaitingPcs => r.left > 0,
         r.pc \in ExecutingPcs => Executing(w),
         i.attempts = items[proc[w].q].attempts,
         i.status # "absent",
         i.status # items[proc[w].q].status
           => /\ Executing(w)
              /\ r.pc \in ExecutingPcs => i.status = "running"
              /\ i.status = "dead_lettered" => r.pc = "dead_letter"
  PROVE  WorkerFrame(w)
<1>1. TypeOK /\ w \in Actors /\ proc[w].q \in QueueIds
  BY Zenon DEF TypeInv, Actors, ThreadsHoldItems
<1>2. /\ proc' \in [Actors -> ProcRecords]
      /\ proc'[w] = r
      /\ \A d \in Actors \ {w} : proc'[d] = proc[d]
  BY <1>1, SetProcLemma, Zenon
<1>3. /\ items' \in [QueueIds -> ItemRecords]
      /\ items'[proc[w].q] = i
      /\ \A p \in QueueIds \ {proc[w].q} : items'[p] = items[p]
  BY <1>1, SetItemLemma, Zenon
<1>4. TypeOK'
  BY <1>1, <1>2, <1>3, Zenon DEF TypeOK, StoresOK
<1>. QED BY <1>2, <1>3, <1>4, Zenon DEF WorkerFrame, AwaitsCheck

\* Every step of process_one is such a step.
LEMMA WorkerFrameLemma ==
  ASSUME TypeInv, NEW w \in Workers, ProcessOne(w) \/ UncaughtError(w)
  PROVE  WorkerFrame(w)
<1>. DEFINE q == proc[w].q
            n == proc[w].n
<1>a. /\ w \in Actors /\ w \notin Callers
      /\ proc[w] \in ProcRecords
      /\ StoresOK
  BY ConstantsAssumption, Zenon DEF TypeInv, TypeOK, StoresOK, Actors
<1>b. ASSUME Busy(w)
      PROVE  /\ q \in QueueIds /\ n \in AttemptNumbers /\ n \in 0..AttemptBound
             /\ n # 0
             /\ items[q] \in ItemRecords /\ items[q].status # "absent"
             /\ RunId(q, n) \in RunIds /\ <<q, n>> \in AttemptIds
  BY <1>b, IdsLemma, ConstantsAssumption
  DEF TypeInv, ThreadsHoldItems, Busy, TypeOK, AttemptNumbers
<1>d. AwaitsCheck(w) => proc[w].left > 0
  BY Zenon DEF TypeInv, ThreadsHoldItems
\* Steps that only move the worker to another label.
<1>g. ASSUME Busy(w), NEW label \in WorkerPcs \ {"idle"},
             Goto(w, label), UNCHANGED items, StoresOK',
             label \in ExecutingPcs => Executing(w),
             label \in AwaitingPcs => AwaitsCheck(w)
      PROVE  WorkerFrame(w)
  <2>. DEFINE r == [proc[w] EXCEPT !.pc = label]
  <2>1. /\ r \in ProcRecords
        /\ r.q = q /\ r.n = n /\ r.pc = label /\ r.left = proc[w].left
    BY <1>a, Zenon DEF ProcRecords
  <2>. QED BY <1>d, <1>g, <2>1, ProcFrame, Zenon DEF Goto
<1>1. CASE StartRun(w)
  <2>1. PICK label \in {"mark_running"} : Goto(w, label)
    BY <1>1, Zenon DEF StartRun
  <2>2. /\ Busy(w) /\ (label \in ExecutingPcs => Executing(w)) /\ UNCHANGED items
        /\ label \in AwaitingPcs => AwaitsCheck(w)
    BY <1>1, Zenon DEF StartRun, At, Busy, Executing, ExecutingPcs, AwaitsCheck, AwaitingPcs
  <2>3. StoresOK'
    BY <1>1, <1>a, <1>b, <2>2, Zenon DEF StartRun, StoresOK, RunStatuses
  <2>. QED BY <1>g, <2>1, <2>2, <2>3, Zenon DEF WorkerPcs
<1>2. CASE StartFails(w)
  <2>1. PICK label \in {"fail_read"} : Goto(w, label)
    BY <1>2, Zenon DEF StartFails
  <2>2. /\ Busy(w) /\ (label \in ExecutingPcs => Executing(w)) /\ UNCHANGED items
        /\ label \in AwaitingPcs => AwaitsCheck(w)
    BY <1>2, Zenon DEF StartFails, At, Busy, Executing, ExecutingPcs, AwaitsCheck, AwaitingPcs
  <2>3. StoresOK'
    BY <1>2, <1>a, <1>b, <2>2, Zenon DEF StartFails, StoresOK
  <2>. QED BY <1>g, <2>1, <2>2, <2>3, Zenon DEF WorkerPcs
<1>3. CASE QuotaExhausted(w)
  <2>1. PICK label \in {"fail_read"} : Goto(w, label)
    BY <1>3, Zenon DEF QuotaExhausted
  <2>2. /\ Busy(w) /\ (label \in ExecutingPcs => Executing(w)) /\ UNCHANGED items
        /\ label \in AwaitingPcs => AwaitsCheck(w)
    BY <1>3, Zenon DEF QuotaExhausted, At, Busy, Executing, ExecutingPcs, AwaitsCheck, AwaitingPcs
  <2>3. StoresOK'
    BY <1>3, <1>a, <1>b, <2>2, Zenon DEF QuotaExhausted, StoresOK
  <2>. QED BY <1>g, <2>1, <2>2, <2>3, Zenon DEF WorkerPcs
<1>4. CASE LoopSucceeds(w)
  <2>1. PICK label \in {"mark_succeeded"} : Goto(w, label)
    BY <1>4, Zenon DEF LoopSucceeds, CompleteRun
  <2>2. /\ Busy(w) /\ (label \in ExecutingPcs => Executing(w)) /\ UNCHANGED items
        /\ label \in AwaitingPcs => AwaitsCheck(w)
    BY <1>4, Zenon
    DEF LoopSucceeds, CompleteRun, At, Busy, Executing, ExecutingPcs,
        AwaitsCheck, AwaitingPcs
  <2>3. StoresOK'
    BY <1>4, <1>a, <1>b, <2>2, Zenon
    DEF LoopSucceeds, CompleteRun, StoresOK, RunStatuses
  <2>. QED BY <1>g, <2>1, <2>2, <2>3, Zenon DEF WorkerPcs
<1>5. CASE LoopFails(w)
  <2>1. PICK label \in {"fail_read"} : Goto(w, label)
    BY <1>5, Zenon DEF LoopFails, CompleteRun
  <2>2. /\ Busy(w) /\ (label \in ExecutingPcs => Executing(w)) /\ UNCHANGED items
        /\ label \in AwaitingPcs => AwaitsCheck(w)
    BY <1>5, Zenon
    DEF LoopFails, CompleteRun, At, Busy, Executing, ExecutingPcs, AwaitsCheck, AwaitingPcs
  <2>3. StoresOK'
    BY <1>5, <1>a, <1>b, <2>2, Zenon DEF LoopFails, CompleteRun, StoresOK, RunStatuses
  <2>. QED BY <1>g, <2>1, <2>2, <2>3, Zenon DEF WorkerPcs
<1>6. CASE LoopCancels(w)
  <2>1. PICK label \in {"cancel_read"} : Goto(w, label)
    BY <1>6, Zenon DEF LoopCancels, CompleteRun
  <2>2. /\ Busy(w) /\ (label \in ExecutingPcs => Executing(w)) /\ UNCHANGED items
        /\ label \in AwaitingPcs => AwaitsCheck(w)
    BY <1>6, Zenon
    DEF LoopCancels, CompleteRun, At, Busy, Executing, ExecutingPcs,
        AwaitsCheck, AwaitingPcs
  <2>3. StoresOK'
    BY <1>6, <1>a, <1>b, <2>2, Zenon
    DEF LoopCancels, CompleteRun, StoresOK, RunStatuses
  <2>. QED BY <1>g, <2>1, <2>2, <2>3, Zenon DEF WorkerPcs
<1>7. CASE FailWrite(w)
  <2>1. PICK label \in {"fail_item"} : Goto(w, label)
    BY <1>7, Zenon DEF FailWrite, CompleteRun
  <2>2. /\ Busy(w) /\ (label \in ExecutingPcs => Executing(w)) /\ UNCHANGED items
        /\ label \in AwaitingPcs => AwaitsCheck(w)
    BY <1>7, Zenon
    DEF FailWrite, CompleteRun, At, Busy, Executing, ExecutingPcs, AwaitsCheck, AwaitingPcs
  <2>3. StoresOK'
    BY <1>7, <1>a, <1>b, <2>2, Zenon DEF FailWrite, CompleteRun, StoresOK, RunStatuses
  <2>. QED BY <1>g, <2>1, <2>2, <2>3, Zenon DEF WorkerPcs
<1>8. CASE FailRead(w)
  <2>1. PICK label \in {"fail_write", "fail_item"} : Goto(w, label)
    BY <1>8, Zenon DEF FailRead
  <2>2. /\ Busy(w) /\ (label \in ExecutingPcs => Executing(w)) /\ UNCHANGED items
        /\ label \in AwaitingPcs => AwaitsCheck(w)
    BY <1>8, Zenon DEF FailRead, At, Busy, Executing, ExecutingPcs, AwaitsCheck, AwaitingPcs
  <2>3. StoresOK'
    BY <1>8, <1>a, <1>b, <2>2, Zenon DEF FailRead, StoresOK
  <2>. QED BY <1>g, <2>1, <2>2, <2>3, Zenon DEF WorkerPcs
<1>9. CASE InsertRuntimeDeadLetter(w)
  <2>1. PICK label \in {"attempt"} : Goto(w, label)
    BY <1>9, Zenon DEF InsertRuntimeDeadLetter
  <2>2. /\ Busy(w) /\ (label \in ExecutingPcs => Executing(w)) /\ UNCHANGED items
        /\ label \in AwaitingPcs => AwaitsCheck(w)
    BY <1>9, Zenon
    DEF InsertRuntimeDeadLetter, At, Busy, Executing, ExecutingPcs,
        AwaitsCheck, AwaitingPcs
  <2>3. StoresOK'
    BY <1>9, <1>a, <1>b, <2>2, Zenon DEF InsertRuntimeDeadLetter, StoresOK
  <2>. QED BY <1>g, <2>1, <2>2, <2>3, Zenon DEF WorkerPcs
<1>10. CASE Finalize(w)
  <2>1. PICK label \in {"attempt"} : Goto(w, label)
    BY <1>10, Zenon DEF Finalize
  <2>2. /\ Busy(w) /\ (label \in ExecutingPcs => Executing(w)) /\ UNCHANGED items
        /\ label \in AwaitingPcs => AwaitsCheck(w)
    BY <1>10, Zenon DEF Finalize, At, Busy, Executing, ExecutingPcs, AwaitsCheck, AwaitingPcs
  <2>3. StoresOK'
    BY <1>10, <1>a, <1>b, <2>2, Zenon DEF Finalize, StoresOK
  <2>. QED BY <1>g, <2>1, <2>2, <2>3, Zenon DEF WorkerPcs
<1>11. CASE ReleaseRuntimeQueueClaims(w)
  <2>1. PICK label \in {"cancel_run_read"} : Goto(w, label)
    BY <1>11, Zenon DEF ReleaseRuntimeQueueClaims
  <2>2. /\ Busy(w) /\ (label \in ExecutingPcs => Executing(w)) /\ UNCHANGED items
        /\ label \in AwaitingPcs => AwaitsCheck(w)
    BY <1>11, Zenon
    DEF ReleaseRuntimeQueueClaims, At, Busy, Executing, ExecutingPcs,
        AwaitsCheck, AwaitingPcs
  <2>3. StoresOK'
    BY <1>11, <1>a, <1>b, <2>2, Zenon DEF ReleaseRuntimeQueueClaims, StoresOK
  <2>. QED BY <1>g, <2>1, <2>2, <2>3, Zenon DEF WorkerPcs
<1>12. CASE UpdateRuntimeRunAttempt(w)
  <2>1. Busy(w) /\ Goto(w, "claim") /\ UNCHANGED items
    BY <1>12, Zenon DEF UpdateRuntimeRunAttempt, At, Busy
  <2>2. [status |-> items[q].status, completed |-> TRUE] \in AttemptRecords
    BY <1>b, <2>1, Zenon DEF ItemRecords, AttemptRecords
  <2>3. StoresOK'
    BY <1>12, <1>a, <2>2, Zenon DEF UpdateRuntimeRunAttempt, StoresOK
  <2>. QED BY <1>g, <2>1, <2>3, Zenon DEF WorkerPcs, ExecutingPcs, AwaitingPcs
<1>13. CASE RaiseIfItemCancelled(w)
  <2>. DEFINE r == IF items[q].status = "cancelled"
                   THEN [proc[w] EXCEPT !.pc = "cancel_run"]
                   ELSE [proc[w] EXCEPT !.pc = "phase", !.left = @ - 1]
  <2>1. Busy(w) /\ SetProc(w, r) /\ UNCHANGED items
    BY <1>13, <1>a, Zenon DEF RaiseIfItemCancelled, Goto, At, Busy
  <2>p. proc[w].left - 1 \in 0..Checkpoints
    BY <1>13, <1>a, ConstantsAssumption
    DEF RaiseIfItemCancelled, TypeInv, ThreadsHoldItems, ProcRecords, At,
        AwaitsCheck, AwaitingPcs
  <2>2. r \in ProcRecords
    BY <1>13, <1>a, <1>b, <2>1, IdleLemma, ConstantsAssumption, <2>p
    DEF ProcRecords, WorkerPcs
  <2>3. /\ r.pc # "idle" => r.q = q /\ r.n = n
        /\ r.pc \in AwaitingPcs => r.left > 0
        /\ r.pc \in ExecutingPcs => Executing(w)
    BY <1>13, <1>a, <1>d, Zenon
    DEF RaiseIfItemCancelled, ProcRecords, IdleProc, At, Executing, ExecutingPcs,
        AwaitsCheck, AwaitingPcs
  <2>4. StoresOK'
    BY <1>13, <1>a, <1>b, <2>1, Zenon DEF RaiseIfItemCancelled, StoresOK
  <2>. QED BY <2>1, <2>2, <2>3, <2>4, ProcFrame, Zenon
<1>27. CASE RaiseIfRunCancelled(w)
  <2>1. PICK label \in {"cancel_run", "check_item"} : Goto(w, label)
    BY <1>27, Zenon DEF RaiseIfRunCancelled
  <2>2. Busy(w) /\ Executing(w) /\ AwaitsCheck(w) /\ UNCHANGED items /\ StoresOK'
    BY <1>27, <1>a, Zenon
    DEF RaiseIfRunCancelled, At, Busy, Executing, ExecutingPcs, AwaitsCheck,
        AwaitingPcs, StoresOK
  <2>. QED BY <1>g, <2>1, <2>2, Zenon DEF WorkerPcs
<1>14. CASE Phase(w)
  <2>1. PICK label \in {"check", "complete", "loop_fail"} :
          Goto(w, label) /\ (label = "check" => proc[w].left > 0)
    BY <1>14, Zenon DEF Phase
  <2>. DEFINE r == [proc[w] EXCEPT !.pc = label]
  <2>2. r \in ProcRecords /\ r.pc = label /\ r.left = proc[w].left /\ r.q = q /\ r.n = n
    BY <1>a DEF ProcRecords, WorkerPcs
  <2>3. Busy(w) /\ Executing(w) /\ SetProc(w, r) /\ UNCHANGED items /\ StoresOK'
    BY <1>14, <1>a, <2>1, Zenon
    DEF Phase, At, Busy, Executing, ExecutingPcs, Goto, StoresOK
  <2>. HIDE DEF r
  <2>. QED BY <2>1, <2>2, <2>3, ProcFrame, Zenon DEF AwaitingPcs
<1>15. CASE MarkRunning(w)
  <2>. DEFINE r == [proc[w] EXCEPT !.pc = "reserve"]
              i == [items[q] EXCEPT !.status = "running", !.run = n]
  <2>1. Busy(w) /\ SetProc(w, r)
    BY <1>15, <1>a, Zenon DEF MarkRunning, Goto, At, Busy
  <2>2. r \in ProcRecords
    BY <1>15, <1>a, <1>b, <2>1, IdleLemma, ConstantsAssumption
    DEF ProcRecords, WorkerPcs
  <2>3. /\ r.pc # "idle" => r.q = q /\ r.n = n
        /\ r.pc \in AwaitingPcs => r.left > 0
        /\ r.pc \in ExecutingPcs => Executing(w)
    BY <1>15, <1>a, <1>d, Zenon
    DEF MarkRunning, ProcRecords, IdleProc, At, Executing, ExecutingPcs,
        AwaitsCheck, AwaitingPcs
  <2>4. StoresOK'
    BY <1>15, <1>a, <1>b, <2>1, Zenon DEF MarkRunning, StoresOK
  <2>5. SetItem(q, i)
    BY <1>15, <1>a, Zenon DEF MarkRunning
  <2>6. i \in ItemRecords /\ i.attempts = items[q].attempts /\ i.status # "absent"
    BY <1>a, <1>b, <2>1, Zenon DEF ItemRecords, QueueStatuses
  <2>7. i.status # items[q].status
          => /\ Executing(w)
             /\ r.pc \in ExecutingPcs => i.status = "running"
             /\ i.status = "dead_lettered" => r.pc = "dead_letter"
    BY <1>15, <1>a, <1>b, <2>1, Zenon
    DEF MarkRunning, ItemRecords, ProcRecords, At, Executing, ExecutingPcs
  <2>. QED BY <2>1, <2>2, <2>3, <2>4, <2>5, <2>6, <2>7, ItemFrame, Zenon
<1>16. CASE CancelUpdate(w)
  <2>. DEFINE r == [proc[w] EXCEPT !.pc = "cancel_release"]
              i == [items[q] EXCEPT !.status = "cancelled", !.lease = "none", !.run = n]
  <2>1. Busy(w) /\ SetProc(w, r)
    BY <1>16, <1>a, Zenon DEF CancelUpdate, Goto, At, Busy
  <2>2. r \in ProcRecords
    BY <1>16, <1>a, <1>b, <2>1, IdleLemma, ConstantsAssumption
    DEF ProcRecords, WorkerPcs
  <2>3. /\ r.pc # "idle" => r.q = q /\ r.n = n
        /\ r.pc \in AwaitingPcs => r.left > 0
        /\ r.pc \in ExecutingPcs => Executing(w)
    BY <1>16, <1>a, <1>d, Zenon
    DEF CancelUpdate, ProcRecords, IdleProc, At, Executing, ExecutingPcs,
        AwaitsCheck, AwaitingPcs
  <2>4. StoresOK'
    BY <1>16, <1>a, <1>b, <2>1, Zenon DEF CancelUpdate, StoresOK
  <2>5. SetItem(q, i)
    BY <1>16, <1>a, Zenon DEF CancelUpdate
  <2>6. i \in ItemRecords /\ i.attempts = items[q].attempts /\ i.status # "absent"
    BY <1>a, <1>b, <2>1, Zenon DEF ItemRecords, QueueStatuses
  <2>7. i.status # items[q].status
          => /\ Executing(w)
             /\ r.pc \in ExecutingPcs => i.status = "running"
             /\ i.status = "dead_lettered" => r.pc = "dead_letter"
    BY <1>16, <1>a, <1>b, <2>1, Zenon
    DEF CancelUpdate, ItemRecords, ProcRecords, At, Executing, ExecutingPcs
  <2>. QED BY <2>1, <2>2, <2>3, <2>4, <2>5, <2>6, <2>7, ItemFrame, Zenon
<1>17. CASE Reserve(w)
  <2>. DEFINE r == [proc[w] EXCEPT !.pc = "heartbeat", !.reserved = TRUE]
  <2>1. Busy(w) /\ SetProc(w, r) /\ UNCHANGED items
    BY <1>17, <1>a, Zenon DEF Reserve, Goto, At, Busy
  <2>2. r \in ProcRecords
    BY <1>17, <1>a, <1>b, <2>1, IdleLemma, ConstantsAssumption
    DEF ProcRecords, WorkerPcs
  <2>3. /\ r.pc # "idle" => r.q = q /\ r.n = n
        /\ r.pc \in AwaitingPcs => r.left > 0
        /\ r.pc \in ExecutingPcs => Executing(w)
    BY <1>17, <1>a, <1>d, Zenon
    DEF Reserve, ProcRecords, IdleProc, At, Executing, ExecutingPcs,
        AwaitsCheck, AwaitingPcs
  <2>4. StoresOK'
    BY <1>17, <1>a, <1>b, <2>1, Zenon DEF Reserve, StoresOK
  <2>. QED BY <2>1, <2>2, <2>3, <2>4, ProcFrame, Zenon
<1>18. CASE Heartbeat(w)
  <2>1. PICK label \in {"check", "loop_fail", "fail_read"} : Goto(w, label)
    BY <1>18, Zenon DEF Heartbeat
  <2>. DEFINE r == [proc[w] EXCEPT !.pc = label]
              i == [items[q] EXCEPT !.lease = "live"]
  <2>2. r \in ProcRecords /\ r.pc = label /\ r.left = proc[w].left /\ r.q = q /\ r.n = n
    BY <1>a DEF ProcRecords, WorkerPcs
  <2>3. Busy(w) /\ Executing(w) /\ SetProc(w, r) /\ SetItem(q, i) /\ StoresOK'
    BY <1>18, <1>a, <2>1, Zenon
    DEF Heartbeat, At, Busy, Executing, ExecutingPcs, Goto, StoresOK
  <2>4. i \in ItemRecords /\ i.attempts = items[q].attempts /\ i.status = items[q].status
    BY <1>b, <2>3, Zenon DEF ItemRecords
  <2>5. proc[w].left > 0
    BY <1>18, <1>d, Zenon DEF Heartbeat, At, AwaitsCheck, AwaitingPcs
  <2>. HIDE DEF r, i
  <2>. QED BY <1>b, <2>1, <2>2, <2>3, <2>4, <2>5, ItemFrame, Zenon
<1>19. CASE MarkSucceeded(w)
  <2>. DEFINE r == [proc[w] EXCEPT !.pc = "finalize", !.result = "succeeded"]
              i == [items[q] EXCEPT !.status = "succeeded", !.run = n]
  <2>1. Busy(w) /\ SetProc(w, r)
    BY <1>19, <1>a, Zenon DEF MarkSucceeded, Goto, At, Busy
  <2>2. r \in ProcRecords
    BY <1>19, <1>a, <1>b, <2>1, IdleLemma, ConstantsAssumption, Zenon
    DEF ProcRecords, WorkerPcs
  <2>3. /\ r.pc # "idle" => r.q = q /\ r.n = n
        /\ r.pc \in AwaitingPcs => r.left > 0
        /\ r.pc \in ExecutingPcs => Executing(w)
    BY <1>19, <1>a, <1>d, Zenon
    DEF MarkSucceeded, ProcRecords, IdleProc, At, Executing, ExecutingPcs,
        AwaitsCheck, AwaitingPcs
  <2>4. StoresOK'
    BY <1>19, <1>a, <1>b, <2>1, Zenon DEF MarkSucceeded, StoresOK
  <2>5. SetItem(q, i)
    BY <1>19, <1>a, Zenon DEF MarkSucceeded
  <2>6. i \in ItemRecords /\ i.attempts = items[q].attempts /\ i.status # "absent"
    BY <1>a, <1>b, <2>1, Zenon DEF ItemRecords, QueueStatuses
  <2>7. i.status # items[q].status
          => /\ Executing(w)
             /\ r.pc \in ExecutingPcs => i.status = "running"
             /\ i.status = "dead_lettered" => r.pc = "dead_letter"
    BY <1>19, <1>a, <1>b, <2>1, Zenon
    DEF MarkSucceeded, ItemRecords, ProcRecords, At, Executing, ExecutingPcs
  <2>. QED BY <2>1, <2>2, <2>3, <2>4, <2>5, <2>6, <2>7, ItemFrame, Zenon
<1>20. CASE MarkFailedOrRetry(w)
  <2>. DEFINE r == [proc[w] EXCEPT
                     !.pc = IF FailedStatus(n) = "dead_lettered"
                            THEN "dead_letter" ELSE "attempt",
                     !.result = "failed"]
              i == [items[q] EXCEPT !.status = FailedStatus(n), !.run = n,
                                !.due = FALSE, !.lease = "none"]
  <2>1. Busy(w) /\ SetProc(w, r)
    BY <1>20, <1>a, Zenon DEF MarkFailedOrRetry, Goto, At, Busy
  <2>2. r \in ProcRecords
    BY <1>20, <1>a, <1>b, <2>1, IdleLemma, ConstantsAssumption
    DEF ProcRecords, WorkerPcs
  <2>3. /\ r.pc # "idle" => r.q = q /\ r.n = n
        /\ r.pc \in AwaitingPcs => r.left > 0
        /\ r.pc \in ExecutingPcs => Executing(w)
    BY <1>20, <1>a, <1>d, Zenon
    DEF MarkFailedOrRetry, ProcRecords, IdleProc, At, Executing, ExecutingPcs,
        AwaitsCheck, AwaitingPcs
  <2>4. StoresOK'
    BY <1>20, <1>a, <1>b, <2>1, Zenon DEF MarkFailedOrRetry, StoresOK
  <2>5. SetItem(q, i)
    BY <1>20, <1>a, Zenon DEF MarkFailedOrRetry
  <2>6. i \in ItemRecords /\ i.attempts = items[q].attempts /\ i.status # "absent"
    BY <1>a, <1>b, <2>1, Zenon DEF ItemRecords, QueueStatuses, FailedStatus
  <2>7. i.status # items[q].status
          => /\ Executing(w)
             /\ r.pc \in ExecutingPcs => i.status = "running"
             /\ i.status = "dead_lettered" => r.pc = "dead_letter"
    BY <1>20, <1>a, <1>b, <2>1
    DEF MarkFailedOrRetry, ItemRecords, ProcRecords, At, Executing,
        ExecutingPcs, FailedStatus
  <2>. QED BY <2>1, <2>2, <2>3, <2>4, <2>5, <2>6, <2>7, ItemFrame, Zenon
<1>21. CASE WorkerCancelRead(w)
  <2>. DEFINE r == [proc[w] EXCEPT
              !.pc = CASE items[q].status = "cancelled" -> "attempt"
                       [] items[q].status \in UncancellableStatuses -> "dead"
                       [] OTHER -> "cancel_update",
              !.result = "cancelled"]
  <2>1. Busy(w) /\ SetProc(w, r) /\ UNCHANGED items
    BY <1>21, <1>a, Zenon DEF WorkerCancelRead, Goto, At, Busy
  <2>2. r \in ProcRecords
    BY <1>21, <1>a, <1>b, <2>1, IdleLemma, ConstantsAssumption
    DEF ProcRecords, WorkerPcs
  <2>3. /\ r.pc # "idle" => r.q = q /\ r.n = n
        /\ r.pc \in AwaitingPcs => r.left > 0
        /\ r.pc \in ExecutingPcs => Executing(w)
    BY <1>21, <1>a, <1>d, Zenon
    DEF WorkerCancelRead, ProcRecords, IdleProc, At, Executing, ExecutingPcs,
        AwaitsCheck, AwaitingPcs
  <2>4. StoresOK'
    BY <1>21, <1>a, <1>b, <2>1, Zenon DEF WorkerCancelRead, StoresOK
  <2>. QED BY <2>1, <2>2, <2>3, <2>4, ProcFrame, Zenon
<1>22. CASE UpdateRuntimeRunClaim(w)
  <2>. DEFINE r == IF proc[w].reserved /\ proc[w].result # "succeeded"
                   THEN [proc[w] EXCEPT !.pc = "refund"] ELSE IdleProc
  <2>1. Busy(w) /\ SetProc(w, r) /\ UNCHANGED items
    BY <1>22, <1>a, Zenon DEF UpdateRuntimeRunClaim, Goto, At, Busy
  <2>2. r \in ProcRecords
    BY <1>22, <1>a, <1>b, <2>1, IdleLemma, ConstantsAssumption
    DEF ProcRecords, WorkerPcs
  <2>3. /\ r.pc # "idle" => r.q = q /\ r.n = n
        /\ r.pc \in AwaitingPcs => r.left > 0
        /\ r.pc \in ExecutingPcs => Executing(w)
    BY <1>22, <1>a, <1>d, Zenon
    DEF UpdateRuntimeRunClaim, ProcRecords, IdleProc, At, Executing,
        ExecutingPcs, AwaitsCheck, AwaitingPcs
  <2>4. StoresOK'
    BY <1>22, <1>a, <1>b, <2>1, Zenon DEF UpdateRuntimeRunClaim, StoresOK
  <2>. QED BY <2>1, <2>2, <2>3, <2>4, ProcFrame, Zenon
<1>23. CASE Refund(w)
  <2>. DEFINE r == IdleProc
  <2>1. Busy(w) /\ SetProc(w, r) /\ UNCHANGED items
    BY <1>23, <1>a, Zenon DEF Refund, Goto, At, Busy
  <2>2. r \in ProcRecords
    BY <1>23, <1>a, <1>b, <2>1, IdleLemma, ConstantsAssumption, Zenon
    DEF ProcRecords, WorkerPcs
  <2>3. /\ r.pc # "idle" => r.q = q /\ r.n = n
        /\ r.pc \in AwaitingPcs => r.left > 0
        /\ r.pc \in ExecutingPcs => Executing(w)
    BY <1>23, <1>a, <1>d, Zenon
    DEF Refund, ProcRecords, IdleProc, At, Executing, ExecutingPcs,
        AwaitsCheck, AwaitingPcs
  <2>4. StoresOK'
    BY <1>23, <1>a, <1>b, <2>1, Zenon DEF Refund, StoresOK
  <2>. QED BY <2>1, <2>2, <2>3, <2>4, ProcFrame, Zenon
<1>24. CASE CancelRunWrite(w)
  <2>. DEFINE r == [proc[w] EXCEPT !.pc = "attempt"]
  <2>1. Busy(w) /\ SetProc(w, r) /\ UNCHANGED items
    BY <1>24, <1>a, Zenon DEF CancelRunWrite, CancelReturns, Goto, At, Busy
  <2>2. r \in ProcRecords
    BY <1>24, <1>a, <1>b, <2>1, IdleLemma, ConstantsAssumption
    DEF ProcRecords, WorkerPcs
  <2>3. /\ r.pc # "idle" => r.q = q /\ r.n = n
        /\ r.pc \in AwaitingPcs => r.left > 0
        /\ r.pc \in ExecutingPcs => Executing(w)
    BY <1>24, <1>a, <1>d, Zenon
    DEF CancelRunWrite, CancelReturns, ProcRecords, IdleProc, At, Executing,
        ExecutingPcs, AwaitsCheck, AwaitingPcs
  <2>4. StoresOK'
    BY <1>24, <1>a, <1>b, <2>1, Zenon
    DEF CancelRunWrite, CancelReturns, StoresOK, RunStatuses
  <2>. QED BY <2>1, <2>2, <2>3, <2>4, ProcFrame, Zenon
<1>26. CASE UncaughtError(w)
  <2>1. Busy(w) /\ Goto(w, "dead") /\ UNCHANGED items
    BY <1>26, Zenon DEF UncaughtError, Busy
  <2>2. StoresOK'
    BY <1>26, <1>a, Zenon DEF UncaughtError, StoresOK
  <2>. QED BY <1>g, <2>1, <2>2, Zenon DEF WorkerPcs, ExecutingPcs, AwaitingPcs
<1>25. CASE CancelRunRead(w)
  <2>. DEFINE r == IF runs[RunId(q, n)] = "running"
                   THEN [proc[w] EXCEPT !.pc = "cancel_run_write", !.n = n]
                   ELSE [proc[w] EXCEPT !.pc = "attempt"]
  <2>1. Busy(w) /\ SetProc(w, r) /\ UNCHANGED items
    BY <1>25, <1>a, <1>b, Zenon
    DEF CancelRunRead, CancelReturns, EffectiveRun, Goto, At, Busy
  <2>2. r \in ProcRecords
    BY <1>25, <1>a, <1>b, <2>1, IdleLemma, ConstantsAssumption
    DEF ProcRecords, WorkerPcs
  <2>3. /\ r.pc # "idle" => r.q = q /\ r.n = n
        /\ r.pc \in AwaitingPcs => r.left > 0
        /\ r.pc \in ExecutingPcs => Executing(w)
    BY <1>25, <1>a, <1>d, Zenon
    DEF CancelRunRead, CancelReturns, EffectiveRun, ProcRecords, IdleProc, At,
        Executing, ExecutingPcs, AwaitsCheck, AwaitingPcs
  <2>4. StoresOK'
    BY <1>25, <1>a, <1>b, <2>1, Zenon
    DEF CancelRunRead, CancelReturns, EffectiveRun, StoresOK
  <2>. QED BY <2>1, <2>2, <2>3, <2>4, ProcFrame, Zenon
<1>. QED
  BY <1>1, <1>2, <1>3, <1>4, <1>5, <1>6, <1>7, <1>8, <1>9, <1>10, <1>11,
     <1>12, <1>13, <1>14, <1>15, <1>16, <1>17, <1>18, <1>19, <1>20, <1>21,
     <1>22, <1>23, <1>24, <1>25, <1>26, <1>27, Zenon
  DEF ProcessOne, MarkCancelled

-----------------------------------------------------------------------------
(* Types, for every step.                                                  *)

\* A step that keeps the existing items and moves no thread.
LEMMA EnvironmentTypeInv ==
  ASSUME TypeInv, UNCHANGED proc, StoresOK',
         items' \in [QueueIds -> ItemRecords],
         \A q \in QueueIds : items[q].status # "absent"
           => /\ items'[q].status # "absent"
              /\ items'[q].attempts = items[q].attempts
  PROVE  TypeInv'
<1>1. TypeOK'
  BY Zenon DEF TypeInv, TypeOK, StoresOK
<1>2. ThreadsHoldItems'
  BY Zenon DEF TypeInv, ThreadsHoldItems, Busy, AwaitsCheck, At
<1>. QED BY <1>1, <1>2, Zenon DEF TypeInv

\* The keys of enqueue, manual retry, time and recovery.
LEMMA EnvironmentStep ==
  ASSUME TypeInv,
         \/ \E t \in Tasks : Enqueue(t)
         \/ \E q \in QueueIds : Retry(q) \/ LeaseExpires(q) \/ ComesDue(q)
         \/ RecoverStaleClaims
  PROVE  /\ TypeInv'
         /\ UNCHANGED <<runs, attempts, letters, quota, proc>>
         /\ claims' \subseteq claims
         /\ \A q \in QueueIds : items[q].status # "absent"
              => /\ items'[q].status # "absent"
                 /\ items'[q].attempts = items[q].attempts
         /\ \A q \in QueueIds :
              items'[q].status # "dead_lettered" \/ items'[q].status = items[q].status
         /\ \A q \in QueueIds :
              \/ items'[q].status = items[q].status
              \/ items[q].status = "absent"
              \/ "recover" \in Operations
<1>. DEFINE Keeps ==
       /\ items' \in [QueueIds -> ItemRecords]
       /\ \A q \in QueueIds : items[q].status # "absent"
            => /\ items'[q].status # "absent"
               /\ items'[q].attempts = items[q].attempts
       /\ \A q \in QueueIds :
            items'[q].status # "dead_lettered" \/ items'[q].status = items[q].status
       /\ \A q \in QueueIds :
            \/ items'[q].status = items[q].status
            \/ items[q].status = "absent"
            \/ "recover" \in Operations
<1>1. TypeOK /\ StoresOK
  BY Zenon DEF TypeInv, TypeOK, StoresOK
<1>2. QueuedItem \in ItemRecords /\ QueuedItem.status = "queued"
  <2>1. AbsentItem \in ItemRecords
    BY ConstantsAssumption DEF AbsentItem, ItemRecords, QueueStatuses
  <2>. QED BY <2>1, Zenon DEF QueuedItem, ItemRecords, QueueStatuses
<1>3. ASSUME NEW q \in QueueIds, InsertRuntimeQueueItem(q)
      PROVE  Keeps
  <2>1. CASE UNCHANGED items
    BY <1>1, <2>1, Zenon DEF TypeOK
  <2>2. CASE items[q].status = "absent" /\ SetItem(q, QueuedItem)
    BY <1>1, <1>2, <2>2, SetItemLemma
  <2>. QED BY <1>3, <2>1, <2>2, Zenon DEF InsertRuntimeQueueItem
<1>4. ASSUME NEW t \in Tasks, Enqueue(t)
      PROVE  Keeps /\ UNCHANGED <<runs, attempts, claims, letters, quota, proc>>
  BY <1>3, <1>4, IdsLemma, Zenon DEF Enqueue
<1>5. ASSUME NEW q \in QueueIds, Retry(q)
      PROVE  Keeps /\ UNCHANGED <<runs, attempts, claims, letters, quota, proc>>
  BY <1>3, <1>5, Zenon DEF Retry
<1>6. ASSUME NEW q \in QueueIds, LeaseExpires(q) \/ ComesDue(q)
      PROVE  Keeps /\ UNCHANGED <<runs, attempts, claims, letters, quota, proc>>
  <2>1. PICK i \in ItemRecords :
          /\ SetItem(q, i)
          /\ i.status = items[q].status
          /\ i.attempts = items[q].attempts
    <3>1. items[q] \in ItemRecords
      BY <1>1, Zenon DEF TypeOK
    <3>2. CASE LeaseExpires(q)
      <4>. DEFINE i == [items[q] EXCEPT !.lease = "expired"]
      <4>1. i \in ItemRecords /\ i.status = items[q].status
                              /\ i.attempts = items[q].attempts
        BY <3>1, Zenon DEF ItemRecords
      <4>. QED BY <3>2, <4>1, Zenon DEF LeaseExpires
    <3>3. CASE ComesDue(q)
      <4>. DEFINE i == [items[q] EXCEPT !.due = TRUE]
      <4>1. i \in ItemRecords /\ i.status = items[q].status
                              /\ i.attempts = items[q].attempts
        BY <3>1, Zenon DEF ItemRecords
      <4>. QED BY <3>3, <4>1, Zenon DEF ComesDue
    <3>. QED BY <1>6, <3>2, <3>3, Zenon
  <2>2. Keeps
    BY <1>1, <2>1, SetItemLemma
  <2>. QED BY <1>6, <2>2, Zenon DEF LeaseExpires, ComesDue
<1>7. ASSUME RecoverStaleClaims
      PROVE  /\ Keeps /\ claims' \subseteq claims
             /\ UNCHANGED <<runs, attempts, letters, quota, proc>>
  <2>. DEFINE new(q) == IF q \in Stale
                        THEN [items[q] EXCEPT !.status = "retry_scheduled",
                                              !.lease = "none"]
                        ELSE items[q]
  <2>1. \A q \in QueueIds : items[q] \in ItemRecords
    BY <1>1, Zenon DEF TypeOK
  <2>2. \A q \in QueueIds : /\ new(q) \in ItemRecords
                            /\ new(q).attempts = items[q].attempts
                            /\ \/ new(q).status = "retry_scheduled"
                               \/ new(q).status = items[q].status
    BY <2>1 DEF ItemRecords, QueueStatuses
  <2>3. items' = [q \in QueueIds |-> new(q)] /\ "recover" \in Operations
    BY <1>7, Zenon DEF RecoverStaleClaims
  <2>. HIDE DEF new
  <2>4. Keeps
    BY <2>2, <2>3, Zenon
  <2>. QED BY <1>7, <2>4, Zenon DEF RecoverStaleClaims
<1>. HIDE DEF Keeps
<1>8. Keeps /\ claims' \subseteq claims
            /\ UNCHANGED <<runs, attempts, letters, quota, proc>>
  BY <1>4, <1>5, <1>6, <1>7, Zenon
<1>9. StoresOK'
  BY <1>1, <1>8, Zenon DEF StoresOK
<1>10. TypeInv'
  BY <1>8, <1>9, EnvironmentTypeInv, Zenon DEF Keeps
<1>. QED BY <1>8, <1>10, Zenon DEF Keeps

\* The claim: the next attempt number of a claimable item goes to an idle
\* worker, and nobody else is touched.
LEMMA ClaimStep ==
  ASSUME TypeInv, NEW w \in Workers, NEW q \in QueueIds,
         ClaimNextRuntimeQueueAttempt(w, q)
  PROVE  /\ TypeInv'
         /\ ~Busy(w) /\ items[q].status \in ClaimableStatuses
         /\ items[q].attempts \in Nat
         /\ proc'[w].pc = "start" /\ proc'[w].q = q
         /\ proc'[w].n = items[q].attempts + 1
         /\ \A d \in Actors \ {w} : proc'[d] = proc[d]
         /\ items'[q].status = "claiming"
         /\ \A p \in QueueIds \ {q} : items'[p] = items[p]
<1>. DEFINE n == items[q].attempts + 1
            i == [items[q] EXCEPT !.status = "claiming", !.attempts = n,
                                  !.lease = "live", !.run = n]
            r == [IdleProc EXCEPT !.pc = "start", !.q = q, !.n = n,
                                  !.left = Checkpoints]
<1>1. /\ TypeOK /\ StoresOK /\ ThreadsHoldItems
      /\ w \in Actors /\ w \notin Callers
      /\ items[q] \in ItemRecords
  BY ConstantsAssumption, Zenon DEF TypeInv, TypeOK, StoresOK, Actors
<1>2. /\ n \in AttemptNumbers /\ n \in 0..AttemptBound
      /\ items[q].attempts \in Nat
      /\ proc[w].pc = "idle" /\ items[q].status \in ClaimableStatuses
  BY <1>1, ConstantsAssumption
  DEF ClaimNextRuntimeQueueAttempt, At, Claimable, AttemptNumbers, ItemRecords
<1>. HIDE DEF n
<1>3. /\ i \in ItemRecords
      /\ i.status = "claiming" /\ i.attempts = n
  BY <1>1, <1>2, Zenon DEF ItemRecords, QueueStatuses
<1>4. /\ r \in ProcRecords
      /\ r.pc = "start" /\ r.q = q /\ r.n = n /\ r.left = Checkpoints
  <2>1. IdleProc \in ProcRecords
    BY IdleLemma, Zenon
  <2>2. Checkpoints \in 0..Checkpoints /\ "start" \in WorkerPcs
    BY ConstantsAssumption DEF WorkerPcs
  <2>. QED BY <1>2, <2>1, <2>2, Zenon DEF ProcRecords
<1>5. SetItem(q, i) /\ SetProc(w, r)
  BY Zenon DEF ClaimNextRuntimeQueueAttempt, n
<1>6. /\ UNCHANGED <<runs, letters, quota>>
      /\ attempts' = [attempts EXCEPT ![<<q, n>>] =
                        [status |-> "running", completed |-> FALSE]]
      /\ claims' = claims \cup {<<q, w, n>>}
  BY Zenon DEF ClaimNextRuntimeQueueAttempt, n
<1>. HIDE DEF i, r
<1>7. /\ items' \in [QueueIds -> ItemRecords]
      /\ items'[q] = i
      /\ \A p \in QueueIds \ {q} : items'[p] = items[p]
  BY <1>1, <1>3, <1>5, SetItemLemma, Zenon
<1>8. /\ proc' \in [Actors -> ProcRecords]
      /\ proc'[w] = r
      /\ \A d \in Actors \ {w} : proc'[d] = proc[d]
  BY <1>1, <1>4, <1>5, SetProcLemma, Zenon
<1>9. TypeOK'
  <2>1. [status |-> "running", completed |-> FALSE] \in AttemptRecords
    BY Zenon DEF AttemptRecords, QueueStatuses
  <2>2. attempts' \in [AttemptIds -> AttemptRecords]
    BY <1>1, <1>6, <2>1, Zenon DEF StoresOK
  <2>3. claims' \subseteq QueueIds \X Workers \X AttemptNumbers
    BY <1>1, <1>2, <1>6 DEF StoresOK
  <2>. QED BY <1>1, <1>6, <1>7, <1>8, <2>2, <2>3, Zenon DEF TypeOK
<1>10. \A p \in QueueIds : items[p].status # "absent"
         => /\ items'[p].status # "absent"
            /\ items'[p].attempts \in Nat
            /\ items[p].attempts \in Nat
            /\ items'[p].attempts >= items[p].attempts
  <2>1. \A p \in QueueIds : items[p].attempts \in Nat
    BY <1>1, ConstantsAssumption DEF TypeOK, ItemRecords
  <2>. QED BY <1>2, <1>3, <1>7, <2>1 DEF n
<1>11. ThreadsHoldItems'
  <2>1. ASSUME NEW v \in Workers, Busy(v)'
        PROVE  /\ proc'[v].q \in QueueIds
               /\ proc'[v].n \in AttemptNumbers
               /\ items'[proc'[v].q].status # "absent"
               /\ proc'[v].n <= items'[proc'[v].q].attempts
               /\ AwaitsCheck(v)' => proc'[v].left > 0
    <3>1. CASE v = w
      <4>1. n <= n /\ Checkpoints > 0
        BY <1>2, ConstantsAssumption DEF AttemptNumbers
      <4>. QED BY <1>2, <1>3, <1>4, <1>7, <1>8, <3>1, <4>1, Zenon
    <3>2. CASE v # w
      <4>1. proc'[v] = proc[v] /\ Busy(v)
        BY <1>8, <2>1, <3>2, Zenon DEF Actors, Busy
      <4>2. /\ proc[v].q \in QueueIds /\ proc[v].n \in AttemptNumbers
            /\ items[proc[v].q].status # "absent"
            /\ proc[v].n <= items[proc[v].q].attempts
            /\ AwaitsCheck(v) => proc[v].left > 0
        BY <1>1, <4>1, Zenon DEF ThreadsHoldItems
      <4>3. proc[v].n <= items'[proc[v].q].attempts
        BY <1>10, <4>2 DEF AttemptNumbers
      <4>. QED BY <1>10, <4>1, <4>2, <4>3, Zenon DEF AwaitsCheck
    <3>. QED BY <3>1, <3>2, Zenon
  <2>2. \A v \in Workers : AwaitsCheck(v)' => Busy(v)'
    BY Zenon DEF AwaitsCheck, AwaitingPcs, Busy
  <2>3. ASSUME NEW c \in Callers
        PROVE  /\ proc'[c].pc \in CallerPcs
               /\ Busy(c)' => /\ proc'[c].q \in QueueIds
                              /\ items'[proc'[c].q].status # "absent"
               /\ At(c, "cancel_run_write")' => proc'[c].n \in AttemptNumbers
    <3>1. proc'[c] = proc[c]
      BY <1>1, <1>8, Zenon DEF Actors
    <3>. QED BY <1>1, <1>10, <3>1, Zenon DEF ThreadsHoldItems, Busy, At
  <2>. QED BY <2>1, <2>2, <2>3, Zenon DEF ThreadsHoldItems
<1>. QED
  BY <1>2, <1>3, <1>4, <1>7, <1>8, <1>9, <1>11, Zenon DEF TypeInv, Busy, n

\* A caller of mark_cancelled moves no worker, keeps the items and changes a
\* status to cancelled only.
LEMMA CallerStep ==
  ASSUME TypeInv, NEW c \in Callers,
         (\E q \in QueueIds : CallerCancelRead(c, q)) \/ MarkCancelled(c)
  PROVE  /\ TypeInv'
         /\ UNCHANGED <<attempts, letters, quota>>
         /\ claims' \subseteq claims
         /\ \A d \in Actors \ {c} : proc'[d] = proc[d]
         /\ \A q \in QueueIds :
              /\ items'[q].status \in {items[q].status, "cancelled"}
              /\ items'[q].attempts = items[q].attempts
<1>. DEFINE Keeps ==
       /\ items' \in [QueueIds -> ItemRecords]
       /\ \A q \in QueueIds :
            /\ items'[q].status \in {items[q].status, "cancelled"}
            /\ items'[q].attempts = items[q].attempts
       /\ StoresOK'
       /\ UNCHANGED <<attempts, letters, quota>>
       /\ claims' \subseteq claims
     Moves(r) ==
       /\ SetProc(c, r)
       /\ r \in ProcRecords
       /\ r.pc \in CallerPcs
       /\ r.pc # "idle" => /\ r.q \in QueueIds
                           /\ items[r.q].status # "absent"
       /\ r.pc = "cancel_run_write" => r.n \in AttemptNumbers
<1>1. /\ TypeOK /\ StoresOK /\ ThreadsHoldItems
      /\ c \in Actors /\ c \notin Workers
      /\ proc[c] \in ProcRecords
  BY ConstantsAssumption, Zenon DEF TypeInv, TypeOK, StoresOK, Actors
<1>2. ASSUME UNCHANGED <<items, attempts, claims, letters, quota>>,
             runs' \in [RunIds -> RunStatuses]
      PROVE  Keeps
  BY <1>1, <1>2, Zenon DEF TypeOK, StoresOK
<1>3. ASSUME Busy(c)
      PROVE  /\ proc[c].q \in QueueIds
             /\ items[proc[c].q] \in ItemRecords
             /\ items[proc[c].q].status # "absent"
  BY <1>1, <1>3, Zenon DEF ThreadsHoldItems, TypeOK
<1>4. IdleProc \in ProcRecords /\ IdleProc.pc = "idle"
  BY IdleLemma, Zenon DEF IdleProc
<1>5. ASSUME Keeps, NEW r, Moves(r)
      PROVE  /\ TypeInv'
             /\ \A d \in Actors \ {c} : proc'[d] = proc[d]
  <2>1. /\ proc' \in [Actors -> ProcRecords]
        /\ proc'[c] = r
        /\ \A d \in Actors \ {c} : proc'[d] = proc[d]
    BY <1>1, <1>5, SetProcLemma, Zenon
  <2>2. TypeOK'
    BY <1>5, <2>1, Zenon DEF TypeOK, StoresOK
  <2>3. \A q \in QueueIds :
          /\ items[q].status # "absent" => items'[q].status # "absent"
          /\ items'[q].attempts = items[q].attempts
    BY <1>5, Zenon
  <2>4. \A w \in Workers : proc'[w] = proc[w]
    BY <1>1, <2>1, Zenon DEF Actors
  <2>5. \A d \in Callers : d = c \/ proc'[d] = proc[d]
    BY <1>1, <2>1, Zenon DEF Actors
  <2>6. ASSUME NEW d \in Callers
        PROVE  /\ proc'[d].pc \in CallerPcs
               /\ Busy(d)' => /\ proc'[d].q \in QueueIds
                              /\ items'[proc'[d].q].status # "absent"
               /\ At(d, "cancel_run_write")' => proc'[d].n \in AttemptNumbers
    <3>1. CASE d = c
      BY <1>5, <2>1, <2>3, <3>1, Zenon DEF Busy, At
    <3>2. CASE proc'[d] = proc[d]
      BY <1>1, <2>3, <3>2, Zenon DEF ThreadsHoldItems, Busy, At
    <3>. QED BY <2>5, <3>1, <3>2, Zenon
  <2>7. ThreadsHoldItems'
    BY <1>1, <2>3, <2>4, <2>6 DEF ThreadsHoldItems, Busy, AwaitsCheck
  <2>. QED BY <2>1, <2>2, <2>7, Zenon DEF TypeInv
<1>6. ASSUME NEW q \in QueueIds, CallerCancelRead(c, q)
      PROVE  Keeps /\ \E r : Moves(r)
  <2>. DEFINE r == [proc[c] EXCEPT !.pc = "cancel_update", !.q = q]
  <2>1. Moves(r)
    BY <1>1, <1>6, Zenon
    DEF CallerCancelRead, ProcRecords, WorkerPcs, CallerPcs
  <2>. QED BY <1>1, <1>2, <1>6, <2>1, Zenon DEF CallerCancelRead, StoresOK
<1>7. ASSUME CancelUpdate(c)
      PROVE  Keeps /\ \E r : Moves(r)
  <2>. DEFINE q == proc[c].q
              r == [proc[c] EXCEPT !.pc = "cancel_release"]
              i == [items[q] EXCEPT !.status = "cancelled", !.lease = "none"]
  <2>1. Busy(c)
    BY <1>7, Zenon DEF CancelUpdate, At, Busy
  <2>2. i \in ItemRecords /\ i.status = "cancelled"
                          /\ i.attempts = items[q].attempts
    BY <1>3, <2>1, Zenon DEF ItemRecords, QueueStatuses
  <2>3. SetItem(q, i)
    <3>1. [items[q] EXCEPT !.status = "cancelled", !.lease = "none",
                           !.run = IF c \in Workers THEN proc[c].n ELSE @] = i
      BY <1>1, <1>3, <2>1, Zenon DEF ItemRecords
    <3>. QED BY <1>7, <3>1, Zenon DEF CancelUpdate
  <2>. HIDE DEF i
  <2>4. /\ items' \in [QueueIds -> ItemRecords]
        /\ items'[q] = i
        /\ \A p \in QueueIds \ {q} : items'[p] = items[p]
    BY <1>1, <1>3, <2>1, <2>2, <2>3, SetItemLemma, Zenon
  <2>5. Keeps
    BY <1>1, <1>7, <2>2, <2>4, Zenon DEF CancelUpdate, StoresOK
  <2>6. Moves(r)
    BY <1>1, <1>3, <1>7, <2>1, Zenon
    DEF CancelUpdate, Goto, ProcRecords, WorkerPcs, CallerPcs
  <2>. QED BY <2>5, <2>6, Zenon
<1>8. ASSUME ReleaseRuntimeQueueClaims(c)
      PROVE  Keeps /\ \E r : Moves(r)
  <2>. DEFINE r == [proc[c] EXCEPT !.pc = "cancel_run_read"]
  <2>1. Busy(c)
    BY <1>8, Zenon DEF ReleaseRuntimeQueueClaims, At, Busy
  <2>2. Keeps
    BY <1>1, <1>8, Zenon DEF ReleaseRuntimeQueueClaims, TypeOK, StoresOK
  <2>3. Moves(r)
    BY <1>1, <1>3, <1>8, <2>1, Zenon
    DEF ReleaseRuntimeQueueClaims, Goto, ProcRecords, WorkerPcs, CallerPcs
  <2>. QED BY <2>2, <2>3, Zenon
<1>9. ASSUME CancelRunRead(c)
      PROVE  Keeps /\ \E r : Moves(r)
  <2>. DEFINE n == items[proc[c].q].run
              r == [proc[c] EXCEPT !.pc = "cancel_run_write", !.n = n]
  <2>1. Busy(c)
    BY <1>9, Zenon DEF CancelRunRead, At, Busy
  <2>2. n \in 0..AttemptBound /\ (n # 0 => n \in AttemptNumbers)
    <3>1. items[proc[c].q] \in ItemRecords
      BY <1>3, <2>1, Zenon
    <3>2. n \in 0..AttemptBound
      BY <3>1, Zenon DEF ItemRecords
    <3>. HIDE DEF n
    <3>. QED BY <3>2, ConstantsAssumption DEF AttemptNumbers
  <2>3. (SetProc(c, r) /\ n # 0) \/ SetProc(c, IdleProc)
    BY <1>1, <1>9, Zenon DEF CancelRunRead, EffectiveRun, CancelReturns
  <2>. HIDE DEF n
  <2>4. SetProc(c, r) /\ n # 0 => Moves(r)
    BY <1>1, <1>3, <2>1, <2>2, Zenon DEF ProcRecords, WorkerPcs, CallerPcs
  <2>5. SetProc(c, IdleProc) => Moves(IdleProc)
    BY <1>4, Zenon DEF CallerPcs
  <2>. QED BY <1>1, <1>2, <1>9, <2>3, <2>4, <2>5, Zenon DEF CancelRunRead, StoresOK
<1>10. ASSUME CancelRunWrite(c)
       PROVE  Keeps /\ \E r : Moves(r)
  <2>1. SetProc(c, IdleProc)
    BY <1>1, <1>10, Zenon DEF CancelRunWrite, CancelReturns
  <2>2. Moves(IdleProc)
    BY <1>4, <2>1, Zenon DEF CallerPcs
  <2>3. runs' \in [RunIds -> RunStatuses]
    BY <1>1, <1>10, Zenon DEF CancelRunWrite, StoresOK, RunStatuses
  <2>. QED BY <1>2, <1>10, <2>2, <2>3, Zenon DEF CancelRunWrite
<1>. HIDE DEF Keeps, Moves
<1>11. Keeps /\ \E r : Moves(r)
  BY <1>6, <1>7, <1>8, <1>9, <1>10, Zenon DEF MarkCancelled
<1>12. Keeps /\ TypeInv' /\ \A d \in Actors \ {c} : proc'[d] = proc[d]
  BY <1>5, <1>11, Zenon
<1>. QED BY <1>12, Zenon DEF Keeps

\* A worker's step keeps the type invariant.
LEMMA WorkerTypeInv ==
  ASSUME TypeInv, NEW w \in Workers, WorkerFrame(w)
  PROVE  TypeInv'
<1>1. w \in Actors /\ w \notin Callers /\ ThreadsHoldItems
  BY ConstantsAssumption, Zenon DEF TypeInv, Actors
<1>2. \A v \in Workers : v = w \/ proc'[v] = proc[v]
  BY <1>1, Zenon DEF WorkerFrame, Actors
<1>3. ASSUME NEW v \in Workers
      PROVE  /\ Busy(v)' => /\ proc'[v].q \in QueueIds
                            /\ proc'[v].n \in AttemptNumbers
                            /\ items'[proc'[v].q].status # "absent"
                            /\ proc'[v].n <= items'[proc'[v].q].attempts
             /\ AwaitsCheck(v)' => proc'[v].left > 0
  <2>1. CASE v = w
    BY <1>1, <2>1 DEF WorkerFrame, ThreadsHoldItems, Busy
  <2>2. CASE proc'[v] = proc[v]
    BY <1>1, <2>2 DEF WorkerFrame, ThreadsHoldItems, Busy, AwaitsCheck
  <2>. QED BY <1>2, <2>1, <2>2, Zenon
<1>4. \A c \in Callers : proc'[c] = proc[c]
  BY <1>1, Zenon DEF WorkerFrame, Actors
<1>5. ThreadsHoldItems'
  BY <1>1, <1>3, <1>4 DEF ThreadsHoldItems, WorkerFrame, Busy, At
<1>. QED BY <1>5, Zenon DEF TypeInv, WorkerFrame

\* Every step keeps the type invariant.
LEMMA TypeStep == TypeInv /\ [Next]_vars => TypeInv'
<1>. SUFFICES ASSUME TypeInv, [Next]_vars
              PROVE  TypeInv'
  BY Zenon
<1>1. CASE UNCHANGED vars
  BY <1>1, Zenon DEF vars, TypeInv, TypeOK, ThreadsHoldItems, Busy, AwaitsCheck, At
<1>2. ASSUME NEW w \in Workers, Claim(w)
      PROVE  TypeInv'
  BY <1>2, ClaimStep, Zenon DEF Claim
<1>3. ASSUME NEW w \in Workers, ProcessOne(w) \/ UncaughtError(w)
      PROVE  TypeInv'
  BY <1>3, WorkerFrameLemma, WorkerTypeInv, Zenon
<1>4. ASSUME NEW c \in Callers,
             (\E q \in QueueIds : CallerCancelRead(c, q)) \/ MarkCancelled(c)
      PROVE  TypeInv'
  BY <1>4, CallerStep, Zenon
<1>. QED BY <1>1, <1>2, <1>3, <1>4, EnvironmentStep, Zenon DEF Next

\* The records of the store and the threads keep their types in every
\* reachable state, for any number of workers, callers and tasks.
THEOREM TypeCorrect == Spec => []TypeOK
<1>1. TypeInv => TypeOK
  BY Zenon DEF TypeInv
<1>. QED BY <1>1, TypeInit, TypeStep, PTL DEF Spec

-----------------------------------------------------------------------------
(* One worker per attempt.                                                 *)

\* A claim is won by a unique insert: no step gives an attempt a second worker.
LEMMA OneWorkerStep ==
  TypeInv /\ OneWorkerPerAttempt /\ [Next]_vars => OneWorkerPerAttempt'
<1>. SUFFICES ASSUME TypeInv, OneWorkerPerAttempt, [Next]_vars
              PROVE  OneWorkerPerAttempt'
  BY Zenon
<1>a. Workers \subseteq Actors /\ Workers \cap Callers = {} /\ ThreadsHoldItems
  BY ConstantsAssumption, Zenon DEF Actors, TypeInv
<1>b. ASSUME \A v \in Workers : proc'[v] = proc[v]
      PROVE  OneWorkerPerAttempt'
  BY <1>b DEF OneWorkerPerAttempt, Busy
<1>1. CASE UNCHANGED vars
  BY <1>1, <1>b, Zenon DEF vars
<1>2. ASSUME NEW w \in Workers, Claim(w)
      PROVE  OneWorkerPerAttempt'
  <2>1. PICK q \in QueueIds : ClaimNextRuntimeQueueAttempt(w, q)
    BY <1>2, Zenon DEF Claim
  <2>2. /\ items[q].attempts \in Nat
        /\ proc'[w].q = q /\ proc'[w].n = items[q].attempts + 1
        /\ \A v \in Workers \ {w} : proc'[v] = proc[v]
    BY <2>1, <1>a, ClaimStep
  \* Every attempt of q that a worker holds is older.
  <2>3. ASSUME NEW v \in Workers, Busy(v), proc[v].q = q
        PROVE  proc[v].n # items[q].attempts + 1
    BY <1>a, <2>2, <2>3 DEF ThreadsHoldItems, AttemptNumbers
  <2>. QED BY <2>2, <2>3 DEF OneWorkerPerAttempt, Busy
<1>3. ASSUME NEW w \in Workers, ProcessOne(w) \/ UncaughtError(w)
      PROVE  OneWorkerPerAttempt'
  <2>1. WorkerFrame(w)
    BY <1>3, WorkerFrameLemma, Zenon
  <2>2. /\ Busy(w)
        /\ Busy(w)' => proc'[w].q = proc[w].q /\ proc'[w].n = proc[w].n
        /\ \A v \in Workers \ {w} : proc'[v] = proc[v]
    BY <1>a, <2>1, Zenon DEF WorkerFrame, Busy
  <2>. QED BY <2>2 DEF OneWorkerPerAttempt, Busy
<1>4. ASSUME NEW c \in Callers,
             (\E q \in QueueIds : CallerCancelRead(c, q)) \/ MarkCancelled(c)
      PROVE  OneWorkerPerAttempt'
  BY <1>4, <1>a, <1>b, CallerStep, Zenon
<1>5. ASSUME UNCHANGED proc
      PROVE  OneWorkerPerAttempt'
  BY <1>5, <1>b, Zenon
<1>. QED BY <1>1, <1>2, <1>3, <1>4, <1>5, EnvironmentStep, Zenon DEF Next

\* No attempt number of an item is ever in the hands of two workers, whatever
\* cancellations, manual retries and recoveries race the workers.
THEOREM OneWorkerPerAttemptHolds == Spec => []OneWorkerPerAttempt
<1>1. Init => OneWorkerPerAttempt
  BY DEF Init, OneWorkerPerAttempt, Busy, IdleProc, Actors
<1>. QED BY <1>1, TypeInit, TypeStep, OneWorkerStep, PTL DEF Spec

-----------------------------------------------------------------------------
(* One executing worker per item, without stale recovery.                  *)

\* An item under execution is in none of the statuses a claim starts from.
ExecutedItems ==
  \A w \in Workers : Executing(w) =>
    items[proc[w].q].status \in {"claiming", "running", "cancelled"}

ExecutorInv == SingleExecutor /\ ExecutedItems

\* Without recovery, no step gives an item a second executor.
LEMMA ExecutorStep ==
  ASSUME "recover" \notin Operations
  PROVE  TypeInv /\ ExecutorInv /\ [Next]_vars => ExecutorInv'
<1>. SUFFICES ASSUME TypeInv, ExecutorInv, [Next]_vars
              PROVE  ExecutorInv'
  BY Zenon
<1>a. Workers \subseteq Actors /\ Workers \cap Callers = {} /\ ThreadsHoldItems
  BY ConstantsAssumption, Zenon DEF Actors, TypeInv
<1>b. \A v \in Workers : Executing(v) =>
        /\ Busy(v)
        /\ proc[v].q \in QueueIds
        /\ items[proc[v].q].status # "absent"
  BY <1>a, Zenon DEF ThreadsHoldItems, Busy, Executing, ExecutingPcs
\* A step of no worker that keeps or cancels the existing items.
<1>c. ASSUME \A v \in Workers : proc'[v] = proc[v],
             \A q \in QueueIds : \/ items[q].status = "absent"
                                 \/ items'[q].status \in {items[q].status, "cancelled"}
      PROVE  ExecutorInv'
  BY <1>b, <1>c DEF ExecutorInv, SingleExecutor, ExecutedItems, Executing
<1>1. CASE UNCHANGED vars
  BY <1>1, <1>c, Zenon DEF vars
<1>2. ASSUME NEW w \in Workers, Claim(w)
      PROVE  ExecutorInv'
  <2>1. PICK q \in QueueIds : ClaimNextRuntimeQueueAttempt(w, q)
    BY <1>2, Zenon DEF Claim
  <2>2. /\ ~Busy(w) /\ items[q].status \in ClaimableStatuses
        /\ proc'[w].pc = "start" /\ proc'[w].q = q
        /\ \A v \in Workers \ {w} : proc'[v] = proc[v]
        /\ items'[q].status = "claiming"
        /\ \A p \in QueueIds \ {q} : items'[p] = items[p]
    BY <2>1, <1>a, ClaimStep
  <2>3. \A v \in Workers : Executing(v) => proc[v].q # q
    BY <2>2, Zenon DEF ExecutorInv, ExecutedItems, ClaimableStatuses
  <2>4. \A v \in Workers \ {w} : Executing(v)' => Executing(v)
    BY <2>2, Zenon DEF Executing
  <2>5. SingleExecutor'
    BY <2>2, <2>3, <2>4 DEF ExecutorInv, SingleExecutor
  <2>6. ExecutedItems'
    BY <1>b, <2>2, <2>3, <2>4 DEF ExecutorInv, ExecutedItems
  <2>. QED BY <2>5, <2>6, Zenon DEF ExecutorInv
<1>3. ASSUME NEW w \in Workers, ProcessOne(w) \/ UncaughtError(w)
      PROVE  ExecutorInv'
  <2>1. WorkerFrame(w)
    BY <1>3, WorkerFrameLemma, Zenon
  <2>2. /\ Executing(w)' => Executing(w) /\ proc'[w].q = proc[w].q
        /\ \A v \in Workers \ {w} : proc'[v] = proc[v]
    BY <1>a, <2>1, Zenon DEF WorkerFrame, Executing, ExecutingPcs
  <2>3. \A q \in QueueIds : items'[q].status # items[q].status
          => /\ q = proc[w].q
             /\ Executing(w)
             /\ Executing(w)' => items'[q].status = "running"
    BY <2>1, Zenon DEF WorkerFrame, Executing
  <2>4. SingleExecutor'
    BY <2>2 DEF ExecutorInv, SingleExecutor, Executing
  <2>5. ASSUME NEW v \in Workers, Executing(v)'
        PROVE  items'[proc'[v].q].status \in {"claiming", "running", "cancelled"}
    <3>1. Executing(v) /\ proc'[v].q = proc[v].q
      BY <2>2, <2>5, Zenon DEF Executing
    <3>2. CASE items'[proc[v].q].status = items[proc[v].q].status
      BY <3>1, <3>2, Zenon DEF ExecutorInv, ExecutedItems
    <3>3. CASE items'[proc[v].q].status # items[proc[v].q].status
      BY <1>b, <2>3, <2>5, <3>1, <3>3, Zenon DEF ExecutorInv, SingleExecutor
    <3>. QED BY <3>2, <3>3, Zenon
  <2>. QED BY <2>4, <2>5, Zenon DEF ExecutorInv, ExecutedItems
<1>4. ASSUME NEW c \in Callers,
             (\E q \in QueueIds : CallerCancelRead(c, q)) \/ MarkCancelled(c)
      PROVE  ExecutorInv'
  BY <1>4, <1>a, <1>c, CallerStep, Zenon
<1>5. ASSUME \/ \E t \in Tasks : Enqueue(t)
             \/ \E q \in QueueIds : Retry(q) \/ LeaseExpires(q) \/ ComesDue(q)
             \/ RecoverStaleClaims
      PROVE  ExecutorInv'
  BY <1>5, <1>c, EnvironmentStep, Zenon
<1>. QED BY <1>1, <1>2, <1>3, <1>4, <1>5, Zenon DEF Next

\* As long as nobody recovers stale claims, no two workers execute the same
\* queue item, and cancellations and manual retries do not change that.
THEOREM SingleExecutorHolds ==
  ASSUME "recover" \notin Operations
  PROVE  Spec => []SingleExecutor
<1>1. Init => ExecutorInv
  BY DEF Init, ExecutorInv, SingleExecutor, ExecutedItems, Executing,
         ExecutingPcs, IdleProc, Actors
<1>2. ExecutorInv => SingleExecutor
  BY Zenon DEF ExecutorInv
<1>3. TypeInv /\ ExecutorInv /\ [Next]_vars => ExecutorInv'
  BY ExecutorStep, Zenon
<1>. QED BY <1>1, <1>2, <1>3, TypeInit, TypeStep, PTL DEF Spec

-----------------------------------------------------------------------------
(* Dead letters.                                                           *)

\* A step of a worker takes no dead letter back, and writes the one it is at.
LEMMA LettersLemma ==
  ASSUME NEW w \in Workers, ProcessOne(w) \/ UncaughtError(w)
  PROVE  /\ letters \subseteq letters'
         /\ At(w, "dead_letter") => <<proc[w].q, proc[w].n>> \in letters'
  BY Zenon DEF ProcessOne, MarkCancelled, UncaughtError, StartRun, StartFails,
         MarkRunning, Reserve, QuotaExhausted, Heartbeat,
         RaiseIfRunCancelled, RaiseIfItemCancelled, Phase, LoopSucceeds, LoopFails, LoopCancels, CompleteRun, FailRead,
         FailWrite, MarkFailedOrRetry, InsertRuntimeDeadLetter, MarkSucceeded,
         Finalize, WorkerCancelRead, CancelUpdate, ReleaseRuntimeQueueClaims,
         CancelRunRead, CancelRunWrite, UpdateRuntimeRunAttempt,
         UpdateRuntimeRunClaim, Refund, At

\* A dead-lettered item has its letter, or a worker that is about to write it.
LEMMA DeadLettersStep ==
  TypeInv /\ DeadLettersRecorded /\ [Next]_vars => DeadLettersRecorded'
<1>. SUFFICES ASSUME TypeInv, DeadLettersRecorded, [Next]_vars,
                     NEW q \in QueueIds, items'[q].status = "dead_lettered"
              PROVE  \/ \E n \in AttemptNumbers : <<q, n>> \in letters'
                     \/ \E w \in Workers : At(w, "dead_letter")' /\ proc'[w].q = q
  BY Zenon DEF DeadLettersRecorded
<1>. DEFINE Recorded == \/ \E n \in AttemptNumbers : <<q, n>> \in letters'
                        \/ \E w \in Workers : At(w, "dead_letter")' /\ proc'[w].q = q
<1>a. Workers \subseteq Actors /\ Workers \cap Callers = {} /\ ThreadsHoldItems
  BY ConstantsAssumption, Zenon DEF Actors, TypeInv
\* A step that moves no worker at dead_letter and dead-letters nothing.
<1>b. ASSUME items[q].status = "dead_lettered", letters \subseteq letters',
             \A v \in Workers : At(v, "dead_letter") => proc'[v] = proc[v]
      PROVE  Recorded
  BY <1>b DEF DeadLettersRecorded, At
<1>1. CASE UNCHANGED vars
  BY <1>1, <1>b, Zenon DEF vars
<1>2. ASSUME NEW w \in Workers, Claim(w)
      PROVE  Recorded
  <2>1. PICK p \in QueueIds : ClaimNextRuntimeQueueAttempt(w, p)
    BY <1>2, Zenon DEF Claim
  <2>2. /\ ~Busy(w)
        /\ \A v \in Workers \ {w} : proc'[v] = proc[v]
        /\ items'[p].status = "claiming"
        /\ \A o \in QueueIds \ {p} : items'[o] = items[o]
    BY <2>1, <1>a, ClaimStep, Zenon
  <2>3. letters' = letters
    BY <2>1, Zenon DEF ClaimNextRuntimeQueueAttempt
  <2>. QED BY <1>b, <2>2, <2>3, Zenon DEF Busy, At
<1>3. ASSUME NEW w \in Workers, ProcessOne(w) \/ UncaughtError(w)
      PROVE  Recorded
  <2>1. WorkerFrame(w)
    BY <1>3, WorkerFrameLemma, Zenon
  <2>2. /\ letters \subseteq letters'
        /\ At(w, "dead_letter") => <<proc[w].q, proc[w].n>> \in letters'
    BY <1>3, LettersLemma, Zenon
  <2>3. CASE items'[q].status # items[q].status
    BY <2>1, <2>3, Zenon DEF WorkerFrame, At
  <2>4. CASE items'[q].status = items[q].status /\ At(w, "dead_letter") /\ proc[w].q = q
    BY <1>a, <2>2, <2>4, Zenon DEF ThreadsHoldItems, Busy, At
  <2>5. CASE items'[q].status = items[q].status /\ ~(At(w, "dead_letter") /\ proc[w].q = q)
    <3>1. \A v \in Workers \ {w} : proc'[v] = proc[v]
      BY <1>a, <2>1, Zenon DEF WorkerFrame
    <3>2. \A v \in Workers \ {w} : At(v, "dead_letter") => At(v, "dead_letter")'
      BY <3>1, Zenon DEF At
    <3>. QED BY <2>2, <2>5, <3>1, <3>2, Zenon DEF DeadLettersRecorded
  <2>. QED BY <2>3, <2>4, <2>5, Zenon
<1>4. ASSUME NEW c \in Callers,
             (\E p \in QueueIds : CallerCancelRead(c, p)) \/ MarkCancelled(c)
      PROVE  Recorded
  <2>1. /\ UNCHANGED letters
        /\ \A d \in Actors \ {c} : proc'[d] = proc[d]
        /\ items'[q].status \in {items[q].status, "cancelled"}
    BY <1>4, CallerStep, Zenon
  <2>. QED BY <1>a, <1>b, <2>1, Zenon
<1>5. ASSUME \/ \E t \in Tasks : Enqueue(t)
             \/ \E p \in QueueIds : Retry(p) \/ LeaseExpires(p) \/ ComesDue(p)
             \/ RecoverStaleClaims
      PROVE  Recorded
  <2>1. /\ UNCHANGED <<letters, proc>>
        /\ items'[q].status = items[q].status
    BY <1>5, EnvironmentStep, Zenon
  <2>. QED BY <1>b, <2>1, Zenon
<1>. QED BY <1>1, <1>2, <1>3, <1>4, <1>5, Zenon DEF Next

\* Every item in status dead_lettered has a dead-letter row, up to the one
\* store call that separates the two writes.
THEOREM DeadLettersRecordedHolds == Spec => []DeadLettersRecorded
<1>1. Init => DeadLettersRecorded
  BY DEF Init, DeadLettersRecorded, AbsentItem
<1>. QED BY <1>1, TypeInit, TypeStep, DeadLettersStep, PTL DEF Spec

-----------------------------------------------------------------------------
(* Attempts are settled.                                                   *)

\* The worker has not yet released the claim, completed the attempt row,
\* finalised or refunded the reservation.
OwesClaim(w) == Busy(w) /\ proc[w].pc # "refund"
OwesAttempt(w) == Busy(w) /\ proc[w].pc \notin {"claim", "refund"}
OwesQuota(w) == /\ Busy(w) /\ proc[w].reserved
                /\ proc[w].result = "succeeded" => proc[w].pc = "finalize"

OpenAttempt(a) == attempts[a].status # "absent" /\ ~attempts[a].completed

\* Every open row has a worker that still owes its closing.
SettledInv ==
  /\ \A k \in claims : OwesClaim(k[2]) /\ proc[k[2]].q = k[1] /\ proc[k[2]].n = k[3]
  /\ \A a \in AttemptIds : OpenAttempt(a) =>
       \E w \in Workers : OwesAttempt(w) /\ <<proc[w].q, proc[w].n>> = a
  /\ \A a \in AttemptIds : quota[a] = "reserved" =>
       \E w \in Workers : OwesQuota(w) /\ <<proc[w].q, proc[w].n>> = a
  /\ \A w \in Workers : proc[w].result = "succeeded"
       => proc[w].pc \in {"finalize", "attempt", "claim"}

\* What a worker's step does to the open rows: it opens none but a reservation
\* of its own, and it stops owing a closing only by doing it.
SettleFrame(w) ==
  LET a == <<proc[w].q, proc[w].n>> IN
  /\ claims' \subseteq claims
  /\ OwesClaim(w) => OwesClaim(w)' \/ <<proc[w].q, w, proc[w].n>> \notin claims'
  /\ \A b \in AttemptIds : OpenAttempt(b)' => OpenAttempt(b)
  /\ \A b \in AttemptIds : b = a /\ OwesAttempt(w) /\ OpenAttempt(b)'
       => OwesAttempt(w)'
  /\ \A b \in AttemptIds : quota'[b] = "reserved"
       => quota[b] = "reserved" \/ (b = a /\ OwesQuota(w)')
  /\ OwesQuota(w) => OwesQuota(w)' \/ quota'[a] # "reserved"
  /\ proc'[w].result = "succeeded"
       => proc'[w].pc \in {"finalize", "attempt", "claim"}

\* What a step of one worker leaves to the others to settle.
LEMMA SettleFrameLemma ==
  ASSUME TypeInv, SettledInv, NEW w \in Workers,
         ProcessOne(w) \/ UncaughtError(w)
  PROVE  SettleFrame(w)
<1>. DEFINE q == proc[w].q
            n == proc[w].n
<1>a. /\ w \in Actors /\ w \notin Callers
      /\ TypeOK /\ proc[w] \in ProcRecords
      /\ attempts \in [AttemptIds -> AttemptRecords]
      /\ quota \in [AttemptIds -> {"none", "reserved", "finalized", "refunded"}]
      /\ proc[w].result = "succeeded"
           => proc[w].pc \in {"finalize", "attempt", "claim"}
  BY ConstantsAssumption, Zenon DEF TypeInv, TypeOK, SettledInv, Actors
<1>b. ASSUME Busy(w)
      PROVE  <<q, n>> \in AttemptIds
  BY <1>b, IdsLemma, Zenon DEF TypeInv, ThreadsHoldItems
\* Steps that write none of the rows and stay before the attempt's records.
<1>g. ASSUME NEW r \in ProcRecords, SetProc(w, r), Busy(w),
             UNCHANGED <<attempts, quota>>, claims' \subseteq claims,
             r.pc \notin {"idle", "claim", "refund"},
             r.reserved = proc[w].reserved,
             r.result = "succeeded" => r.pc = "finalize"
      PROVE  SettleFrame(w)
  <2>1. proc'[w] = r
    BY <1>a, <1>g, SetProcLemma, Zenon
  <2>. QED
    BY <1>g, <2>1, Zenon
    DEF SettleFrame, OwesClaim, OwesAttempt, OwesQuota, OpenAttempt, Busy
<1>h. ASSUME NEW label \in WorkerPcs \ {"idle", "claim", "refund"},
             Goto(w, label), Busy(w),
             proc[w].pc \notin {"finalize", "attempt", "claim"},
             UNCHANGED <<attempts, quota>>, claims' \subseteq claims
      PROVE  SettleFrame(w)
  <2>. DEFINE r == [proc[w] EXCEPT !.pc = label]
  <2>1. /\ r \in ProcRecords
        /\ r.pc = label /\ r.reserved = proc[w].reserved
        /\ r.result = proc[w].result
    BY <1>a, Zenon DEF ProcRecords
  <2>. QED BY <1>a, <1>g, <1>h, <2>1, Zenon DEF Goto
<1>1. CASE StartRun(w)
  <2>1. PICK label \in {"mark_running"} : Goto(w, label)
    BY <1>1, Zenon DEF StartRun
  <2>2. /\ Busy(w) /\ proc[w].pc \notin {"finalize", "attempt", "claim"}
        /\ UNCHANGED <<attempts, quota>> /\ claims' \subseteq claims
    BY <1>1, Zenon DEF StartRun, At, Busy
  <2>. QED BY <1>h, <2>1, <2>2, Zenon DEF WorkerPcs
<1>2. CASE StartFails(w)
  <2>1. PICK label \in {"fail_read"} : Goto(w, label)
    BY <1>2, Zenon DEF StartFails
  <2>2. /\ Busy(w) /\ proc[w].pc \notin {"finalize", "attempt", "claim"}
        /\ UNCHANGED <<attempts, quota>> /\ claims' \subseteq claims
    BY <1>2, Zenon DEF StartFails, At, Busy
  <2>. QED BY <1>h, <2>1, <2>2, Zenon DEF WorkerPcs
<1>3. CASE UncaughtError(w)
  <2>1. PICK label \in {"dead"} : Goto(w, label)
    BY <1>3, Zenon DEF UncaughtError
  <2>2. /\ Busy(w) /\ proc[w].pc \notin {"finalize", "attempt", "claim"}
        /\ UNCHANGED <<attempts, quota>> /\ claims' \subseteq claims
    BY <1>3, Zenon DEF UncaughtError, At, Busy
  <2>. QED BY <1>h, <2>1, <2>2, Zenon DEF WorkerPcs
<1>4. CASE MarkRunning(w)
  <2>1. PICK label \in {"reserve"} : Goto(w, label)
    BY <1>4, Zenon DEF MarkRunning
  <2>2. /\ Busy(w) /\ proc[w].pc \notin {"finalize", "attempt", "claim"}
        /\ UNCHANGED <<attempts, quota>> /\ claims' \subseteq claims
    BY <1>4, Zenon DEF MarkRunning, At, Busy
  <2>. QED BY <1>h, <2>1, <2>2, Zenon DEF WorkerPcs
<1>5. CASE QuotaExhausted(w)
  <2>1. PICK label \in {"fail_read"} : Goto(w, label)
    BY <1>5, Zenon DEF QuotaExhausted
  <2>2. /\ Busy(w) /\ proc[w].pc \notin {"finalize", "attempt", "claim"}
        /\ UNCHANGED <<attempts, quota>> /\ claims' \subseteq claims
    BY <1>5, Zenon DEF QuotaExhausted, At, Busy
  <2>. QED BY <1>h, <2>1, <2>2, Zenon DEF WorkerPcs
<1>6. CASE Heartbeat(w)
  <2>1. PICK label \in {"check", "loop_fail", "fail_read"} : Goto(w, label)
    BY <1>6, Zenon DEF Heartbeat
  <2>2. /\ Busy(w) /\ proc[w].pc \notin {"finalize", "attempt", "claim"}
        /\ UNCHANGED <<attempts, quota>> /\ claims' \subseteq claims
    BY <1>6, Zenon DEF Heartbeat, At, Busy
  <2>. QED BY <1>h, <2>1, <2>2, Zenon DEF WorkerPcs
<1>7. CASE Phase(w)
  <2>1. PICK label \in {"check", "complete", "loop_fail"} : Goto(w, label)
    BY <1>7, Zenon DEF Phase
  <2>2. /\ Busy(w) /\ proc[w].pc \notin {"finalize", "attempt", "claim"}
        /\ UNCHANGED <<attempts, quota>> /\ claims' \subseteq claims
    BY <1>7, Zenon DEF Phase, At, Busy
  <2>. QED BY <1>h, <2>1, <2>2, Zenon DEF WorkerPcs
<1>8. CASE LoopSucceeds(w)
  <2>1. PICK label \in {"mark_succeeded"} : Goto(w, label)
    BY <1>8, Zenon DEF LoopSucceeds, CompleteRun
  <2>2. /\ Busy(w) /\ proc[w].pc \notin {"finalize", "attempt", "claim"}
        /\ UNCHANGED <<attempts, quota>> /\ claims' \subseteq claims
    BY <1>8, Zenon DEF LoopSucceeds, CompleteRun, At, Busy
  <2>. QED BY <1>h, <2>1, <2>2, Zenon DEF WorkerPcs
<1>9. CASE LoopFails(w)
  <2>1. PICK label \in {"fail_read"} : Goto(w, label)
    BY <1>9, Zenon DEF LoopFails, CompleteRun
  <2>2. /\ Busy(w) /\ proc[w].pc \notin {"finalize", "attempt", "claim"}
        /\ UNCHANGED <<attempts, quota>> /\ claims' \subseteq claims
    BY <1>9, Zenon DEF LoopFails, CompleteRun, At, Busy
  <2>. QED BY <1>h, <2>1, <2>2, Zenon DEF WorkerPcs
<1>10. CASE LoopCancels(w)
  <2>1. PICK label \in {"cancel_read"} : Goto(w, label)
    BY <1>10, Zenon DEF LoopCancels, CompleteRun
  <2>2. /\ Busy(w) /\ proc[w].pc \notin {"finalize", "attempt", "claim"}
        /\ UNCHANGED <<attempts, quota>> /\ claims' \subseteq claims
    BY <1>10, Zenon DEF LoopCancels, CompleteRun, At, Busy
  <2>. QED BY <1>h, <2>1, <2>2, Zenon DEF WorkerPcs
<1>11. CASE FailWrite(w)
  <2>1. PICK label \in {"fail_item"} : Goto(w, label)
    BY <1>11, Zenon DEF FailWrite, CompleteRun
  <2>2. /\ Busy(w) /\ proc[w].pc \notin {"finalize", "attempt", "claim"}
        /\ UNCHANGED <<attempts, quota>> /\ claims' \subseteq claims
    BY <1>11, Zenon DEF FailWrite, CompleteRun, At, Busy
  <2>. QED BY <1>h, <2>1, <2>2, Zenon DEF WorkerPcs
<1>12. CASE FailRead(w)
  <2>1. PICK label \in {"fail_write", "fail_item"} : Goto(w, label)
    BY <1>12, Zenon DEF FailRead
  <2>2. /\ Busy(w) /\ proc[w].pc \notin {"finalize", "attempt", "claim"}
        /\ UNCHANGED <<attempts, quota>> /\ claims' \subseteq claims
    BY <1>12, Zenon DEF FailRead, At, Busy
  <2>. QED BY <1>h, <2>1, <2>2, Zenon DEF WorkerPcs
<1>13. CASE InsertRuntimeDeadLetter(w)
  <2>1. PICK label \in {"attempt"} : Goto(w, label)
    BY <1>13, Zenon DEF InsertRuntimeDeadLetter
  <2>2. /\ Busy(w) /\ proc[w].pc \notin {"finalize", "attempt", "claim"}
        /\ UNCHANGED <<attempts, quota>> /\ claims' \subseteq claims
    BY <1>13, Zenon DEF InsertRuntimeDeadLetter, At, Busy
  <2>. QED BY <1>h, <2>1, <2>2, Zenon DEF WorkerPcs
<1>14. CASE CancelUpdate(w)
  <2>1. PICK label \in {"cancel_release"} : Goto(w, label)
    BY <1>14, Zenon DEF CancelUpdate
  <2>2. /\ Busy(w) /\ proc[w].pc \notin {"finalize", "attempt", "claim"}
        /\ UNCHANGED <<attempts, quota>> /\ claims' \subseteq claims
    BY <1>14, Zenon DEF CancelUpdate, At, Busy
  <2>. QED BY <1>h, <2>1, <2>2, Zenon DEF WorkerPcs
<1>15. CASE ReleaseRuntimeQueueClaims(w)
  <2>1. PICK label \in {"cancel_run_read"} : Goto(w, label)
    BY <1>15, Zenon DEF ReleaseRuntimeQueueClaims
  <2>2. /\ Busy(w) /\ proc[w].pc \notin {"finalize", "attempt", "claim"}
        /\ UNCHANGED <<attempts, quota>> /\ claims' \subseteq claims
    BY <1>15, Zenon DEF ReleaseRuntimeQueueClaims, At, Busy
  <2>. QED BY <1>h, <2>1, <2>2, Zenon DEF WorkerPcs
<1>16. CASE RaiseIfItemCancelled(w)
  <2>1. CASE Goto(w, "cancel_run")
    BY <1>h, <1>16, <2>1, Zenon DEF RaiseIfItemCancelled, At, Busy, WorkerPcs
  <2>2. CASE SetProc(w, [proc[w] EXCEPT !.pc = "phase", !.left = @ - 1])
    <3>. DEFINE r == [proc[w] EXCEPT !.pc = "phase", !.left = @ - 1]
    <3>1. proc[w].left - 1 \in 0..Checkpoints
      BY <1>16, <1>a, ConstantsAssumption
      DEF RaiseIfItemCancelled, TypeInv, ThreadsHoldItems, ProcRecords, At, AwaitsCheck,
          AwaitingPcs
    <3>2. /\ r \in ProcRecords /\ r.pc = "phase"
          /\ r.reserved = proc[w].reserved /\ r.result = proc[w].result
      BY <1>a, <3>1, Zenon DEF ProcRecords, WorkerPcs
    <3>. HIDE DEF r
    <3>. QED
      BY <1>a, <1>g, <1>16, <2>2, <3>2, Zenon DEF RaiseIfItemCancelled, At, Busy, r
  <2>. QED BY <1>16, <2>1, <2>2, Zenon DEF RaiseIfItemCancelled
<1>27. CASE RaiseIfRunCancelled(w)
  <2>1. PICK label \in {"cancel_run", "check_item"} : Goto(w, label)
    BY <1>27, Zenon DEF RaiseIfRunCancelled
  <2>2. /\ Busy(w) /\ proc[w].pc \notin {"finalize", "attempt", "claim"}
        /\ UNCHANGED <<attempts, quota>> /\ claims' \subseteq claims
    BY <1>27, Zenon DEF RaiseIfRunCancelled, At, Busy
  <2>. QED BY <1>h, <2>1, <2>2, Zenon DEF WorkerPcs
<1>17. CASE MarkSucceeded(w)
  <2>. DEFINE r == [proc[w] EXCEPT !.pc = "finalize", !.result = "succeeded"]
  <2>1. /\ Busy(w) /\ SetProc(w, r)
        /\ UNCHANGED <<attempts, quota>> /\ claims' \subseteq claims
    BY <1>17, <1>a, Zenon DEF MarkSucceeded, At, Busy
  <2>2. /\ r \in ProcRecords /\ r.pc \notin {"idle", "claim", "refund"}
        /\ r.reserved = proc[w].reserved
        /\ r.result = "succeeded" => r.pc = "finalize"
    BY <1>17, <1>a, Zenon DEF MarkSucceeded, ProcRecords, WorkerPcs, At
  <2>. QED BY <1>g, <2>1, <2>2, Zenon
<1>18. CASE MarkFailedOrRetry(w)
  <2>. DEFINE r == [proc[w] EXCEPT
                     !.pc = IF FailedStatus(n) = "dead_lettered"
                            THEN "dead_letter" ELSE "attempt",
                     !.result = "failed"]
  <2>1. /\ Busy(w) /\ SetProc(w, r)
        /\ UNCHANGED <<attempts, quota>> /\ claims' \subseteq claims
    BY <1>18, <1>a, Zenon DEF MarkFailedOrRetry, At, Busy
  <2>2. /\ r \in ProcRecords /\ r.pc \notin {"idle", "claim", "refund"}
        /\ r.reserved = proc[w].reserved
        /\ r.result = "succeeded" => r.pc = "finalize"
    BY <1>18, <1>a, Zenon DEF MarkFailedOrRetry, ProcRecords, WorkerPcs, At
  <2>. QED BY <1>g, <2>1, <2>2, Zenon
<1>19. CASE WorkerCancelRead(w)
  <2>. DEFINE r == [proc[w] EXCEPT
              !.pc = CASE items[q].status = "cancelled" -> "attempt"
                       [] items[q].status \in UncancellableStatuses -> "dead"
                       [] OTHER -> "cancel_update",
              !.result = "cancelled"]
  <2>1. /\ Busy(w) /\ SetProc(w, r)
        /\ UNCHANGED <<attempts, quota>> /\ claims' \subseteq claims
    BY <1>19, <1>a, Zenon DEF WorkerCancelRead, At, Busy
  <2>2. /\ r \in ProcRecords /\ r.pc \notin {"idle", "claim", "refund"}
        /\ r.reserved = proc[w].reserved
        /\ r.result = "succeeded" => r.pc = "finalize"
    BY <1>19, <1>a, Zenon DEF WorkerCancelRead, ProcRecords, WorkerPcs, At
  <2>. QED BY <1>g, <2>1, <2>2, Zenon
<1>20. CASE CancelRunWrite(w)
  <2>. DEFINE r == [proc[w] EXCEPT !.pc = "attempt"]
  <2>1. /\ Busy(w) /\ SetProc(w, r)
        /\ UNCHANGED <<attempts, quota>> /\ claims' \subseteq claims
    BY <1>20, <1>a, Zenon DEF CancelRunWrite, CancelReturns, At, Busy
  <2>2. /\ r \in ProcRecords /\ r.pc \notin {"idle", "claim", "refund"}
        /\ r.reserved = proc[w].reserved
        /\ r.result = "succeeded" => r.pc = "finalize"
    BY <1>20, <1>a, Zenon
    DEF CancelRunWrite, CancelReturns, ProcRecords, WorkerPcs, At
  <2>. QED BY <1>g, <2>1, <2>2, Zenon
<1>21. CASE CancelRunRead(w)
  <2>1. CASE CancelReturns(w)
    BY <1>a, <1>h, <1>21, <2>1, Zenon
    DEF CancelRunRead, CancelReturns, Goto, At, Busy, WorkerPcs
  <2>2. CASE SetProc(w, [proc[w] EXCEPT !.pc = "cancel_run_write", !.n = n])
    <3>. DEFINE r == [proc[w] EXCEPT !.pc = "cancel_run_write", !.n = n]
    <3>1. /\ r \in ProcRecords /\ r.pc = "cancel_run_write"
          /\ r.reserved = proc[w].reserved /\ r.result = proc[w].result
      BY <1>a DEF ProcRecords, WorkerPcs
    <3>. HIDE DEF r
    <3>. QED BY <1>a, <1>g, <1>21, <2>2, <3>1, Zenon DEF CancelRunRead, At, Busy, r
  <2>. QED BY <1>a, <1>21, <2>1, <2>2, Zenon DEF CancelRunRead, EffectiveRun
<1>22. CASE Reserve(w)
  <2>. DEFINE r == [proc[w] EXCEPT !.pc = "heartbeat", !.reserved = TRUE]
  <2>1. /\ At(w, "reserve") /\ Busy(w)
        /\ SetProc(w, r) /\ UNCHANGED <<attempts, claims>>
        /\ quota' = [quota EXCEPT ![<<q, n>>] = "reserved"]
    BY <1>22, Zenon DEF Reserve, At, Busy
  <2>2. /\ r \in ProcRecords /\ r.pc = "heartbeat" /\ r.reserved
        /\ r.result = proc[w].result
    BY <1>a DEF ProcRecords, WorkerPcs
  <2>. HIDE DEF r
  <2>3. proc'[w] = r /\ r.result # "succeeded"
    BY <1>a, <2>1, <2>2, SetProcLemma, Zenon DEF At
  <2>4. OwesClaim(w)' /\ OwesAttempt(w)' /\ OwesQuota(w)'
    BY <2>2, <2>3, Zenon DEF OwesClaim, OwesAttempt, OwesQuota, Busy
  <2>5. \A b \in AttemptIds : b # <<q, n>> => quota'[b] = quota[b]
    BY <1>a, <2>1, Zenon
  <2>. QED BY <2>1, <2>2, <2>3, <2>4, <2>5, Zenon DEF SettleFrame, OpenAttempt
<1>23. CASE Finalize(w)
  <2>. DEFINE r == [proc[w] EXCEPT !.pc = "attempt"]
  <2>1. /\ At(w, "finalize") /\ Busy(w)
        /\ SetProc(w, r) /\ UNCHANGED <<attempts, claims>>
        /\ quota' = [quota EXCEPT ![<<q, n>>] =
                        IF proc[w].reserved THEN "finalized" ELSE @]
    BY <1>23, Zenon DEF Finalize, Goto, At, Busy
  <2>2. /\ r \in ProcRecords /\ r.pc = "attempt"
    BY <1>a, Zenon DEF ProcRecords, WorkerPcs
  <2>. HIDE DEF r
  <2>3. proc'[w] = r
    BY <1>a, <2>1, <2>2, SetProcLemma, Zenon
  <2>4. OwesClaim(w)' /\ OwesAttempt(w)'
    BY <2>2, <2>3, Zenon DEF OwesClaim, OwesAttempt, Busy
  <2>5. /\ \A b \in AttemptIds : quota'[b] \in {quota[b], "finalized"}
        /\ OwesQuota(w) => quota'[<<q, n>>] # "reserved"
    BY <1>a, <1>b, <2>1, Zenon DEF OwesQuota
  <2>. QED BY <2>1, <2>2, <2>3, <2>4, <2>5, Zenon DEF SettleFrame, OpenAttempt
<1>24. CASE UpdateRuntimeRunAttempt(w)
  <2>. DEFINE r == [proc[w] EXCEPT !.pc = "claim"]
              row == [status |-> items[q].status, completed |-> TRUE]
  <2>1. /\ At(w, "attempt") /\ Busy(w)
        /\ SetProc(w, r) /\ UNCHANGED <<quota, claims>>
        /\ attempts' = [attempts EXCEPT ![<<q, n>>] = row]
    BY <1>24, Zenon DEF UpdateRuntimeRunAttempt, Goto, At, Busy
  <2>2. /\ r \in ProcRecords /\ r.pc = "claim"
        /\ r.reserved = proc[w].reserved /\ r.result = proc[w].result
        /\ row.completed = TRUE
    BY <1>a DEF ProcRecords, WorkerPcs
  <2>. HIDE DEF r, row
  <2>3. proc'[w] = r
    BY <1>a, <2>1, <2>2, SetProcLemma, Zenon
  <2>4. OwesClaim(w)' /\ (OwesQuota(w) => OwesQuota(w)')
    BY <2>1, <2>2, <2>3, Zenon DEF OwesClaim, OwesQuota, Busy, At
  <2>5. /\ \A b \in AttemptIds : b # <<q, n>> => attempts'[b] = attempts[b]
        /\ attempts'[<<q, n>>] = row
    BY <1>a, <1>b, <2>1, Zenon
  <2>6. /\ \A b \in AttemptIds : OpenAttempt(b)' => OpenAttempt(b)
        /\ \A b \in AttemptIds : b = <<q, n>> => ~OpenAttempt(b)'
    BY <2>2, <2>5, Zenon DEF OpenAttempt
  <2>. QED BY <2>1, <2>2, <2>3, <2>4, <2>6, Zenon DEF SettleFrame
<1>25. CASE UpdateRuntimeRunClaim(w)
  <2>. DEFINE r == IF proc[w].reserved /\ proc[w].result # "succeeded"
                   THEN [proc[w] EXCEPT !.pc = "refund"] ELSE IdleProc
  <2>1. /\ At(w, "claim") /\ Busy(w)
        /\ SetProc(w, r) /\ UNCHANGED <<attempts, quota>>
        /\ claims' = claims \ {<<q, w, n>>}
    BY <1>25, Zenon DEF UpdateRuntimeRunClaim, At, Busy
  <2>2. /\ r \in ProcRecords /\ r.result # "succeeded"
        /\ OwesQuota(w) => r.pc = "refund" /\ r.reserved
    BY <1>a, <2>1, IdleLemma
    DEF ProcRecords, WorkerPcs, IdleProc, OwesQuota, At
  <2>. HIDE DEF r
  <2>3. proc'[w] = r
    BY <1>a, <2>1, <2>2, SetProcLemma, Zenon
  <2>4. OwesQuota(w) => OwesQuota(w)'
    BY <2>2, <2>3, Zenon DEF OwesQuota, Busy
  <2>5. ~OwesAttempt(w)
    BY <2>1, Zenon DEF OwesAttempt, At
  <2>. QED BY <2>1, <2>2, <2>3, <2>4, <2>5, Zenon DEF SettleFrame, OpenAttempt
<1>26. CASE Refund(w)
  <2>1. /\ At(w, "refund") /\ Busy(w)
        /\ SetProc(w, IdleProc) /\ UNCHANGED <<attempts, claims>>
        /\ quota' = [quota EXCEPT ![<<q, n>>] = "refunded"]
    BY <1>26, Zenon DEF Refund, At, Busy
  <2>2. proc'[w] = IdleProc /\ IdleProc.result = "none"
    BY <1>a, <2>1, IdleLemma, SetProcLemma, Zenon DEF IdleProc
  <2>3. ~OwesClaim(w) /\ ~OwesAttempt(w)
    BY <2>1, Zenon DEF OwesClaim, OwesAttempt, At
  <2>4. /\ \A b \in AttemptIds : quota'[b] \in {quota[b], "refunded"}
        /\ quota'[<<q, n>>] # "reserved"
    BY <1>a, <1>b, <2>1, Zenon
  <2>. QED BY <2>1, <2>2, <2>3, <2>4, Zenon DEF SettleFrame, OpenAttempt
<1>. QED
  BY <1>1, <1>2, <1>3, <1>4, <1>5, <1>6, <1>7, <1>8, <1>9, <1>10, <1>11,
     <1>12, <1>13, <1>14, <1>15, <1>16, <1>17, <1>18, <1>19, <1>20, <1>21,
     <1>22, <1>23, <1>24, <1>25, <1>26, <1>27
  DEF ProcessOne, MarkCancelled

\* Every open row keeps a worker that owes its closing.
LEMMA SettledStep == TypeInv /\ SettledInv /\ [Next]_vars => SettledInv'
<1>. SUFFICES ASSUME TypeInv, SettledInv, [Next]_vars
              PROVE  SettledInv'
  BY Zenon
<1>a. /\ Workers \subseteq Actors /\ Workers \cap Callers = {}
      /\ claims \subseteq QueueIds \X Workers \X AttemptNumbers
      /\ attempts \in [AttemptIds -> AttemptRecords]
  BY ConstantsAssumption, Zenon DEF Actors, TypeInv, TypeOK
\* A step that moves no worker and opens no row.
<1>b. ASSUME \A v \in Workers : proc'[v] = proc[v],
             UNCHANGED <<attempts, quota>>, claims' \subseteq claims
      PROVE  SettledInv'
  <2>1. \A v \in Workers : /\ OwesClaim(v)' <=> OwesClaim(v)
                           /\ OwesAttempt(v)' <=> OwesAttempt(v)
                           /\ OwesQuota(v)' <=> OwesQuota(v)
    BY <1>b, Zenon DEF OwesClaim, OwesAttempt, OwesQuota, Busy
  <2>2. \A k \in claims' :
          OwesClaim(k[2])' /\ proc'[k[2]].q = k[1] /\ proc'[k[2]].n = k[3]
    BY <1>a, <1>b, <2>1, Zenon DEF SettledInv
  <2>3. \A a \in AttemptIds : OpenAttempt(a)' =>
          \E w \in Workers : OwesAttempt(w)' /\ <<proc'[w].q, proc'[w].n>> = a
    BY <1>b, <2>1 DEF SettledInv, OpenAttempt
  <2>4. \A a \in AttemptIds : quota'[a] = "reserved" =>
          \E w \in Workers : OwesQuota(w)' /\ <<proc'[w].q, proc'[w].n>> = a
    BY <1>b, <2>1 DEF SettledInv
  <2>. QED BY <1>b, <2>2, <2>3, <2>4, Zenon DEF SettledInv
<1>1. CASE UNCHANGED vars
  BY <1>1, <1>b, Zenon DEF vars
<1>2. ASSUME NEW w \in Workers, Claim(w)
      PROVE  SettledInv'
  <2>1. PICK q \in QueueIds : ClaimNextRuntimeQueueAttempt(w, q)
    BY <1>2, Zenon DEF Claim
  <2>. DEFINE n == items[q].attempts + 1
  <2>2. /\ ~Busy(w)
        /\ proc'[w].pc = "start" /\ proc'[w].q = q /\ proc'[w].n = n
        /\ \A v \in Workers \ {w} : proc'[v] = proc[v]
    BY <2>1, <1>a, ClaimStep
  <2>3. /\ UNCHANGED quota
        /\ attempts' = [attempts EXCEPT ![<<q, n>>] =
                          [status |-> "running", completed |-> FALSE]]
        /\ claims' = claims \cup {<<q, w, n>>}
    BY <2>1, Zenon DEF ClaimNextRuntimeQueueAttempt
  <2>4. proc'[w].result = "none"
    <3>1. /\ TypeOK /\ w \in Actors
          /\ proc' = [proc EXCEPT ![w] =
               [IdleProc EXCEPT !.pc = "start", !.q = q, !.n = n,
                                !.left = Checkpoints]]
      BY <1>a, <2>1, Zenon DEF ClaimNextRuntimeQueueAttempt, SetProc, TypeInv
    <3>. QED BY <3>1, Zenon DEF TypeOK, IdleProc
  <2>. HIDE DEF n
  <2>5. \A v \in Workers \ {w} : /\ OwesClaim(v)' <=> OwesClaim(v)
                                 /\ OwesAttempt(v)' <=> OwesAttempt(v)
                                 /\ OwesQuota(v)' <=> OwesQuota(v)
    BY <2>2, Zenon DEF OwesClaim, OwesAttempt, OwesQuota, Busy
  <2>6. /\ OwesClaim(w)' /\ OwesAttempt(w)'
        /\ ~OwesClaim(w) /\ ~OwesAttempt(w) /\ ~OwesQuota(w)
    BY <2>2, Zenon DEF OwesClaim, OwesAttempt, OwesQuota, Busy
  <2>7. \A k \in claims' :
          OwesClaim(k[2])' /\ proc'[k[2]].q = k[1] /\ proc'[k[2]].n = k[3]
    <3>1. \A k \in claims : k[2] \in Workers \ {w}
      BY <1>a, <2>6, Zenon DEF SettledInv
    <3>2. ASSUME NEW k \in claims
          PROVE  OwesClaim(k[2])' /\ proc'[k[2]].q = k[1] /\ proc'[k[2]].n = k[3]
      <4>1. /\ k[2] \in Workers \ {w} /\ OwesClaim(k[2])
            /\ proc[k[2]].q = k[1] /\ proc[k[2]].n = k[3]
        BY <3>1, <3>2, Zenon DEF SettledInv
      <4>. QED BY <2>2, <2>5, <4>1, Zenon
    <3>3. ASSUME NEW k, k = <<q, w, n>>
          PROVE  OwesClaim(k[2])' /\ proc'[k[2]].q = k[1] /\ proc'[k[2]].n = k[3]
      <4>1. k[1] = q /\ k[2] = w /\ k[3] = n
        BY <3>3, Zenon
      <4>. QED BY <2>2, <2>6, <4>1, Zenon
    <3>4. \A k \in claims' : k \in claims \/ k = <<q, w, n>>
      BY <2>3, Zenon
    <3>. QED BY <3>2, <3>3, <3>4, Zenon
  <2>8. \A a \in AttemptIds : OpenAttempt(a)' =>
          \E v \in Workers : OwesAttempt(v)' /\ <<proc'[v].q, proc'[v].n>> = a
    <3>. TAKE a \in AttemptIds
    <3>1. CASE a = <<q, n>>
      BY <2>2, <2>6, <3>1, Zenon
    <3>2. CASE a # <<q, n>>
      <4>1. OpenAttempt(a)' => OpenAttempt(a)
        BY <1>a, <2>3, <3>2, Zenon DEF OpenAttempt
      <4>2. OpenAttempt(a) =>
              \E v \in Workers : OwesAttempt(v) /\ <<proc[v].q, proc[v].n>> = a
        BY Zenon DEF SettledInv
      <4>. QED BY <2>2, <2>5, <2>6, <4>1, <4>2, Zenon
    <3>. QED BY <3>1, <3>2, Zenon
  <2>9. \A a \in AttemptIds : quota'[a] = "reserved" =>
          \E v \in Workers : OwesQuota(v)' /\ <<proc'[v].q, proc'[v].n>> = a
    BY <2>2, <2>3, <2>5, <2>6 DEF SettledInv
  <2>10. \A v \in Workers : proc'[v].result = "succeeded"
           => proc'[v].pc \in {"finalize", "attempt", "claim"}
    BY <2>2, <2>4, Zenon DEF SettledInv
  <2>. QED BY <2>7, <2>8, <2>9, <2>10, Zenon DEF SettledInv
<1>3. ASSUME NEW w \in Workers, ProcessOne(w) \/ UncaughtError(w)
      PROVE  SettledInv'
  <2>1. WorkerFrame(w) /\ SettleFrame(w)
    BY <1>3, WorkerFrameLemma, SettleFrameLemma, Zenon
  <2>2. /\ Busy(w)' => proc'[w].q = proc[w].q /\ proc'[w].n = proc[w].n
        /\ \A v \in Workers \ {w} : proc'[v] = proc[v]
    BY <1>a, <2>1, Zenon DEF WorkerFrame, Busy
  <2>3. \A v \in Workers \ {w} : /\ OwesClaim(v)' <=> OwesClaim(v)
                                 /\ OwesAttempt(v)' <=> OwesAttempt(v)
                                 /\ OwesQuota(v)' <=> OwesQuota(v)
    BY <2>2, Zenon DEF OwesClaim, OwesAttempt, OwesQuota, Busy
  <2>4. \A v \in Workers : (OwesClaim(v)' \/ OwesAttempt(v)' \/ OwesQuota(v)')
          => proc'[v].q = proc[v].q /\ proc'[v].n = proc[v].n
    BY <2>2, Zenon DEF OwesClaim, OwesAttempt, OwesQuota
  <2>5. ASSUME NEW k \in claims'
        PROVE  OwesClaim(k[2])' /\ proc'[k[2]].q = k[1] /\ proc'[k[2]].n = k[3]
    <3>a. k \in claims
      BY <2>1, <2>5, Zenon DEF SettleFrame
    <3>b. k[2] \in Workers /\ k = <<k[1], k[2], k[3]>>
      BY <1>a, <3>a
    <3>c. OwesClaim(k[2]) /\ proc[k[2]].q = k[1] /\ proc[k[2]].n = k[3]
      BY <3>a, Zenon DEF SettledInv
    <3>1. /\ k \in claims /\ k[2] \in Workers /\ k = <<k[1], k[2], k[3]>>
          /\ OwesClaim(k[2]) /\ proc[k[2]].q = k[1] /\ proc[k[2]].n = k[3]
      BY <3>a, <3>b, <3>c, Zenon
    <3>2. OwesClaim(k[2])'
      <4>1. CASE k[2] # w
        BY <2>3, <3>1, <4>1, Zenon
      <4>2. CASE k[2] = w
        <5>1. k = <<proc[w].q, w, proc[w].n>>
          BY <3>1, <4>2, Zenon
        <5>. QED BY <2>1, <2>5, <3>1, <4>2, <5>1, Zenon DEF SettleFrame
      <4>. QED BY <4>1, <4>2, Zenon
    <3>. QED BY <2>4, <3>1, <3>2, Zenon
  <2>6. ASSUME NEW a \in AttemptIds, OpenAttempt(a)'
        PROVE  \E v \in Workers : OwesAttempt(v)' /\ <<proc'[v].q, proc'[v].n>> = a
    <3>1. PICK v \in Workers : OwesAttempt(v) /\ <<proc[v].q, proc[v].n>> = a
      BY <2>1, <2>6, Zenon DEF SettleFrame, SettledInv
    <3>2. OwesAttempt(v)'
      BY <2>1, <2>3, <2>6, <3>1, Zenon DEF SettleFrame
    <3>. QED BY <2>4, <3>1, <3>2, Zenon
  <2>7. ASSUME NEW a \in AttemptIds, quota'[a] = "reserved"
        PROVE  \E v \in Workers : OwesQuota(v)' /\ <<proc'[v].q, proc'[v].n>> = a
    <3>1. CASE quota[a] = "reserved"
      <4>1. PICK v \in Workers : OwesQuota(v) /\ <<proc[v].q, proc[v].n>> = a
        BY <3>1, Zenon DEF SettledInv
      <4>2. OwesQuota(v)'
        BY <2>1, <2>3, <2>7, <4>1, Zenon DEF SettleFrame
      <4>. QED BY <2>4, <4>1, <4>2, Zenon
    <3>2. CASE a = <<proc[w].q, proc[w].n>> /\ OwesQuota(w)'
      BY <2>4, <3>2, Zenon
    <3>. QED BY <2>1, <2>7, <3>1, <3>2, Zenon DEF SettleFrame
  <2>8. \A v \in Workers : proc'[v].result = "succeeded"
          => proc'[v].pc \in {"finalize", "attempt", "claim"}
    BY <2>1, <2>2, Zenon DEF SettleFrame, SettledInv
  <2>. QED BY <2>5, <2>6, <2>7, <2>8, Zenon DEF SettledInv
<1>4. ASSUME NEW c \in Callers,
             (\E q \in QueueIds : CallerCancelRead(c, q)) \/ MarkCancelled(c)
      PROVE  SettledInv'
  BY <1>4, <1>a, <1>b, CallerStep, Zenon
<1>5. ASSUME \/ \E t \in Tasks : Enqueue(t)
             \/ \E q \in QueueIds : Retry(q) \/ LeaseExpires(q) \/ ComesDue(q)
             \/ RecoverStaleClaims
      PROVE  SettledInv'
  BY <1>5, <1>b, EnvironmentStep, Zenon
<1>. QED BY <1>1, <1>2, <1>3, <1>4, <1>5, Zenon DEF Next

\* Claim rows, attempt rows and quota reservations left open belong to a
\* worker that is at their attempt: process_one closes what it opens on every
\* path, with cancellations and recoveries in between.
THEOREM AttemptsAreSettledHolds == Spec => []AttemptsAreSettled
<1>1. Init => SettledInv
  <2>1. \A a \in AttemptIds : NoAttempt.status = "absent"
    BY Zenon DEF NoAttempt
  <2>. QED
    BY <2>1 DEF Init, SettledInv, OpenAttempt, IdleProc, Actors
<1>2. TypeInv /\ SettledInv => AttemptsAreSettled
  <2>. SUFFICES ASSUME TypeInv, SettledInv,
                       NEW q \in QueueIds, NEW n \in AttemptNumbers, Open(q, n)
                PROVE  \E w \in Workers : Busy(w) /\ proc[w].q = q /\ proc[w].n = n
    BY Zenon DEF AttemptsAreSettled
  <2>1. <<q, n>> \in AttemptIds
    BY IdsLemma, Zenon
  <2>2. ASSUME NEW w \in Workers, <<q, w, n>> \in claims
        PROVE  Busy(w) /\ proc[w].q = q /\ proc[w].n = n
    BY <2>2, Zenon DEF SettledInv, OwesClaim
  <2>3. CASE OpenAttempt(<<q, n>>)
    BY <2>1, <2>3, Zenon DEF SettledInv, OwesAttempt
  <2>4. CASE quota[<<q, n>>] = "reserved"
    BY <2>1, <2>4, Zenon DEF SettledInv, OwesQuota
  <2>. QED BY <2>2, <2>3, <2>4, Zenon DEF Open, OpenAttempt
<1>. QED BY <1>1, <1>2, TypeInit, TypeStep, SettledStep, PTL DEF Spec
-----------------------------------------------------------------------------
(* The running limits, without cancellation and stale recovery.            *)

CancelPcs == {"cancel_run", "cancel_read", "cancel_update", "cancel_release",
              "cancel_run_read", "cancel_run_write"}

\* Nothing is cancelled and nobody is about to cancel.
NoneCancelled ==
  /\ \A q \in QueueIds : items[q].status # "cancelled"
  /\ \A r \in RunIds : runs[r] # "cancelled"
  /\ \A c \in Actors : proc[c].pc \notin CancelPcs

\* A step that writes no cancellation and goes to no label of mark_cancelled.
UncancelledStep(w) ==
  /\ \/ UNCHANGED items
     \/ \E i : i.status # "cancelled" /\ SetItem(proc[w].q, i)
  /\ \/ UNCHANGED runs
     \/ \E s : s # "cancelled"
               /\ runs' = [runs EXCEPT ![RunId(proc[w].q, proc[w].n)] = s]
  /\ \E r : r.pc \notin CancelPcs /\ SetProc(w, r)

\* The loop and process_one turn to the cancellation only when they find the
\* run or the item cancelled.
LEMMA WorkerUncancelled ==
  ASSUME TypeInv, NoneCancelled, NEW w \in Workers,
         ProcessOne(w) \/ UncaughtError(w)
  PROVE  NoneCancelled'
<1>1. /\ TypeOK /\ w \in Actors
      /\ Busy(w) => /\ proc[w].q \in QueueIds /\ proc[w].n \in AttemptNumbers
                    /\ items[proc[w].q] \in ItemRecords
                    /\ items[proc[w].q].status # "cancelled"
                    /\ runs[RunId(proc[w].q, proc[w].n)] # "cancelled"
      /\ proc[w] \in ProcRecords /\ proc[w].pc \notin CancelPcs
  BY IdsLemma, Zenon DEF TypeInv, TypeOK, ThreadsHoldItems, Actors, NoneCancelled
<1>2. ASSUME NEW label, label \notin CancelPcs, Goto(w, label)
      PROVE  \E r : r.pc \notin CancelPcs /\ SetProc(w, r)
  BY <1>1, <1>2, Zenon DEF Goto, ProcRecords
<1>3. ASSUME NEW label, NEW status, NEW next,
             CompleteRun(w, label, status, next),
             status # "cancelled", next \notin CancelPcs
      PROVE  UncancelledStep(w)
  BY <1>2, <1>3, Zenon DEF CompleteRun, UncancelledStep
<1>4. ASSUME StartRun(w) \/ StartFails(w) \/ UncaughtError(w) \/ QuotaExhausted(w)
      PROVE  UncancelledStep(w)
  BY <1>2, <1>4, Zenon
  DEF StartRun, StartFails, UncaughtError, QuotaExhausted, UncancelledStep, CancelPcs
<1>5. ASSUME MarkRunning(w) \/ Heartbeat(w)
      PROVE  UncancelledStep(w)
  <2>1. Busy(w)
    BY <1>5, Zenon DEF MarkRunning, Heartbeat, At, Busy
  <2>2. \E i : i.status # "cancelled" /\ SetItem(proc[w].q, i)
    BY <1>1, <1>5, <2>1, Zenon DEF MarkRunning, Heartbeat, ItemRecords
  <2>3. \E label : label \notin CancelPcs /\ Goto(w, label)
    BY <1>5, Zenon DEF MarkRunning, Heartbeat, CancelPcs
  <2>. QED BY <1>2, <1>5, <2>2, <2>3, Zenon DEF MarkRunning, Heartbeat, UncancelledStep
<1>6. ASSUME Reserve(w)
      PROVE  UncancelledStep(w)
  BY <1>1, <1>6, Zenon DEF Reserve, UncancelledStep, ProcRecords, CancelPcs
<1>7. ASSUME RaiseIfRunCancelled(w) \/ FailRead(w)
      PROVE  UncancelledStep(w)
  <2>1. Busy(w)
    BY <1>7, Zenon DEF RaiseIfRunCancelled, FailRead, At, Busy
  <2>. QED
    BY <1>1, <1>2, <1>7, <2>1, Zenon
    DEF RaiseIfRunCancelled, FailRead, UncancelledStep, CancelPcs
<1>8. ASSUME RaiseIfItemCancelled(w)
      PROVE  UncancelledStep(w)
  <2>1. Busy(w)
    BY <1>8, Zenon DEF RaiseIfItemCancelled, At, Busy
  <2>. QED
    BY <1>1, <1>8, <2>1, Zenon
    DEF RaiseIfItemCancelled, UncancelledStep, ProcRecords, CancelPcs
<1>9. ASSUME Phase(w) \/ InsertRuntimeDeadLetter(w) \/ Finalize(w)
             \/ UpdateRuntimeRunAttempt(w)
      PROVE  UncancelledStep(w)
  BY <1>2, <1>9, Zenon
  DEF Phase, InsertRuntimeDeadLetter, Finalize, UpdateRuntimeRunAttempt,
      UncancelledStep, CancelPcs
<1>10. ASSUME LoopSucceeds(w) \/ LoopFails(w) \/ FailWrite(w)
       PROVE  UncancelledStep(w)
  BY <1>3, <1>10, Zenon DEF LoopSucceeds, LoopFails, FailWrite, CancelPcs
<1>11. ASSUME MarkFailedOrRetry(w) \/ MarkSucceeded(w)
       PROVE  UncancelledStep(w)
  <2>1. Busy(w)
    BY <1>11, Zenon DEF MarkFailedOrRetry, MarkSucceeded, At, Busy
  <2>2. \E i : i.status # "cancelled" /\ SetItem(proc[w].q, i)
    BY <1>1, <1>11, <2>1, Zenon
    DEF MarkFailedOrRetry, MarkSucceeded, FailedStatus, ItemRecords
  <2>3. \E r : r.pc \notin CancelPcs /\ SetProc(w, r)
    BY <1>1, <1>11, Zenon DEF MarkFailedOrRetry, MarkSucceeded, ProcRecords, CancelPcs
  <2>. QED BY <1>11, <2>2, <2>3, Zenon DEF MarkFailedOrRetry, MarkSucceeded, UncancelledStep
<1>12. ASSUME UpdateRuntimeRunClaim(w) \/ Refund(w)
       PROVE  UncancelledStep(w)
  BY <1>1, <1>12, Zenon
  DEF UpdateRuntimeRunClaim, Refund, UncancelledStep, ProcRecords, IdleProc, CancelPcs
<1>13. ~LoopCancels(w) /\ ~WorkerCancelRead(w) /\ ~MarkCancelled(w)
  BY <1>1, Zenon
  DEF LoopCancels, CompleteRun, WorkerCancelRead, MarkCancelled, CancelUpdate,
      ReleaseRuntimeQueueClaims, CancelRunRead, CancelRunWrite, At, CancelPcs
<1>14. UncancelledStep(w)
  BY <1>4, <1>5, <1>6, <1>7, <1>8, <1>9, <1>10, <1>11, <1>12, <1>13, Zenon DEF ProcessOne
<1>15. \A q \in QueueIds : items'[q].status # "cancelled"
  BY <1>1, <1>14, Zenon DEF UncancelledStep, SetItem, NoneCancelled, TypeOK
<1>16. \A r \in RunIds : runs'[r] # "cancelled"
  BY <1>1, <1>14, Zenon DEF UncancelledStep, NoneCancelled, TypeOK
<1>17. \A c \in Actors : proc'[c].pc \notin CancelPcs
  BY <1>1, <1>14, Zenon DEF UncancelledStep, SetProc, NoneCancelled, TypeOK
<1>. QED BY <1>15, <1>16, <1>17, Zenon DEF NoneCancelled

Running(S) == {q \in S : items[q].status \in RunningStatuses}

\* The items that count against the limits are finitely many, also when the
\* queue is not: every claim adds one.
LimitsInv ==
  /\ ExecutorInv
  /\ NoneCancelled
  /\ IsFiniteSet(Running(QueueIds))
  /\ WithinRunningLimits

\* A step that starts no item keeps the limits.
LEMMA NothingStarts ==
  ASSUME IsFiniteSet(Running(QueueIds)), WithinRunningLimits,
         \A q \in QueueIds : items'[q].status \in RunningStatuses
                               => items[q].status \in RunningStatuses
  PROVE  IsFiniteSet(Running(QueueIds))' /\ WithinRunningLimits'
<1>1. ASSUME NEW S \in SUBSET QueueIds
      PROVE  /\ IsFiniteSet(Running(S)')
             /\ RunningCount(S) \in Nat /\ RunningCount(S)' \in Nat
             /\ RunningCount(S)' <= RunningCount(S)
  <2>1. Running(S) \in SUBSET Running(QueueIds) /\ Running(S)' \in SUBSET Running(S)
    BY Zenon DEF Running
  <2>2. IsFiniteSet(Running(S))
    BY <2>1, FS_Subset, Zenon
  <2>3. IsFiniteSet(Running(S)') /\ Cardinality(Running(S)') <= Cardinality(Running(S))
    BY <2>1, <2>2, FS_Subset, Zenon
  <2>4. Cardinality(Running(S)) \in Nat /\ Cardinality(Running(S)') \in Nat
    BY <2>2, <2>3, FS_CardinalityType, Zenon
  <2>. QED BY <2>3, <2>4, Zenon DEF Running, RunningCount
<1>2. RunningCount(QueueIds)' <= GlobalRunningLimit
  BY <1>1, ConstantsAssumption DEF WithinRunningLimits
<1>3. ASSUME NEW tenant \in Tenants
      PROVE  RunningCount(TenantItems(tenant))' <= TenantRunningLimit[tenant]
  <2>1. TenantItems(tenant) \in SUBSET QueueIds
    BY Zenon DEF TenantItems
  <2>2. /\ RunningCount(TenantItems(tenant)) <= TenantRunningLimit[tenant]
        /\ TenantRunningLimit[tenant] \in Nat
    BY ConstantsAssumption, Zenon DEF WithinRunningLimits
  <2>. QED BY <1>1, <2>1, <2>2
<1>. QED BY <1>1, <1>2, <1>3, Zenon DEF WithinRunningLimits

\* A claim keeps them, because it looks at both counts in the same store call.
LEMMA ClaimKeepsLimits ==
  ASSUME TypeInv, IsFiniteSet(Running(QueueIds)), WithinRunningLimits,
         NEW w \in Workers, NEW q \in QueueIds,
         ClaimNextRuntimeQueueAttempt(w, q)
  PROVE  IsFiniteSet(Running(QueueIds))' /\ WithinRunningLimits'
<1>1. /\ items'[q].status = "claiming" /\ items[q].status \in ClaimableStatuses
      /\ \A p \in QueueIds \ {q} : items'[p] = items[p]
  BY ClaimStep, Zenon
<1>2. /\ RunningCount(QueueIds) < GlobalRunningLimit
      /\ RunningCount(TenantItems(TenantOf[TaskOf(q)]))
           < TenantRunningLimit[TenantOf[TaskOf(q)]]
  BY Zenon DEF ClaimNextRuntimeQueueAttempt, Claimable
<1>3. ASSUME NEW S \in SUBSET QueueIds
      PROVE  /\ IsFiniteSet(Running(S)')
             /\ RunningCount(S) \in Nat
             /\ RunningCount(S)' = IF q \in S THEN RunningCount(S) + 1
                                              ELSE RunningCount(S)
  <2>1. Running(S) \in SUBSET Running(QueueIds) /\ q \notin Running(S)
    BY <1>1, Zenon DEF Running, RunningStatuses, ClaimableStatuses
  <2>2. Running(S)' = IF q \in S THEN Running(S) \cup {q} ELSE Running(S)
    BY <1>1, Zenon DEF Running, RunningStatuses, ClaimableStatuses
  <2>3. IsFiniteSet(Running(S)) /\ Cardinality(Running(S)) \in Nat
    BY <2>1, FS_Subset, FS_CardinalityType, Zenon
  <2>4. /\ IsFiniteSet(Running(S) \cup {q})
        /\ Cardinality(Running(S) \cup {q}) = Cardinality(Running(S)) + 1
    BY <2>1, <2>3, FS_AddElement, Zenon
  <2>. QED BY <2>2, <2>3, <2>4, Zenon DEF Running, RunningCount
<1>4. RunningCount(QueueIds)' <= GlobalRunningLimit
  BY <1>2, <1>3, ConstantsAssumption
<1>5. ASSUME NEW tenant \in Tenants
      PROVE  RunningCount(TenantItems(tenant))' <= TenantRunningLimit[tenant]
  <2>1. /\ TenantItems(tenant) \in SUBSET QueueIds
        /\ q \in TenantItems(tenant) => TenantOf[TaskOf(q)] = tenant
    BY Zenon DEF TenantItems
  <2>2. /\ RunningCount(TenantItems(tenant)) <= TenantRunningLimit[tenant]
        /\ TenantRunningLimit[tenant] \in Nat
    BY ConstantsAssumption, Zenon DEF WithinRunningLimits
  <2>3. /\ RunningCount(TenantItems(tenant)) \in Nat
        /\ RunningCount(TenantItems(tenant))' =
             IF q \in TenantItems(tenant) THEN RunningCount(TenantItems(tenant)) + 1
                                          ELSE RunningCount(TenantItems(tenant))
    BY <1>3, <2>1, Zenon
  <2>. QED BY <1>2, <2>1, <2>2, <2>3
<1>. QED BY <1>3, <1>4, <1>5, Zenon DEF WithinRunningLimits

\* Only an insertion gives a row to an id that has none, and the row is queued.
LEMMA EnvironmentInserts ==
  ASSUME TypeInv,
         \/ \E t \in Tasks : Enqueue(t)
         \/ \E q \in QueueIds : Retry(q) \/ LeaseExpires(q) \/ ComesDue(q)
         \/ RecoverStaleClaims
  PROVE  \A q \in QueueIds : items[q].status = "absent"
           => items'[q].status \in {"absent", "queued"}
<1>1. /\ \A q \in QueueIds : items[q] \in ItemRecords
      /\ items \in [QueueIds -> ItemRecords]
      /\ QueuedItem.status = "queued"
  BY Zenon DEF TypeInv, TypeOK, QueuedItem, AbsentItem
<1>2. ASSUME NEW p, InsertRuntimeQueueItem(p)
      PROVE  \A q \in QueueIds : items'[q].status \in {items[q].status, "queued"}
  BY <1>1, <1>2, Zenon DEF InsertRuntimeQueueItem, SetItem
<1>3. CASE (\E t \in Tasks : Enqueue(t)) \/ (\E q \in QueueIds : Retry(q))
  BY <1>2, <1>3, Zenon DEF Enqueue, Retry
<1>4. CASE \E q \in QueueIds : LeaseExpires(q) \/ ComesDue(q)
  BY <1>1, <1>4 DEF LeaseExpires, ComesDue, SetItem, ItemRecords
<1>5. CASE RecoverStaleClaims
  BY <1>1, <1>5, Zenon DEF RecoverStaleClaims, Stale, RunningStatuses
<1>. QED BY <1>3, <1>4, <1>5, Zenon

\* Every step keeps the limits when nobody cancels or recovers.
LEMMA LimitsStep ==
  ASSUME {"cancel", "recover"} \cap Operations = {}
  PROVE  TypeInv /\ LimitsInv /\ [Next]_vars => LimitsInv'
<1>. SUFFICES ASSUME TypeInv, LimitsInv, [Next]_vars
              PROVE  LimitsInv'
  BY Zenon
<1>a. Workers \subseteq Actors /\ Callers \subseteq Actors
  BY Zenon DEF Actors
<1>b. ExecutorInv'
  BY ExecutorStep, Zenon DEF LimitsInv
<1>c. ASSUME UNCHANGED <<runs, proc>>,
             \A q \in QueueIds : \/ items'[q].status = items[q].status
                                 \/ items'[q].status = "queued"
      PROVE  LimitsInv'
  <2>1. NoneCancelled'
    BY <1>c, Zenon DEF LimitsInv, NoneCancelled
  <2>2. IsFiniteSet(Running(QueueIds))' /\ WithinRunningLimits'
    BY <1>c, NothingStarts, Zenon DEF LimitsInv, RunningStatuses
  <2>. QED BY <1>b, <2>1, <2>2, Zenon DEF LimitsInv
<1>1. CASE UNCHANGED vars
  BY <1>1, <1>c, Zenon DEF vars
<1>2. ASSUME NEW w \in Workers, Claim(w)
      PROVE  LimitsInv'
  <2>1. PICK q \in QueueIds : ClaimNextRuntimeQueueAttempt(w, q)
    BY <1>2, Zenon DEF Claim
  <2>2. NoneCancelled'
    <3>1. /\ items'[q].status = "claiming" /\ proc'[w].pc = "start"
          /\ \A p \in QueueIds \ {q} : items'[p] = items[p]
          /\ \A d \in Actors \ {w} : proc'[d] = proc[d]
      BY <2>1, ClaimStep, Zenon
    <3>2. UNCHANGED runs
      BY <2>1, Zenon DEF ClaimNextRuntimeQueueAttempt
    <3>. QED BY <3>1, <3>2, Zenon DEF LimitsInv, NoneCancelled, CancelPcs
  <2>3. IsFiniteSet(Running(QueueIds))' /\ WithinRunningLimits'
    BY <2>1, ClaimKeepsLimits, Zenon DEF LimitsInv
  <2>. QED BY <1>b, <2>2, <2>3, Zenon DEF LimitsInv
\* A worker changes the status of its own item only, which runs already.
<1>3. ASSUME NEW w \in Workers, ProcessOne(w) \/ UncaughtError(w)
      PROVE  LimitsInv'
  <2>1. NoneCancelled'
    BY <1>3, WorkerUncancelled, Zenon DEF LimitsInv
  <2>2. \A q \in QueueIds : items'[q].status # items[q].status
          => q = proc[w].q /\ Executing(w)
    BY <1>3, WorkerFrameLemma, Zenon DEF WorkerFrame
  <2>3. \A q \in QueueIds : items'[q].status \in RunningStatuses
          => items[q].status \in RunningStatuses
    BY <2>2, Zenon DEF LimitsInv, ExecutorInv, ExecutedItems, NoneCancelled, RunningStatuses
  <2>4. IsFiniteSet(Running(QueueIds))' /\ WithinRunningLimits'
    BY <2>3, NothingStarts, Zenon DEF LimitsInv
  <2>. QED BY <1>b, <2>1, <2>4, Zenon DEF LimitsInv
<1>4. ASSUME NEW c \in Callers
      PROVE  ~(\E q \in QueueIds : CallerCancelRead(c, q)) /\ ~MarkCancelled(c)
  <2>1. proc[c].pc \notin CancelPcs
    BY <1>a, Zenon DEF LimitsInv, NoneCancelled
  <2>. QED
    BY <2>1, Zenon
    DEF CallerCancelRead, MarkCancelled, CancelUpdate, ReleaseRuntimeQueueClaims,
        CancelRunRead, CancelRunWrite, At, CancelPcs
<1>5. ASSUME \/ \E t \in Tasks : Enqueue(t)
             \/ \E q \in QueueIds : Retry(q) \/ LeaseExpires(q) \/ ComesDue(q)
             \/ RecoverStaleClaims
      PROVE  LimitsInv'
  <2>1. /\ UNCHANGED <<runs, proc>>
        /\ \A q \in QueueIds : items'[q].status = items[q].status
                                 \/ items[q].status = "absent"
    BY <1>5, EnvironmentStep, Zenon
  <2>2. \A q \in QueueIds : items[q].status = "absent"
          => items'[q].status \in {"absent", "queued"}
    BY <1>5, EnvironmentInserts, Zenon
  <2>. QED BY <1>c, <2>1, <2>2, Zenon
<1>. QED BY <1>1, <1>2, <1>3, <1>4, <1>5, Zenon DEF Next

\* Without cancellation and recovery the number of items in work stays within
\* the global limit and within every tenant's limit at every moment, for any
\* number of workers, tasks and manual retries.
THEOREM RunningLimitsAreKept ==
  ASSUME {"cancel", "recover"} \cap Operations = {}
  PROVE  Spec => []WithinRunningLimits
<1>1. ASSUME Init
      PROVE  LimitsInv
  <2>1. ExecutorInv /\ NoneCancelled
    BY <1>1, Zenon
    DEF Init, ExecutorInv, SingleExecutor, ExecutedItems, Executing, ExecutingPcs,
        IdleProc, Actors, NoneCancelled, AbsentItem, CancelPcs
  <2>2. \A S \in SUBSET QueueIds : Running(S) = {}
    BY <1>1, Zenon DEF Init, Running, AbsentItem, RunningStatuses
  <2>3. \A S \in SUBSET QueueIds : RunningCount(S) = 0
    BY <2>2, FS_EmptySet, Zenon DEF RunningCount, Running
  <2>4. \A tenant \in Tenants : TenantItems(tenant) \in SUBSET QueueIds
    BY Zenon DEF TenantItems
  <2>5. WithinRunningLimits
    BY <2>3, <2>4, ConstantsAssumption DEF WithinRunningLimits
  <2>. QED BY <2>1, <2>2, <2>5, FS_EmptySet, Zenon DEF LimitsInv
<1>2. LimitsInv => WithinRunningLimits
  BY Zenon DEF LimitsInv
<1>3. TypeInv /\ LimitsInv /\ [Next]_vars => LimitsInv'
  BY LimitsStep, Zenon
<1>. QED BY <1>1, <1>2, <1>3, TypeInit, TypeStep, PTL DEF Spec
=============================================================================
