--------------------------- MODULE StorageProofs ----------------------------
(***************************************************************************)
(* What is stored and what may go.  Cleanups of runtime artifacts, for     *)
(* every number of runs, artifacts and cleanups at work, and every         *)
(* retention policy: nothing is deleted that a run still needs, and every  *)
(* report accounts for its whole plan.  Mail on its way to the database,   *)
(* for every folder and number of importers.  The rows and files of the    *)
(* office desks, for every number of requests at work: tasks with their    *)
(* attachments, e-mail, customers and cases.  The parts share no state and *)
(* stand side by side.                                                     *)
(***************************************************************************)
EXTENDS Retention, Sequences, TLAPS

CONSTANTS Messages, Anonymous, Importers, MaxMessages, MaxRebuilds, MaxFaults

VARIABLES folder, account, stored, attached, pass, lost, faults

Mail == INSTANCE MailImport

-----------------------------------------------------------------------------
(* Cleanups.                                                               *)

Statuses == {"succeeded", "failed", "cancelled"}
CleanerType ==
  [pc : {"idle", "apply", "unlink", "done"}, dryRun : BOOLEAN, strict : BOOLEAN, at : Nat,
   expired : SUBSET Uris, retained : SUBSET Uris, todo : SUBSET Uris,
   uri : Uris \cup {"none"}, result : [Results -> SUBSET Uris], errors : SUBSET Uris]

Types ==
  /\ now \in Nat
  /\ run \in [Runs -> [status : {"running"} \cup Statuses, completed : Nat]]
  /\ refs \subseteq Runs \X Uris
  /\ cleaner \in [Cleaners -> CleanerType]

\* Every run that names u is over, and its period had passed on the given day.
OverFor(u, day) ==
  \A r \in Runs : <<r, u>> \in refs =>
    run[r].status # "running" /\ run[r].completed + DaysFor[run[r].status] <= day

Recorded(u) == <<Owner[u], u>> \in refs

\* An artifact is recorded once, with all the runs that name it.
RefsInv == \A r \in Runs, u \in Uris : <<r, u>> \in refs => Recorded(u)

\* What is left of a plan was recorded, and is over unless the plan retains it.
PlanInv(c) ==
  /\ \A u \in cleaner[c].todo :
       Recorded(u) /\ (u \notin cleaner[c].retained => OverFor(u, now))
  /\ cleaner[c].pc = "unlink" =>
       /\ cleaner[c].uri \in cleaner[c].todo
       /\ cleaner[c].uri \notin cleaner[c].retained \cup Unresolvable \cup Directories

\* The results so far and what is left make up the plan.
ResultInv(c) ==
  cleaner[c].pc # "idle" =>
    LET t == cleaner[c] IN
    /\ \A u \in Uris : u \in t.expired <=> u \in t.todo \/ \E k \in Results : u \in t.result[k]
    /\ \A k \in Results : t.todo \cap t.result[k] = {}
    /\ \A k, l \in Results : k # l => t.result[k] \cap t.result[l] = {}
    /\ t.errors = t.result["unsafe"] \cup t.result["failed"]
                     \cup (IF t.strict THEN t.result["missing"] ELSE {})
    /\ t.pc = "done" => t.todo = {}

RemovedInv ==
  \A d \in removed :
    /\ d.uri \in Uris \ (Unresolvable \cup Directories)
    /\ d.at \in Nat /\ Recorded(d.uri) /\ OverFor(d.uri, d.at)

RInv ==
  /\ Types /\ RefsInv /\ RemovedInv
  /\ \A c \in Cleaners : PlanInv(c) /\ ResultInv(c)

-----------------------------------------------------------------------------
(* The runtime.                                                            *)

\* A day passes: what was over stays over.
LEMMA TickLemma ==
  ASSUME RInv, Tick
  PROVE  RInv'
<1>1. /\ now \in Nat /\ now' = now + 1
      /\ UNCHANGED <<run, refs, files, cleaner, removed>>
  BY Zenon DEF Tick, RInv, Types
<1>2. Types' /\ RefsInv' /\ RemovedInv'
  BY <1>1 DEF RInv, Types, RefsInv, RemovedInv, Recorded, OverFor
<1>3. ASSUME NEW u, OverFor(u, now) PROVE OverFor(u, now)'
  <2> SUFFICES ASSUME NEW r \in Runs, <<r, u>> \in refs
               PROVE  run[r].status # "running" /\ run[r].completed + DaysFor[run[r].status] <= now + 1
    BY <1>1, Zenon DEF OverFor
  <2>1. run[r].status # "running" /\ run[r].completed + DaysFor[run[r].status] <= now
    BY <1>3, Zenon DEF OverFor
  <2>2. run[r].status \in Statuses /\ run[r].completed \in Nat
    BY <2>1, Zenon DEF RInv, Types
  <2>3. DaysFor[run[r].status] \in Nat
    BY <2>2, RetentionAssumption, Zenon DEF Statuses
  <2>. QED BY <1>1, <2>1, <2>2, <2>3
<1>4. ASSUME NEW c \in Cleaners PROVE PlanInv(c)' /\ ResultInv(c)'
  <2>1. PlanInv(c) /\ ResultInv(c)
    BY Zenon DEF RInv
  <2>2. PlanInv(c)'
    BY <1>1, <1>3, <2>1, Zenon DEF PlanInv, Recorded
  <2>. QED BY <1>1, <2>1, <2>2, Zenon DEF ResultInv
<1>. QED BY <1>2, <1>4, Zenon DEF RInv

\* A new artifact is in no plan and was never deleted.
LEMMA RecordLemma ==
  ASSUME RInv, NEW u \in Uris, RecordArtifact(u)
  PROVE  RInv'
<1>1. /\ ~Recorded(u)
      /\ refs' = refs \cup {<<Owner[u], u>>} \cup {x \in ForeignRefs : x[2] = u}
      /\ UNCHANGED <<now, run, cleaner, removed>>
  BY Zenon DEF RecordArtifact, Recorded
<1>2. Owner[u] \in Runs /\ ForeignRefs \subseteq Runs \X Uris
  BY RetentionAssumption, Zenon
<1>3. refs' \subseteq Runs \X Uris
  BY <1>1, <1>2 DEF RInv, Types
<1>4. \A r \in Runs, v \in Uris : v # u => (<<r, v>> \in refs' <=> <<r, v>> \in refs)
  BY <1>1, Zenon
<1>5. <<Owner[u], u>> \in refs' /\ \A v \in Uris : Owner[v] \in Runs
  BY <1>1, RetentionAssumption, Zenon
<1>6. RefsInv'
  BY <1>4, <1>5, Zenon DEF RInv, RefsInv, Recorded
<1>7. ASSUME NEW v \in Uris, Recorded(v)
      PROVE  v # u /\ Recorded(v)' /\ \A day : OverFor(v, day) => OverFor(v, day)'
  <2>1. v # u
    BY <1>1, <1>7, Zenon
  <2>2. Recorded(v)'
    BY <1>1, <1>7, Zenon DEF Recorded
  <2>3. \A r \in Runs : <<r, v>> \in refs' <=> <<r, v>> \in refs
    BY <1>4, <2>1, Zenon
  <2>. QED BY <1>1, <2>1, <2>2, <2>3, Zenon DEF OverFor
<1>8. RemovedInv'
  BY <1>1, <1>7, Zenon DEF RInv, RemovedInv, OverFor
<1>9. ASSUME NEW c \in Cleaners PROVE PlanInv(c)' /\ ResultInv(c)'
  <2>1. PlanInv(c) /\ ResultInv(c) /\ cleaner[c].todo \subseteq Uris
    BY Zenon DEF RInv, Types, CleanerType
  <2>2. PlanInv(c)'
    BY <1>1, <1>7, <2>1, Zenon DEF PlanInv, OverFor
  <2>. QED BY <1>1, <2>1, <2>2, Zenon DEF ResultInv
<1>10. Types'
  BY <1>1, <1>3, Zenon DEF RInv, Types
<1>. QED BY <1>6, <1>8, <1>9, <1>10, Zenon DEF RInv

\* Only running runs complete.
LEMMA CompleteLemma ==
  ASSUME RInv, NEW q \in Runs, NEW s \in DOMAIN DaysFor, CompleteRun(q, s)
  PROVE  RInv'
<1>1. /\ run[q].status = "running"
      /\ run' = [run EXCEPT ![q] = [status |-> s, completed |-> now]]
      /\ UNCHANGED <<now, refs, cleaner, removed>>
  BY Zenon DEF CompleteRun
<1>2. s \in Statuses /\ now \in Nat
  BY RetentionAssumption, Zenon DEF Statuses, RInv, Types
<1>3. Types'
  BY <1>1, <1>2, Zenon DEF RInv, Types
<1>4. \A r \in Runs : run[r].status # "running" => run'[r] = run[r]
  BY <1>1, Zenon DEF RInv, Types
<1>5. ASSUME NEW u, NEW day, OverFor(u, day) PROVE OverFor(u, day)'
  BY <1>1, <1>4, <1>5, Zenon DEF OverFor
<1>6. RefsInv' /\ RemovedInv'
  BY <1>1, <1>5, Zenon DEF RInv, RefsInv, RemovedInv, Recorded, OverFor
<1>7. ASSUME NEW c \in Cleaners PROVE PlanInv(c)' /\ ResultInv(c)'
  <2>1. PlanInv(c) /\ ResultInv(c)
    BY Zenon DEF RInv
  <2>2. PlanInv(c)'
    BY <1>1, <1>5, <2>1, Zenon DEF PlanInv, OverFor, Recorded
  <2>. QED BY <1>1, <2>1, <2>2, Zenon DEF ResultInv
<1>. QED BY <1>3, <1>6, <1>7, Zenon DEF RInv

-----------------------------------------------------------------------------
(* The cleanups.                                                           *)

\* A step of cleanup c that deletes nothing.
LEMMA CleanerLemma ==
  ASSUME RInv, NEW c \in Cleaners, NEW t \in CleanerType, cleaner' = [cleaner EXCEPT ![c] = t],
         UNCHANGED <<now, run, refs, removed>>, PlanInv(c)', ResultInv(c)'
  PROVE  RInv'
<1>1. Types' /\ RefsInv' /\ RemovedInv'
  BY Zenon DEF RInv, Types, RefsInv, RemovedInv, Recorded, OverFor
<1>2. ASSUME NEW b \in Cleaners PROVE PlanInv(b)' /\ ResultInv(b)'
  <2>1. CASE b = c
    BY <2>1, Zenon
  <2>2. CASE b # c
    <3>1. cleaner'[b] = cleaner[b]
      BY <2>2, Zenon DEF RInv, Types
    <3>2. PlanInv(b) /\ ResultInv(b)
      BY Zenon DEF RInv
    <3>3. PlanInv(b)'
      BY <3>1, <3>2, Zenon DEF PlanInv, Recorded, OverFor
    <3>. QED BY <3>1, <3>2, <3>3 DEF ResultInv
  <2>. QED BY <2>1, <2>2, Zenon
<1>. QED BY <1>1, <1>2, Zenon DEF RInv

\* A cleanup that has not begun has settled nothing.
LEMMA IdleLemma ==
  /\ Idle \in CleanerType
  /\ Idle.pc = "idle" /\ Idle.todo = {} /\ Idle.errors = {} /\ Idle.strict = FALSE
  /\ \A k \in Results : Idle.result[k] = {}
  BY Zenon DEF Idle, CleanerType

\* The command ends or is interrupted.
LEMMA ExitLemma ==
  ASSUME RInv, NEW c \in Cleaners, Exit(c) \/ Interrupt(c)
  PROVE  RInv'
<1>1. cleaner' = [cleaner EXCEPT ![c] = Idle] /\ UNCHANGED <<now, run, refs, removed>>
  BY Zenon DEF Exit, Interrupt
<1>2. cleaner'[c] = Idle
  BY <1>1, Zenon DEF RInv, Types
<1>3. PlanInv(c)' /\ ResultInv(c)'
  BY <1>2, IdleLemma, Zenon DEF PlanInv, ResultInv
<1>. QED BY <1>1, <1>3, IdleLemma, CleanerLemma, Zenon

\* The plan is made from the records of one moment.
LEMMA PlanLemma ==
  ASSUME RInv, NEW c \in Cleaners, NEW dryRun \in BOOLEAN, NEW strict \in BOOLEAN,
         Plan(c, dryRun, strict)
  PROVE  RInv'
<1> DEFINE t == [Idle EXCEPT !.pc = "apply", !.dryRun = dryRun, !.strict = strict, !.at = now,
                             !.expired = Planned(TRUE), !.retained = Planned(FALSE),
                             !.todo = Planned(TRUE)]
<1>1. cleaner' = [cleaner EXCEPT ![c] = t] /\ UNCHANGED <<now, run, refs, removed>>
  BY Zenon DEF Plan
<1>2. /\ Planned(TRUE) \subseteq Uris /\ Planned(FALSE) \subseteq Uris
      /\ \A u \in Planned(TRUE) : \E r \in Runs : <<r, u>> \in refs
      /\ \A u \in Uris, r \in Runs : <<r, u>> \in refs /\ ~RunIsExpired(r) => u \in Planned(FALSE)
  <2>1. refs \subseteq Runs \X Uris
    BY Zenon DEF RInv, Types
  <2>2. \A x \in refs : x[1] \in Runs /\ x[2] \in Uris /\ x = <<x[1], x[2]>>
    BY <2>1
  <2>3. \A r \in Runs : RunIsExpired(r) \in BOOLEAN
    BY Zenon DEF RunIsExpired
  <2>. QED BY <2>1, <2>2, <2>3 DEF Planned
<1>3. /\ t \in CleanerType
      /\ t.pc = "apply" /\ t.expired = Planned(TRUE) /\ t.retained = Planned(FALSE)
      /\ t.todo = Planned(TRUE) /\ t.errors = {} /\ \A k \in Results : t.result[k] = {}
  BY <1>2 DEF RInv, Types, CleanerType, Idle
<1> HIDE DEF t
<1>4. cleaner'[c] = t
  BY <1>1, Zenon DEF RInv, Types
<1>5. ASSUME NEW u \in t.todo PROVE Recorded(u) /\ (u \notin t.retained => OverFor(u, now))
  <2>1. u \in Uris /\ Recorded(u)
    BY <1>2, <1>3, <1>5, Zenon DEF RInv, RefsInv
  <2>2. u \notin t.retained => OverFor(u, now)
    BY <1>2, <1>3, <2>1, Zenon DEF OverFor, RunIsExpired
  <2>. QED BY <2>1, <2>2, Zenon
<1>6. PlanInv(c)'
  BY <1>1, <1>3, <1>4, <1>5, Zenon DEF PlanInv, Recorded, OverFor
<1>7. ResultInv(c)'
  BY <1>3, <1>4, Zenon DEF ResultInv, Results
<1>. QED BY <1>1, <1>3, <1>6, <1>7, CleanerLemma, Zenon

\* One URI of the plan is settled with one result.
LEMMA SettleLemma ==
  ASSUME RInv, NEW c \in Cleaners, NEW u \in cleaner[c].todo, NEW k \in Results,
         NEW isError \in BOOLEAN, NEW t, t = Settle(c, u, k, isError)
  PROVE  /\ t \in CleanerType /\ t.pc = "apply" /\ t.retained = cleaner[c].retained
         /\ t.todo = cleaner[c].todo \ {u} /\ t.expired = cleaner[c].expired
         /\ t.strict = cleaner[c].strict
         /\ t.result = [cleaner[c].result EXCEPT ![k] = @ \cup {u}]
         /\ t.errors = IF isError THEN cleaner[c].errors \cup {u} ELSE cleaner[c].errors
<1>1. cleaner[c] \in CleanerType /\ u \in Uris
  BY Zenon DEF RInv, Types, CleanerType
<1>. QED BY <1>1, ZenonT(30) DEF Settle, CleanerType

\* An artifact is settled: it leaves the plan with one result.
LEMMA SettledLemma ==
  ASSUME RInv, NEW c \in Cleaners, cleaner[c].pc \in {"apply", "unlink"},
         NEW u \in cleaner[c].todo, NEW k \in Results, NEW isError \in BOOLEAN,
         isError <=> k \in {"unsafe", "failed"} \/ (k = "missing" /\ cleaner[c].strict),
         cleaner' = [cleaner EXCEPT ![c] = Settle(c, u, k, isError)],
         UNCHANGED <<now, run, refs>>
  PROVE  /\ Settle(c, u, k, isError) \in CleanerType
         /\ PlanInv(c)' /\ ResultInv(c)'
<1>1. PICK t : t = Settle(c, u, k, isError)
  BY Zenon
<1>2. /\ t \in CleanerType /\ t.pc = "apply" /\ t.retained = cleaner[c].retained
      /\ t.todo = cleaner[c].todo \ {u} /\ t.expired = cleaner[c].expired
      /\ t.strict = cleaner[c].strict
      /\ t.result = [cleaner[c].result EXCEPT ![k] = @ \cup {u}]
      /\ t.errors = IF isError THEN cleaner[c].errors \cup {u} ELSE cleaner[c].errors
  BY <1>1, SettleLemma
<1>3. cleaner'[c] = t
  BY <1>1, Zenon DEF RInv, Types
<1>4. PlanInv(c)'
  BY <1>2, <1>3 DEF RInv, PlanInv, Recorded, OverFor
<1>5. ResultInv(c) /\ cleaner[c] \in CleanerType
  BY Zenon DEF RInv, Types
<1>6. cleaner[c].result \in [Results -> SUBSET Uris] /\ cleaner[c].todo \subseteq Uris
  BY <1>5, Zenon DEF CleanerType
<1>7. \A l \in Results : t.result[l] = IF l = k THEN cleaner[c].result[k] \cup {u}
                                                ELSE cleaner[c].result[l]
  BY <1>2, <1>6, Zenon
<1>8. /\ \A v \in Uris : v \in t.expired <=> v \in t.todo \/ \E l \in Results : v \in t.result[l]
      /\ \A l \in Results : t.todo \cap t.result[l] = {}
      /\ \A l, m \in Results : l # m => t.result[l] \cap t.result[m] = {}
  BY <1>2, <1>5, <1>6, <1>7 DEF ResultInv
<1>9. t.errors = t.result["unsafe"] \cup t.result["failed"]
                   \cup (IF t.strict THEN t.result["missing"] ELSE {})
  <2>1. cleaner[c].errors = cleaner[c].result["unsafe"] \cup cleaner[c].result["failed"]
           \cup (IF cleaner[c].strict THEN cleaner[c].result["missing"] ELSE {})
    BY <1>5, Zenon DEF ResultInv
  <2>2. {"unsafe", "failed", "missing"} \subseteq Results
    BY Zenon DEF Results
  <2>. QED BY <1>2, <1>7, <2>1, <2>2
<1>10. ResultInv(c)'
  BY <1>2, <1>3, <1>8, <1>9, ZenonT(30) DEF ResultInv
<1>. QED BY <1>1, <1>2, <1>4, <1>10, Zenon

\* The checks in front of the unlink.
LEMMA CheckLemma ==
  ASSUME RInv, NEW c \in Cleaners, NEW u \in Uris, Check(c, u)
  PROVE  RInv'
<1>1. /\ cleaner[c].pc = "apply" /\ u \in cleaner[c].todo
      /\ UNCHANGED <<now, run, refs, removed>>
  BY Zenon DEF Check
<1>2. cleaner[c] \in CleanerType
  BY Zenon DEF RInv, Types
<1>3. CASE Unsafe(c, u)
  <2>1. cleaner' = [cleaner EXCEPT ![c] = Settle(c, u, "unsafe", TRUE)]
    BY <1>3, Zenon DEF Check
  <2>2. Settle(c, u, "unsafe", TRUE) \in CleanerType /\ PlanInv(c)' /\ ResultInv(c)'
    BY <1>1, <2>1, SettledLemma, Zenon DEF Results
  <2>. QED BY <1>1, <2>1, <2>2, CleanerLemma, Zenon
<1>4. CASE ~Unsafe(c, u) /\ u \notin files
  <2>1. cleaner' = [cleaner EXCEPT ![c] = Settle(c, u, "missing", cleaner[c].strict)]
    BY <1>4, Zenon DEF Check
  <2>2. cleaner[c].strict \in BOOLEAN
    BY <1>2, Zenon DEF CleanerType
  <2>3. /\ Settle(c, u, "missing", cleaner[c].strict) \in CleanerType
        /\ PlanInv(c)' /\ ResultInv(c)'
    BY <1>1, <2>1, <2>2, SettledLemma, Zenon DEF Results
  <2>. QED BY <1>1, <2>1, <2>3, CleanerLemma, Zenon
<1>5. CASE ~Unsafe(c, u) /\ u \in files /\ cleaner[c].dryRun
  <2>1. cleaner' = [cleaner EXCEPT ![c] = Settle(c, u, "dry_run", FALSE)]
    BY <1>5, Zenon DEF Check
  <2>2. Settle(c, u, "dry_run", FALSE) \in CleanerType /\ PlanInv(c)' /\ ResultInv(c)'
    BY <1>1, <2>1, SettledLemma, Zenon DEF Results
  <2>. QED BY <1>1, <2>1, <2>2, CleanerLemma, Zenon
<1>6. CASE ~Unsafe(c, u) /\ u \in files /\ ~cleaner[c].dryRun
  <2> DEFINE t == [cleaner[c] EXCEPT !.pc = "unlink", !.uri = u]
  <2>1. cleaner' = [cleaner EXCEPT ![c] = t]
    BY <1>6, Zenon DEF Check
  <2>2. /\ t \in CleanerType /\ t.pc = "unlink" /\ t.uri = u
        /\ t.todo = cleaner[c].todo /\ t.retained = cleaner[c].retained
        /\ t.expired = cleaner[c].expired /\ t.result = cleaner[c].result
        /\ t.errors = cleaner[c].errors /\ t.strict = cleaner[c].strict
    BY <1>2, Zenon DEF CleanerType
  <2> HIDE DEF t
  <2>3. cleaner'[c] = t
    BY <2>1, Zenon DEF RInv, Types
  <2>4. u \notin cleaner[c].retained \cup Unresolvable \cup Directories
    BY <1>6, Zenon DEF Unsafe, Resolves
  <2>5. PlanInv(c) /\ ResultInv(c)
    BY Zenon DEF RInv
  <2>6. PlanInv(c)'
    BY <1>1, <2>2, <2>3, <2>4, <2>5, Zenon DEF PlanInv, Recorded, OverFor
  <2>7. ResultInv(c)'
    BY <1>1, <2>2, <2>3, <2>5, Zenon DEF ResultInv
  <2>. QED BY <1>1, <2>1, <2>2, <2>6, <2>7, CleanerLemma, Zenon
<1>. QED BY <1>3, <1>4, <1>5, <1>6, Zenon

\* The file goes, or fails to.
LEMMA UnlinkLemma ==
  ASSUME RInv, NEW c \in Cleaners, Unlink(c)
  PROVE  RInv'
<1>1. PICK u : u = cleaner[c].uri
  BY Zenon
<1>2. cleaner[c].pc = "unlink" /\ UNCHANGED <<now, run, refs>>
  BY Zenon DEF Unlink
<1>3. PlanInv(c)
  BY Zenon DEF RInv
<1>4. /\ u \in cleaner[c].todo
      /\ u \notin cleaner[c].retained \cup Unresolvable \cup Directories
      /\ Recorded(u) /\ OverFor(u, now)
  BY <1>1, <1>2, <1>3, Zenon DEF PlanInv
<1>5. u \in Uris /\ now \in Nat
  BY <1>4, Zenon DEF RInv, Types, CleanerType
<1>6. CASE /\ cleaner' = [cleaner EXCEPT ![c] = Settle(c, u, "deleted", FALSE)]
           /\ removed' = removed \cup {[uri |-> u, at |-> now]}
  <2>1. Settle(c, u, "deleted", FALSE) \in CleanerType /\ PlanInv(c)' /\ ResultInv(c)'
    BY <1>2, <1>4, <1>6, SettledLemma, Zenon DEF Results
  <2>2. Types' /\ RefsInv'
    BY <1>2, <1>6, <2>1, Zenon DEF RInv, Types, RefsInv, Recorded
  <2>3. RemovedInv'
    <3> SUFFICES ASSUME NEW d \in removed'
                 PROVE  /\ d.uri \in Uris \ (Unresolvable \cup Directories)
                        /\ d.at \in Nat /\ Recorded(d.uri)' /\ OverFor(d.uri, d.at)'
      BY Zenon DEF RemovedInv, Recorded, OverFor
    <3>1. CASE d \in removed
      BY <1>2, <3>1, Zenon DEF RInv, RemovedInv, Recorded, OverFor
    <3>2. CASE d = [uri |-> u, at |-> now]
      BY <1>2, <1>4, <1>5, <3>2, Zenon DEF Recorded, OverFor
    <3>. QED BY <1>6, <3>1, <3>2, Zenon
  <2>4. ASSUME NEW b \in Cleaners, b # c PROVE PlanInv(b)' /\ ResultInv(b)'
    <3>1. cleaner'[b] = cleaner[b]
      BY <1>6, <2>4, Zenon DEF RInv, Types
    <3>2. PlanInv(b) /\ ResultInv(b)
      BY Zenon DEF RInv
    <3>3. PlanInv(b)'
      BY <1>2, <3>1, <3>2, Zenon DEF PlanInv, Recorded, OverFor
    <3>. QED BY <3>1, <3>2, <3>3, Zenon DEF ResultInv
  <2>. QED BY <2>1, <2>2, <2>3, <2>4, Zenon DEF RInv
<1>7. CASE /\ cleaner' = [cleaner EXCEPT ![c] = Settle(c, u, "failed", TRUE)]
           /\ removed' = removed
  <2>1. Settle(c, u, "failed", TRUE) \in CleanerType /\ PlanInv(c)' /\ ResultInv(c)'
    BY <1>2, <1>4, <1>7, SettledLemma, Zenon DEF Results
  <2>. QED BY <1>2, <1>7, <2>1, CleanerLemma, Zenon
<1>. QED BY <1>1, <1>6, <1>7, Zenon DEF Unlink

\* The report is written when nothing is left of the plan.
LEMMA ReportLemma ==
  ASSUME RInv, NEW c \in Cleaners, WriteReport(c)
  PROVE  RInv'
<1> DEFINE t == [cleaner[c] EXCEPT !.pc = "done"]
<1>1. /\ cleaner[c].pc = "apply" /\ cleaner[c].todo = {}
      /\ cleaner' = [cleaner EXCEPT ![c].pc = "done"]
      /\ UNCHANGED <<now, run, refs, removed>>
  BY Zenon DEF WriteReport
<1>2. cleaner \in [Cleaners -> CleanerType] /\ cleaner[c] \in CleanerType
  BY Zenon DEF RInv, Types
<1>3. /\ t \in CleanerType /\ t.pc = "done" /\ t.todo = {}
      /\ t.expired = cleaner[c].expired /\ t.result = cleaner[c].result
      /\ t.errors = cleaner[c].errors /\ t.strict = cleaner[c].strict
  BY <1>1, <1>2, Zenon DEF CleanerType
<1>4. cleaner' = [cleaner EXCEPT ![c] = t] /\ cleaner'[c] = t
  BY <1>1, <1>2, Zenon
<1> HIDE DEF t
<1>5. ResultInv(c)
  BY Zenon DEF RInv
<1>6. PlanInv(c)'
  BY <1>3, <1>4, Zenon DEF PlanInv
<1>7. ResultInv(c)'
  BY <1>1, <1>3, <1>4, <1>5, Zenon DEF ResultInv
<1>. QED BY <1>1, <1>3, <1>4, <1>6, <1>7, CleanerLemma, Zenon

-----------------------------------------------------------------------------
(* The invariant is inductive, and what follows.                           *)

\* The invariant holds at the start.
LEMMA InitLemma == Init => RInv
<1> SUFFICES ASSUME Init PROVE RInv
  BY Zenon
<1>1. Types /\ RefsInv /\ RemovedInv
  BY IdleLemma, Zenon DEF Init, Types, RefsInv, RemovedInv
<1>2. ASSUME NEW c \in Cleaners PROVE PlanInv(c) /\ ResultInv(c)
  <2>1. cleaner[c] = Idle
    BY Zenon DEF Init
  <2>. QED BY <2>1, IdleLemma, Zenon DEF PlanInv, ResultInv
<1>. QED BY <1>1, <1>2, Zenon DEF RInv

\* Every step keeps it.
LEMMA StepLemma == RInv /\ [Next]_vars => RInv'
<1> SUFFICES ASSUME RInv, [Next]_vars PROVE RInv'
  BY Zenon
<1>1. CASE UNCHANGED vars
  BY <1>1 DEF vars, RInv, Types, RefsInv, RemovedInv, PlanInv, ResultInv, Recorded, OverFor
<1>2. CASE Tick
  BY <1>2, TickLemma, Zenon
<1>3. CASE \E u \in Uris : RecordArtifact(u)
  BY <1>3, RecordLemma, Zenon
<1>4. CASE \E r \in Runs, s \in DOMAIN DaysFor : CompleteRun(r, s)
  BY <1>4, CompleteLemma, Zenon
<1>5. ASSUME NEW c \in Cleaners,
             \/ \E dryRun, strict \in BOOLEAN : Plan(c, dryRun, strict)
             \/ \E u \in Uris : Check(c, u)
             \/ Unlink(c) \/ WriteReport(c) \/ Exit(c) \/ Interrupt(c)
      PROVE  RInv'
  BY <1>5, PlanLemma, CheckLemma, UnlinkLemma, ReportLemma, ExitLemma, Zenon
<1>. QED BY <1>1, <1>2, <1>3, <1>4, <1>5, Zenon DEF Next

\* So it holds always.
LEMMA Invariance == Spec => []RInv
  BY InitLemma, StepLemma, PTL DEF Spec

\* Whatever the runtime records and completes, and however many cleanups are at work,
\* between plan and unlink: a deleted artifact is a file under the artifact root, and
\* every run that names it is over and past its period (RuntimeRetentionExecutor).
THEOREM CleanupIsSafe == Spec => []OnlyExpiredIsDeleted
<1>1. RInv => OnlyExpiredIsDeleted
  BY Zenon DEF RInv, RemovedInv, OverFor, OnlyExpiredIsDeleted
<1>. QED BY <1>1, Invariance, PTL

\* Every report accounts exactly once for every artifact of its plan, and its errors
\* are exactly the unsafe, the failed and, in strict mode, the missing ones.
THEOREM ReportsAreComplete == Spec => []ReportIsComplete
<1>1. ASSUME RInv PROVE ReportIsComplete
  <2> SUFFICES ASSUME NEW c \in Cleaners, cleaner[c].pc = "done"
               PROVE  LET res == cleaner[c].result IN
                      /\ UNION {res[k] : k \in Results} = cleaner[c].expired
                      /\ \A k, l \in Results : k # l => res[k] \cap res[l] = {}
                      /\ cleaner[c].errors = res["unsafe"] \cup res["failed"]
                           \cup (IF cleaner[c].strict THEN res["missing"] ELSE {})
    BY Zenon DEF ReportIsComplete
  <2>1. ResultInv(c) /\ cleaner[c] \in CleanerType
    BY <1>1, Zenon DEF RInv, Types
  <2>2. cleaner[c].result \in [Results -> SUBSET Uris] /\ cleaner[c].expired \subseteq Uris
    BY <2>1, Zenon DEF CleanerType
  <2>3. cleaner[c].todo = {}
    BY <2>1, Zenon DEF ResultInv
  <2>4. \A u \in Uris : u \in cleaner[c].expired <=> \E k \in Results : u \in cleaner[c].result[k]
    BY <2>1, <2>3, Zenon DEF ResultInv
  <2>5. UNION {cleaner[c].result[k] : k \in Results} = cleaner[c].expired
    BY <2>2, <2>4, Zenon
  <2>. QED BY <2>1, <2>5, Zenon DEF ResultInv
<1>2. RInv => ReportIsComplete
  BY <1>1, Zenon
<1>. QED BY <1>2, Invariance, PTL

-----------------------------------------------------------------------------
(* The mail importer: rows.                                                *)

\* An identifier belongs to one row, and a message that has a Message-ID is stored under it.
RowsInv ==
    /\ \A r, s \in stored : r.ext = s.ext => r = s
    /\ \A r \in stored : r.msg \notin Anonymous => r.ext = <<"id", r.msg>>

\* Only insert_message writes rows, and the unique key of the table is the identifier.
LEMMA RowsStep == RowsInv /\ [Mail!Next]_(Mail!vars) => RowsInv'
<1>. SUFFICES ASSUME RowsInv, [Mail!Next]_(Mail!vars) PROVE RowsInv'
  BY Zenon
<1>1. CASE UNCHANGED stored
  BY <1>1, Zenon DEF RowsInv
<1>2. ASSUME NEW i \in Importers, Mail!InsertMessage(i) PROVE RowsInv'
  <2>1. PICK ext : ext = Mail!ExternalId(pass[i].msg, pass[i].validity, Head(pass[i].todo))
    BY Zenon
  <2>2. PICK r : r = [ext |-> ext, msg |-> pass[i].msg]
    BY Zenon
  <2>3. r.msg \notin Anonymous => r.ext = <<"id", r.msg>>
    BY <2>1, <2>2, Zenon DEF Mail!ExternalId
  <2>4. \/ UNCHANGED stored
        \/ stored' = stored \cup {r} /\ \A s \in stored : s.ext # r.ext
    BY <1>2, <2>1, <2>2, Zenon DEF Mail!InsertMessage
  <2>. QED BY <1>1, <2>3, <2>4, Zenon DEF RowsInv
<1>. QED
  BY <1>1, <1>2, Zenon
  DEF Mail!Next, Mail!vars, Mail!Deliver, Mail!Rebuild, Mail!ImportAccount, Mail!Begin, Mail!Fetch,
      Mail!StoreAttachments, Mail!UpdateAccountSuccess, Mail!UpdateAccountError, Mail!Fail, Mail!Die

\* A message with a Message-ID is stored once, for any number of passes, faults and rebuilds of
\* the folder: insert_message is ON CONFLICT DO NOTHING on message_external_id.
THEOREM MailIsStoredOnce == Mail!Spec => []Mail!StoredOnce
<1>1. Mail!Init => RowsInv
  BY Zenon DEF Mail!Init, RowsInv
<1>2. RowsInv => Mail!StoredOnce
  BY Zenon DEF RowsInv, Mail!StoredOnce
<1>. QED BY <1>1, <1>2, RowsStep, PTL DEF Mail!Spec

-----------------------------------------------------------------------------
(* The mail importer: the high-water mark, in a folder that keeps its      *)
(* numbers.                                                                *)

\* A message is dealt with when it is in the database, or was asked for and not delivered.
Dealt(m) == m \in lost \/ \E r \in stored : r.msg = m

\* Everything up to this number is dealt with.
Covered(n) == \A k \in 1..n : k \in DOMAIN folder.mails /\ Dealt(folder.mails[k])

\* A row of the folder: under its Message-ID, or under the number of its message.
RowHolds(r) ==
    \/ r.msg \notin Anonymous /\ r.ext = <<"id", r.msg>>
    \/ \E u \in DOMAIN folder.mails : r.ext = <<"imap", 1, u>> /\ r.msg = folder.mails[u]

\* What a pass has left to do are the numbers after its mark, without a hole.
PassHolds(p) ==
    /\ p.pc \in {"idle", "fetch", "insert", "attach", "error"}
    /\ p.pc \in {"fetch", "insert", "attach"} =>
         /\ p.validity = 1 /\ p.high \in Nat /\ p.todo \in Seq(Nat)
         /\ \A k \in 1..Len(p.todo) : p.todo[k] \in DOMAIN folder.mails
         /\ \A k \in 1..Len(p.todo) : p.todo[k] = p.todo[1] + (k - 1)
    /\ p.pc = "fetch" => Covered(p.high) /\ (p.todo # <<>> => p.todo[1] = p.high + 1)
    /\ p.pc \in {"insert", "attach"} =>
         /\ p.todo # <<>> /\ p.todo[1] = p.high /\ p.msg = folder.mails[p.high]
         /\ \A k \in 1..p.high : k < p.high => k \in DOMAIN folder.mails /\ Dealt(folder.mails[k])
    /\ p.pc = "attach" => Dealt(p.msg)

\* Overlapping passes may read an older mark and write a lower one; each covers what it writes.
MarkInv ==
    /\ folder = [validity |-> 1, mails |-> folder.mails] /\ folder.mails \in Seq(Messages)
    /\ account = [validity |-> account.validity, last |-> account.last, status |-> account.status]
    /\ account.validity \in {0, 1} /\ account.last \in Nat /\ Covered(account.last)
    /\ \A r \in stored : RowHolds(r)
    /\ pass = [i \in Importers |-> pass[i]]
    /\ \A i \in Importers :
         /\ pass[i] = [pc |-> pass[i].pc, validity |-> pass[i].validity, last |-> pass[i].last,
                       todo |-> pass[i].todo, high |-> pass[i].high, msg |-> pass[i].msg]
         /\ PassHolds(pass[i])

\* The state only grows: what is dealt with stays so.
Grows ==
    /\ folder'.mails \in Seq(Messages) /\ folder' = [validity |-> 1, mails |-> folder'.mails]
    /\ \A k \in DOMAIN folder.mails : k \in DOMAIN folder'.mails /\ folder'.mails[k] = folder.mails[k]
    /\ lost \subseteq lost' /\ stored \subseteq stored'

\* What holds of a message, a mark, a row or a pass holds still when the folder grows.
LEMMA GrowsLemma ==
  ASSUME Grows
  PROVE  /\ \A m : Dealt(m) => Dealt(m)'
         /\ \A n : Covered(n) => Covered(n)'
         /\ \A r : RowHolds(r) => RowHolds(r)'
         /\ \A p : p.pc \in {"insert", "attach"} /\ PassHolds(p) => p.high \in DOMAIN folder.mails
         /\ \A p : PassHolds(p) => PassHolds(p)'
<1>1. \A m : Dealt(m) => Dealt(m)'
  BY Zenon DEF Grows, Dealt
<1>2. \A n : Covered(n) => Covered(n)'
  BY <1>1, Zenon DEF Grows, Covered
<1>3. \A r : RowHolds(r) => RowHolds(r)'
  BY Zenon DEF Grows, RowHolds
<1>4. ASSUME NEW p, p.pc \in {"insert", "attach"}, PassHolds(p) PROVE p.high \in DOMAIN folder.mails
  <2>1. p.todo \in Seq(Nat) /\ p.todo # <<>> /\ p.todo[1] = p.high
        /\ \A k \in 1..Len(p.todo) : p.todo[k] \in DOMAIN folder.mails
    BY <1>4, Zenon DEF PassHolds
  <2>2. 1 \in 1..Len(p.todo)
    BY <2>1, SMTT(20)
  <2>. QED BY <2>1, <2>2, Zenon
<1>5. ASSUME NEW p, PassHolds(p) PROVE PassHolds(p)'
  <2>1. p.pc \in {"fetch", "insert", "attach"} => \A k \in 1..Len(p.todo) : p.todo[k] \in DOMAIN folder'.mails
    BY <1>5, Zenon DEF PassHolds, Grows
  <2>2. p.pc = "fetch" => Covered(p.high)'
    BY <1>2, <1>5, Zenon DEF PassHolds
  <2>3. p.pc \in {"insert", "attach"} =>
           /\ p.msg = folder'.mails[p.high]
           /\ \A k \in 1..p.high : k < p.high => (k \in DOMAIN folder.mails /\ Dealt(folder.mails[k]))'
    BY <1>1, <1>4, <1>5 DEF PassHolds, Grows, Dealt
  <2>4. p.pc = "attach" => Dealt(p.msg)'
    BY <1>1, <1>5, Zenon DEF PassHolds
  <2>. QED BY <1>5, <2>1, <2>2, <2>3, <2>4, Zenon DEF PassHolds
<1>. QED BY <1>1, <1>2, <1>3, <1>4, <1>5

\* A step in which at most one pass moves, to a state that holds.
LEMMA OnePassMoves ==
  ASSUME MarkInv, Grows, NEW i \in Importers, NEW q, pass' = [pass EXCEPT ![i] = q],
         q = [pc |-> q.pc, validity |-> q.validity, last |-> q.last, todo |-> q.todo,
              high |-> q.high, msg |-> q.msg],
         PassHolds(q)',
         account' = [validity |-> account'.validity, last |-> account'.last, status |-> account'.status],
         account'.validity \in {0, 1}, account'.last \in Nat, Covered(account.last)',
         \A r \in stored' : r \in stored \/ RowHolds(r)'
  PROVE  MarkInv'
<1>1. \A r \in stored' : RowHolds(r)'
  BY GrowsLemma, Zenon DEF MarkInv
<1>2. /\ pass' = [k \in Importers |-> pass'[k]]
      /\ \A k \in Importers : pass'[k] = IF k = i THEN q ELSE pass[k]
  BY Zenon DEF MarkInv
<1>3. ASSUME NEW k \in Importers
      PROVE  /\ pass'[k] = [pc |-> pass'[k].pc, validity |-> pass'[k].validity, last |-> pass'[k].last,
                            todo |-> pass'[k].todo, high |-> pass'[k].high, msg |-> pass'[k].msg]
             /\ PassHolds(pass[k])'
  <2>1. PICK p : p = pass'[k]
    BY Zenon
  <2>2. /\ p = [pc |-> p.pc, validity |-> p.validity, last |-> p.last, todo |-> p.todo,
                high |-> p.high, msg |-> p.msg]
        /\ PassHolds(p)'
    <3>1. CASE k = i
      BY <1>2, <2>1, <3>1, Zenon
    <3>2. CASE k # i
      <4>1. p = pass[k]
        BY <1>2, <2>1, <3>2, Zenon
      <4>2. PassHolds(p)
        BY <4>1, Zenon DEF MarkInv
      <4>3. PassHolds(p)'
        BY <4>2, GrowsLemma, Zenon
      <4>. QED BY <4>1, <4>3, Zenon DEF MarkInv
    <3>. QED BY <3>1, <3>2, Zenon
  <2>3. PassHolds(pass[k])'
    BY <2>1, <2>2 DEF PassHolds, Covered, Dealt
  <2>. QED BY <2>1, <2>2, <2>3, Zenon
<1>. QED BY <1>1, <1>2, <1>3, Zenon DEF MarkInv, Grows

\* The numbers a pass takes on: those after the mark, at most MaxMessages of them.
LEMMA SearchLemma ==
  ASSUME MarkInv, MaxMessages \in Nat,
         NEW todo, todo = Mail!FirstMax(Mail!SearchNewUids(account.last + 1))
  PROVE  /\ todo \in Seq(Nat)
         /\ \A k \in 1..Len(todo) : todo[k] = account.last + k /\ todo[k] \in DOMAIN folder.mails
<1> DEFINE last == account.last
           len == Len(folder.mails)
           size == IF last + 1 > len THEN 0 ELSE len - (last + 1) + 1
           uids == [k \in 1..size |-> last + 1 + k - 1]
           m == IF Len(uids) < MaxMessages THEN Len(uids) ELSE MaxMessages
<1>1. last \in Nat /\ len \in Nat /\ DOMAIN folder.mails = 1..len
  BY DEF MarkInv
<1> HIDE DEF last, len
<1>2. size \in Nat /\ \A k \in 1..size : last + 1 + k - 1 = last + k /\ last + k \in 1..len
  BY <1>1
<1> HIDE DEF size
<1>3. uids \in Seq(Nat) /\ Len(uids) = size /\ \A k \in 1..size : uids[k] = last + k /\ uids[k] \in 1..len
  BY <1>1, <1>2
<1> HIDE DEF uids
<1>4. m \in Nat /\ m <= size
  BY <1>2, <1>3
<1> HIDE DEF m
<1>5. todo = SubSeq(uids, 1, m)
  BY Zenon DEF Mail!FirstMax, Mail!SearchNewUids, uids, m, size, last, len
<1>6. todo \in Seq(Nat) /\ Len(todo) = m /\ \A k \in 1..m : todo[k] = uids[k]
  BY <1>2, <1>3, <1>4, <1>5, SMTT(20)
<1>7. 1..m \subseteq 1..size
  BY <1>2, <1>4
<1>8. \A k \in 1..Len(todo) : todo[k] = last + k /\ todo[k] \in DOMAIN folder.mails
  BY <1>1, <1>3, <1>6, <1>7, Zenon
<1>. QED BY <1>6, <1>8, Zenon DEF last

\* What is left to do after a message was dealt with starts right behind it.
TailHolds(todo, n) ==
    /\ todo \in Seq(Nat)
    /\ \A k \in 1..Len(todo) : todo[k] \in DOMAIN folder.mails
    /\ \A k \in 1..Len(todo) : todo[k] = todo[1] + (k - 1)
    /\ todo # <<>> => todo[1] = n + 1

\* Taking the first UID off leaves the numbers behind it.
LEMMA TailLemma ==
  ASSUME NEW todo \in Seq(Nat), NEW n \in Nat, todo # <<>>, todo[1] = n,
         \A k \in 1..Len(todo) : todo[k] \in DOMAIN folder.mails,
         \A k \in 1..Len(todo) : todo[k] = todo[1] + (k - 1)
  PROVE  TailHolds(Tail(todo), n)
<1>1. PICK rest : rest = Tail(todo)
  BY Zenon
<1>2. /\ rest \in Seq(Nat) /\ Len(rest) = Len(todo) - 1 /\ Len(todo) \in Nat /\ Len(todo) > 0
      /\ \A k \in 1..Len(rest) : rest[k] = todo[k + 1]
  BY <1>1
<1>3. ASSUME NEW k \in 1..Len(rest)
      PROVE  k + 1 \in 1..Len(todo) /\ rest[k] = n + k /\ rest[k] \in DOMAIN folder.mails
  <2>1. k + 1 \in 1..Len(todo)
    BY <1>2
  <2>2. todo[k + 1] = n + ((k + 1) - 1)
    BY <2>1, Zenon
  <2>. QED BY <1>2, <2>1, <2>2
<1>4. ASSUME NEW k \in 1..Len(rest) PROVE rest[k] = rest[1] + (k - 1)
  <2>1. 1 \in 1..Len(rest)
    BY <1>2
  <2>2. rest[k] = n + k /\ rest[1] = n + 1
    BY <1>3, <2>1, Zenon
  <2>. QED BY <2>2
<1>5. rest # <<>> => rest[1] = n + 1
  <2>1. rest # <<>> => 1 \in 1..Len(rest)
    BY <1>2
  <2>. QED BY <1>3, <2>1, Zenon
<1>. QED BY <1>1, <1>2, <1>3, <1>4, <1>5, Zenon DEF TailHolds

\* A step of a pass.
LEMMA PassStep ==
  ASSUME MarkInv, MaxMessages \in Nat, NEW i \in Importers,
         Mail!ImportAccount(i) \/ Mail!Fail(i) \/ Mail!Die(i)
  PROVE  MarkInv'
<1> DEFINE p == pass[i]
<1>1. /\ p = [pc |-> p.pc, validity |-> p.validity, last |-> p.last, todo |-> p.todo,
              high |-> p.high, msg |-> p.msg]
      /\ PassHolds(p)
      /\ folder.mails \in Seq(Messages)
  BY Zenon DEF MarkInv
<1>2. ASSUME UNCHANGED folder, lost \subseteq lost', stored \subseteq stored' PROVE Grows
  BY <1>2, Zenon DEF MarkInv, Grows
\* Steps that leave the account alone.
<1>3. ASSUME Grows, UNCHANGED account, NEW q, pass' = [pass EXCEPT ![i] = q],
             q = [pc |-> q.pc, validity |-> q.validity, last |-> q.last, todo |-> q.todo,
                  high |-> q.high, msg |-> q.msg],
             PassHolds(q)', \A r \in stored' : r \in stored \/ RowHolds(r)'
      PROVE  MarkInv'
  <2>1. /\ account' = [validity |-> account'.validity, last |-> account'.last, status |-> account'.status]
        /\ account'.validity \in {0, 1} /\ account'.last \in Nat /\ Covered(account.last)
    BY <1>3, Zenon DEF MarkInv
  <2>2. Covered(account.last)'
    BY <1>3, <2>1, GrowsLemma, Zenon DEF Covered, Dealt
  <2>. QED BY <1>3, <2>1, <2>2, OnePassMoves, Zenon
\* A pass that is over.
<1>4. ASSUME NEW pc \in {"idle", "error"}
      PROVE  LET q == [Mail!NoPass EXCEPT !.pc = pc] IN
             /\ q = [pc |-> q.pc, validity |-> q.validity, last |-> q.last, todo |-> q.todo,
                     high |-> q.high, msg |-> q.msg]
             /\ q.pc = pc /\ PassHolds(q)'
  BY DEF Mail!NoPass, PassHolds
<1>5. Mail!NoPass = [Mail!NoPass EXCEPT !.pc = "idle"]
  BY DEF Mail!NoPass
<1>6. CASE Mail!Begin(i)
  <2>1. PICK todo : todo = Mail!FirstMax(Mail!SearchNewUids(account.last + 1))
    BY Zenon
  <2>2. Mail!StartUid(account) = account.last + 1
    BY DEF MarkInv, Mail!StartUid
  <2>3. PICK q : q = [Mail!NoPass EXCEPT !.pc = "fetch", !.validity = folder.validity, !.last = account.last,
                                         !.todo = todo, !.high = account.last]
    BY Zenon
  <2>4. pass' = [pass EXCEPT ![i] = q] /\ UNCHANGED <<folder, account, stored, lost>>
    BY <1>6, <2>1, <2>2, <2>3, Zenon DEF Mail!Begin
  <2>5. /\ q = [pc |-> q.pc, validity |-> q.validity, last |-> q.last, todo |-> q.todo,
                high |-> q.high, msg |-> q.msg]
        /\ q.pc = "fetch" /\ q.validity = 1 /\ q.todo = todo /\ q.high = account.last
    <3>1. folder.validity = 1
      BY DEF MarkInv
    <3>. QED BY <2>3, <3>1, Zenon DEF Mail!NoPass
  <2>6. /\ todo \in Seq(Nat)
        /\ \A k \in 1..Len(todo) : todo[k] = account.last + k /\ todo[k] \in DOMAIN folder.mails
    BY <2>1, SearchLemma, Zenon
  <2>7. account.last \in Nat /\ Covered(account.last)
    BY Zenon DEF MarkInv
  <2>8. todo # <<>> => 1 \in 1..Len(todo)
    BY <2>6
  <2>9. \A k \in 1..Len(todo) : todo[k] = todo[1] + (k - 1)
    <3>1. \A k \in 1..Len(todo) : 1 \in 1..Len(todo)
      BY <2>6
    <3>2. \A k \in 1..Len(todo) : todo[k] = account.last + k /\ todo[1] = account.last + 1
      BY <2>6, <3>1, Zenon
    <3>. QED BY <2>7, <3>2
  <2>10. PassHolds(q)
    BY <2>5, <2>6, <2>7, <2>8, <2>9, Zenon DEF PassHolds
  <2>11. Grows
    BY <1>2, <2>4, Zenon
  <2>12. PassHolds(q)'
    BY <2>10, <2>11, GrowsLemma, Zenon
  <2>. QED BY <1>3, <2>4, <2>5, <2>11, <2>12, Zenon
<1>7. CASE Mail!Fetch(i)
  <2>1. /\ p.pc = "fetch" /\ p.todo # <<>> /\ p.todo \in Seq(Nat) /\ p.high \in Nat /\ p.validity = 1
        /\ p.todo[1] = p.high + 1 /\ Head(p.todo) = p.todo[1] /\ 1 \in 1..Len(p.todo)
        /\ p.todo[1] \in DOMAIN folder.mails /\ Covered(p.high)
        /\ \A k \in 1..Len(p.todo) : p.todo[k] \in DOMAIN folder.mails
        /\ \A k \in 1..Len(p.todo) : p.todo[k] = p.todo[1] + (k - 1)
    <3>1. p.pc = "fetch" /\ p.todo # <<>>
      BY <1>7, Zenon DEF Mail!Fetch
    <3>2. /\ p.todo \in Seq(Nat) /\ p.high \in Nat /\ p.validity = 1 /\ p.todo[1] = p.high + 1 /\ Covered(p.high)
          /\ \A k \in 1..Len(p.todo) : p.todo[k] \in DOMAIN folder.mails
          /\ \A k \in 1..Len(p.todo) : p.todo[k] = p.todo[1] + (k - 1)
      BY <1>1, <3>1, Zenon DEF PassHolds
    <3>3. 1 \in 1..Len(p.todo) /\ Head(p.todo) = p.todo[1]
      BY <3>1, <3>2
    <3>. QED BY <3>1, <3>2, <3>3, Zenon
  <2>2. PICK uid \in Nat : uid = p.high + 1
    BY <2>1
  <2>3. Mail!Highest(p.high, Head(p.todo)) = uid
    <3>1. Mail!Highest(p.high, uid) = uid
      BY <2>1, <2>2 DEF Mail!Highest, Mail!Max
    <3>. QED BY <2>1, <2>2, <3>1, Zenon
  <2>4. PICK m : m = folder.mails[uid]
    BY Zenon
  <2>5. CASE pass' = [pass EXCEPT ![i].pc = "insert", ![i].msg = m, ![i].high = uid] /\ UNCHANGED <<lost, faults>>
    <3>1. PICK q : q = [p EXCEPT !.pc = "insert", !.msg = m, !.high = uid]
      BY Zenon
    <3>2. /\ q = [pc |-> q.pc, validity |-> q.validity, last |-> q.last, todo |-> q.todo,
                  high |-> q.high, msg |-> q.msg]
          /\ q.pc = "insert" /\ q.validity = 1 /\ q.todo = p.todo /\ q.high = uid /\ q.msg = m
      BY <1>1, <2>1, <3>1, Zenon
    <3>3. pass' = [pass EXCEPT ![i] = q] /\ UNCHANGED <<folder, account, stored, lost>>
      BY <1>7, <2>5, <3>1, ZenonT(30) DEF Mail!Fetch
    <3>4. \A k \in 1..uid : k < uid => k \in 1..p.high
      BY <2>1, <2>2
    <3>5. PassHolds(q)
      BY <2>1, <2>2, <2>4, <3>2, <3>4, Zenon DEF PassHolds, Covered
    <3>6. Grows
      BY <1>2, <3>3, Zenon
    <3>7. PassHolds(q)'
      BY <3>5, <3>6, GrowsLemma, Zenon
    <3>. QED BY <1>3, <3>2, <3>3, <3>6, <3>7, Zenon
  <2>6. CASE /\ lost' = lost \cup {m}
             /\ pass' = [pass EXCEPT ![i].todo = Tail(p.todo), ![i].high = uid]
    <3>1. PICK q : q = [p EXCEPT !.todo = Tail(p.todo), !.high = uid]
      BY Zenon
    <3>2. /\ q = [pc |-> q.pc, validity |-> q.validity, last |-> q.last, todo |-> q.todo,
                  high |-> q.high, msg |-> q.msg]
          /\ q.pc = "fetch" /\ q.validity = 1 /\ q.todo = Tail(p.todo) /\ q.high = uid
      BY <1>1, <2>1, <3>1, Zenon
    <3>3. pass' = [pass EXCEPT ![i] = q] /\ UNCHANGED <<folder, account, stored>> /\ lost \subseteq lost'
      BY <1>7, <2>6, <3>1, Zenon DEF Mail!Fetch
    <3>4. Grows
      BY <1>2, <3>3, Zenon
    <3>5. Covered(uid)'
      <4>1. \A k \in 1..uid : k = uid \/ k \in 1..p.high
        BY <2>1, <2>2
      <4>2. ASSUME NEW k \in 1..p.high PROVE (k \in DOMAIN folder.mails /\ Dealt(folder.mails[k]))'
        <5>1. PICK h : h = p.high
          BY Zenon
        <5>2. Covered(h)'
          BY <2>1, <3>4, <5>1, GrowsLemma, Zenon
        <5>. QED BY <5>1, <5>2, Zenon DEF Covered
      <4>3. uid \in DOMAIN folder.mails /\ m \in lost'
        BY <2>1, <2>2, <2>6, Zenon
      <4>. QED BY <2>4, <3>3, <4>1, <4>2, <4>3, Zenon DEF Covered, Dealt
    <3>6. TailHolds(q.todo, uid)'
      <4>1. TailHolds(q.todo, uid)
        BY <2>1, <2>2, <3>2, TailLemma, Zenon
      <4>. QED BY <3>3, <4>1, Zenon DEF TailHolds
    <3>7. PassHolds(q)'
      BY <3>2, <3>5, <3>6, Zenon DEF PassHolds, TailHolds
    <3>. QED BY <1>3, <3>2, <3>3, <3>4, <3>7, Zenon
  <2>. QED BY <1>7, <2>1, <2>2, <2>3, <2>4, <2>5, <2>6, Zenon DEF Mail!Fetch
<1>8. CASE Mail!InsertMessage(i)
  <2>1. /\ p.pc = "insert" /\ p.todo # <<>> /\ p.todo \in Seq(Nat) /\ p.high \in Nat /\ p.validity = 1
        /\ p.todo[1] = p.high /\ Head(p.todo) = p.todo[1] /\ 1 \in 1..Len(p.todo)
        /\ p.high \in DOMAIN folder.mails /\ p.msg = folder.mails[p.high]
        /\ \A k \in 1..Len(p.todo) : p.todo[k] \in DOMAIN folder.mails
        /\ \A k \in 1..Len(p.todo) : p.todo[k] = p.todo[1] + (k - 1)
        /\ \A k \in 1..p.high : k < p.high => k \in DOMAIN folder.mails /\ Dealt(folder.mails[k])
    BY <1>1, <1>8 DEF Mail!InsertMessage, PassHolds
  <2>2. PICK ext : ext = Mail!ExternalId(p.msg, 1, p.high)
    BY Zenon
  <2>3. \/ p.msg \in Anonymous /\ ext = <<"imap", 1, p.high>>
        \/ p.msg \notin Anonymous /\ ext = <<"id", p.msg>>
    BY <2>2, Zenon DEF Mail!ExternalId
  \* A row that is there already holds this very message.
  <2>4. ASSUME NEW r \in stored, r.ext = ext PROVE r.msg = p.msg
    <3>1. RowHolds(r)
      BY Zenon DEF MarkInv
    <3>. QED BY <2>1, <2>3, <2>4, <3>1 DEF RowHolds
  <2>5. CASE (\E r \in stored : r.ext = ext) /\ UNCHANGED stored
             /\ pass' = [pass EXCEPT ![i].pc = "fetch", ![i].todo = Tail(p.todo)]
    <3>1. PICK q : q = [p EXCEPT !.pc = "fetch", !.todo = Tail(p.todo)]
      BY Zenon
    <3>2. /\ q = [pc |-> q.pc, validity |-> q.validity, last |-> q.last, todo |-> q.todo,
                  high |-> q.high, msg |-> q.msg]
          /\ q.pc = "fetch" /\ q.validity = 1 /\ q.todo = Tail(p.todo) /\ q.high = p.high
      BY <1>1, <2>1, <3>1, Zenon
    <3>3. pass' = [pass EXCEPT ![i] = q] /\ UNCHANGED <<folder, account, stored, lost>>
      BY <1>8, <2>5, <3>1, Zenon DEF Mail!InsertMessage
    <3>4. Grows
      BY <1>2, <3>3, Zenon
    <3>5. Covered(p.high)
      <4>1. Dealt(folder.mails[p.high])
        BY <2>1, <2>4, <2>5, Zenon DEF Dealt
      <4>2. \A k \in 1..p.high : k = p.high \/ k < p.high
        BY <2>1
      <4>. QED BY <2>1, <4>1, <4>2, Zenon DEF Covered
    <3>6. TailHolds(q.todo, p.high)
      BY <2>1, <3>2, TailLemma, Zenon
    <3>7. PassHolds(q)
      BY <2>1, <3>2, <3>5, <3>6, Zenon DEF PassHolds, TailHolds
    <3>8. PassHolds(q)'
      BY <3>4, <3>7, GrowsLemma, Zenon
    <3>. QED BY <1>3, <3>2, <3>3, <3>4, <3>8, Zenon
  <2>6. CASE /\ pass' = [pass EXCEPT ![i].pc = "attach"]
             /\ stored' = stored \cup {[ext |-> ext, msg |-> p.msg]}
    <3>1. PICK q : q = [p EXCEPT !.pc = "attach"]
      BY Zenon
    <3>2. /\ q = [pc |-> q.pc, validity |-> q.validity, last |-> q.last, todo |-> q.todo,
                  high |-> q.high, msg |-> q.msg]
          /\ q.pc = "attach" /\ q.validity = 1 /\ q.todo = p.todo /\ q.high = p.high /\ q.msg = p.msg
      BY <1>1, <2>1, <3>1, Zenon
    <3>3. pass' = [pass EXCEPT ![i] = q] /\ UNCHANGED <<folder, account, lost>> /\ stored \subseteq stored'
      BY <1>8, <2>6, <3>1, Zenon DEF Mail!InsertMessage
    <3>4. Grows
      BY <1>2, <3>3, Zenon
    <3>5. PICK r : r = [ext |-> ext, msg |-> p.msg]
      BY Zenon
    <3>6. r.ext = ext /\ r.msg = p.msg /\ stored' = stored \cup {r}
      BY <2>6, <3>5, Zenon
    <3>7. RowHolds(r)'
      BY <2>1, <2>3, <3>3, <3>6, Zenon DEF RowHolds
    <3>8. Dealt(q.msg)'
      <4>1. r \in stored' /\ r.msg = q.msg
        BY <3>2, <3>6, Zenon
      <4>. QED BY <4>1, Zenon DEF Dealt
    <3>9. PassHolds(q)'
      BY <2>1, <3>2, <3>3, <3>4, <3>8, GrowsLemma, ZenonT(30) DEF PassHolds
    <3>. QED BY <1>3, <3>2, <3>3, <3>4, <3>6, <3>7, <3>9, Zenon
  <2>. QED BY <1>8, <2>1, <2>2, <2>5, <2>6, Zenon DEF Mail!InsertMessage
<1>9. CASE Mail!StoreAttachments(i)
  <2>1. /\ p.pc = "attach" /\ p.todo # <<>> /\ p.todo \in Seq(Nat) /\ p.high \in Nat /\ p.validity = 1
        /\ p.todo[1] = p.high /\ 1 \in 1..Len(p.todo)
        /\ p.high \in DOMAIN folder.mails /\ p.msg = folder.mails[p.high] /\ Dealt(p.msg)
        /\ \A k \in 1..Len(p.todo) : p.todo[k] \in DOMAIN folder.mails
        /\ \A k \in 1..Len(p.todo) : p.todo[k] = p.todo[1] + (k - 1)
        /\ \A k \in 1..p.high : k < p.high => k \in DOMAIN folder.mails /\ Dealt(folder.mails[k])
    BY <1>1, <1>9 DEF Mail!StoreAttachments, PassHolds
  <2>2. PICK q : q = [p EXCEPT !.pc = "fetch", !.todo = Tail(p.todo)]
    BY Zenon
  <2>3. /\ q = [pc |-> q.pc, validity |-> q.validity, last |-> q.last, todo |-> q.todo,
                high |-> q.high, msg |-> q.msg]
        /\ q.pc = "fetch" /\ q.validity = 1 /\ q.todo = Tail(p.todo) /\ q.high = p.high
    BY <1>1, <2>1, <2>2, Zenon
  <2>4. pass' = [pass EXCEPT ![i] = q] /\ UNCHANGED <<folder, account, stored, lost>>
    BY <1>9, <2>2, ZenonT(30) DEF Mail!StoreAttachments
  <2>5. Grows
    BY <1>2, <2>4, Zenon
  <2>6. Covered(p.high)
    <3>1. \A k \in 1..p.high : k = p.high \/ k < p.high
      BY <2>1
    <3>. QED BY <2>1, <3>1, Zenon DEF Covered
  <2>7. TailHolds(q.todo, p.high)
    BY <2>1, <2>3, TailLemma, Zenon
  <2>8. PassHolds(q)
    BY <2>1, <2>3, <2>6, <2>7, Zenon DEF PassHolds, TailHolds
  <2>9. PassHolds(q)'
    BY <2>5, <2>8, GrowsLemma, Zenon
  <2>. QED BY <1>3, <2>3, <2>4, <2>5, <2>9, Zenon
<1>10. CASE Mail!UpdateAccountSuccess(i)
  <2>1. PICK q : q = Mail!NoPass
    BY Zenon
  <2>2. pass' = [pass EXCEPT ![i] = q] /\ UNCHANGED <<folder, stored, lost>>
    BY <1>10, <2>1, Zenon DEF Mail!UpdateAccountSuccess
  <2>3. account' = [validity |-> p.validity, last |-> p.high, status |-> "ok"] /\ p.pc = "fetch"
    BY <1>10, Zenon DEF Mail!UpdateAccountSuccess
  <2>4. p.validity = 1 /\ p.high \in Nat /\ Covered(p.high)
    BY <1>1, <2>3, ZenonT(30) DEF PassHolds
  <2>5. /\ account' = [validity |-> account'.validity, last |-> account'.last, status |-> account'.status]
        /\ account'.validity \in {0, 1} /\ account'.last = p.high
    BY <2>3, <2>4, Zenon
  <2>6. Grows
    BY <1>2, <2>2, Zenon
  <2>7. Covered(account.last)'
    <3>1. PICK h : h = p.high
      BY Zenon
    <3>2. Covered(h)'
      BY <2>4, <2>6, <3>1, GrowsLemma, Zenon
    <3>. QED BY <2>5, <3>1, <3>2, Zenon DEF Covered, Dealt
  <2>8. /\ q = [pc |-> q.pc, validity |-> q.validity, last |-> q.last, todo |-> q.todo,
                high |-> q.high, msg |-> q.msg]
        /\ PassHolds(q)'
    BY <1>4, <1>5, <2>1, Zenon
  <2>9. account'.last \in Nat
    BY <2>4, <2>5, Zenon
  <2>. QED BY <2>2, <2>5, <2>6, <2>7, <2>8, <2>9, OnePassMoves, ZenonT(30)
<1>11. CASE Mail!UpdateAccountError(i)
  <2>1. PICK q : q = Mail!NoPass
    BY Zenon
  <2>2. /\ pass' = [pass EXCEPT ![i] = q] /\ UNCHANGED <<folder, stored, lost>>
        /\ account' = [account EXCEPT !.status = "error"]
    BY <1>11, <2>1, Zenon DEF Mail!UpdateAccountError
  <2>3. Grows
    BY <1>2, <2>2, Zenon
  <2>4. account.last \in Nat /\ Covered(account.last)
    BY Zenon DEF MarkInv
  <2>5. /\ account' = [validity |-> account'.validity, last |-> account'.last, status |-> account'.status]
        /\ account'.validity \in {0, 1} /\ account'.last = account.last
    BY <2>2, Zenon DEF MarkInv
  <2>6. Covered(account.last)'
    BY <2>3, <2>4, <2>5, GrowsLemma, Zenon DEF Covered, Dealt
  <2>7. /\ q = [pc |-> q.pc, validity |-> q.validity, last |-> q.last, todo |-> q.todo,
                high |-> q.high, msg |-> q.msg]
        /\ PassHolds(q)'
    BY <1>4, <1>5, <2>1, Zenon
  <2>8. account'.last \in Nat
    BY <2>4, <2>5, Zenon
  <2>. QED BY <2>2, <2>3, <2>5, <2>6, <2>7, <2>8, OnePassMoves, Zenon
<1>12. CASE Mail!Fail(i) \/ Mail!Die(i)
  <2>1. PICK q : /\ pass' = [pass EXCEPT ![i] = q]
                 /\ q = [Mail!NoPass EXCEPT !.pc = "error"] \/ q = [Mail!NoPass EXCEPT !.pc = "idle"]
    BY <1>5, <1>12, Zenon DEF Mail!Fail, Mail!Die
  <2>2. UNCHANGED <<folder, account, stored, lost>>
    BY <1>12, Zenon DEF Mail!Fail, Mail!Die
  <2>3. Grows
    BY <1>2, <2>2, Zenon
  <2>4. /\ q = [pc |-> q.pc, validity |-> q.validity, last |-> q.last, todo |-> q.todo,
                high |-> q.high, msg |-> q.msg]
        /\ PassHolds(q)'
    BY <1>4, <2>1, Zenon
  <2>. QED BY <1>3, <2>1, <2>2, <2>3, <2>4, Zenon
<1>. QED BY <1>6, <1>7, <1>8, <1>9, <1>10, <1>11, <1>12, Zenon DEF Mail!ImportAccount

\* New mail lands behind all that is there.
LEMMA DeliverStep ==
  ASSUME MarkInv, NEW m \in Messages, Mail!Deliver(m)
  PROVE  MarkInv'
<1>1. /\ folder' = [folder EXCEPT !.mails = Append(@, m)]
      /\ UNCHANGED <<account, stored, pass, lost>>
  BY Zenon DEF Mail!Deliver
<1>2. folder = [validity |-> 1, mails |-> folder.mails] /\ folder.mails \in Seq(Messages)
  BY Zenon DEF MarkInv
<1>3. folder' = [validity |-> 1, mails |-> folder'.mails] /\ folder'.mails = Append(folder.mails, m)
  <2>1. folder' = [folder EXCEPT !.mails = Append(folder.mails, m)]
    BY <1>1, Zenon
  <2>2. PICK longer : longer = Append(folder.mails, m)
    BY ZenonT(30)
  <2>3. PICK mails : mails = folder.mails /\ folder = [validity |-> 1, mails |-> mails]
    BY <1>2, Zenon
  <2>4. folder' = [folder EXCEPT !.mails = longer]
    BY <2>1, <2>2, Zenon
  <2>5. folder' = [validity |-> 1, mails |-> longer]
    BY <2>3, <2>4
  <2>. QED BY <2>2, <2>5, Zenon
<1>4. Grows
  BY <1>1, <1>2, <1>3 DEF Grows
<1>5. /\ Covered(account.last) /\ (\A r \in stored : RowHolds(r))
      /\ \A i \in Importers : PassHolds(pass[i])
  BY Zenon DEF MarkInv
<1>6. Covered(account.last)'
  BY <1>1, <1>4, <1>5, GrowsLemma, Zenon DEF Covered, Dealt
<1>7. \A r \in stored' : RowHolds(r)'
  BY <1>1, <1>4, <1>5, GrowsLemma, Zenon
<1>8. ASSUME NEW i \in Importers PROVE PassHolds(pass[i])'
  <2>1. PICK p : p = pass[i]
    BY Zenon
  <2>2. PassHolds(p)'
    BY <1>4, <1>5, <2>1, GrowsLemma, Zenon
  <2>3. p = pass'[i]
    BY <1>1, <2>1, Zenon
  <2>. QED BY <2>2, <2>3, Zenon DEF PassHolds, Covered, Dealt
<1>. QED BY <1>1, <1>3, <1>4, <1>6, <1>7, <1>8, Zenon DEF MarkInv, Grows

\* An account that was never read.
LEMMA MarkInit ==
  ASSUME Mail!Init
  PROVE  MarkInv
<1>1. PICK p : p = Mail!NoPass
  BY Zenon
<1>2. /\ p = [pc |-> p.pc, validity |-> p.validity, last |-> p.last, todo |-> p.todo,
              high |-> p.high, msg |-> p.msg]
      /\ p.pc = "idle"
  BY <1>1, Zenon DEF Mail!NoPass
<1>3. /\ pass = [i \in Importers |-> p] /\ stored = {}
      /\ folder = [validity |-> 1, mails |-> <<>>]
      /\ account = [validity |-> 0, last |-> 0, status |-> "new"]
  BY <1>1, Zenon DEF Mail!Init
<1>4. PassHolds(p)
  BY <1>2, Zenon DEF PassHolds
<1>5. folder.mails = <<>> /\ folder = [validity |-> 1, mails |-> folder.mails] /\ <<>> \in Seq(Messages)
  BY <1>3
<1>6. /\ account = [validity |-> account.validity, last |-> account.last, status |-> account.status]
      /\ account.validity \in {0, 1} /\ account.last = 0
  BY <1>3, Zenon
<1>7. account.last \in Nat /\ Covered(account.last)
  BY <1>6 DEF Covered
<1>. QED BY <1>2, <1>3, <1>4, <1>5, <1>6, <1>7, Zenon DEF MarkInv

\* The bookmark of an account: as long as the server does not renumber the folder, every message up
\* to the UID the account row carries is stored, or was lost to a failed fetch that skipped it,
\* whatever passes overlap, fail or die (import_account, update_account_success).
THEOREM MarkCoversMail ==
  ASSUME MaxRebuilds = 0, MaxMessages \in Nat
  PROVE  Mail!Spec => []Mail!MarkIsCovered
<1>1. Mail!Init => MarkInv
  BY MarkInit, Zenon
<1>2. MarkInv /\ [Mail!Next]_(Mail!vars) => MarkInv'
  <2>. SUFFICES ASSUME MarkInv, [Mail!Next]_(Mail!vars) PROVE MarkInv'
    BY Zenon
  <2>1. CASE Mail!Rebuild
    <3>1. folder.validity = 1
      BY SMTT(20) DEF MarkInv
    <3>. QED BY <2>1, <3>1 DEF Mail!Rebuild
  <2>2. CASE UNCHANGED Mail!vars
    <3>1. folder' = folder /\ account' = account /\ stored' = stored /\ pass' = pass /\ lost' = lost
      BY <2>2, Zenon DEF Mail!vars
    <3>2. \A m : Dealt(m) => Dealt(m)'
      BY <3>1, Zenon DEF Dealt
    <3>3. Covered(account.last)'
      BY <3>1, <3>2, Zenon DEF MarkInv, Covered
    <3>4. \A r \in stored' : RowHolds(r)'
      BY <3>1, Zenon DEF MarkInv, RowHolds
    <3>5. ASSUME NEW i \in Importers PROVE PassHolds(pass[i])'
      <4>1. PassHolds(pass[i])
        BY Zenon DEF MarkInv
      <4>. QED BY <3>1, <4>1, Zenon DEF PassHolds, Covered, Dealt
    <3>. QED BY <3>1, <3>3, <3>4, <3>5, Zenon DEF MarkInv
  <2>. QED BY <2>1, <2>2, PassStep, DeliverStep, Zenon DEF Mail!Next
<1>3. MarkInv => Mail!MarkIsCovered
  BY Zenon DEF MarkInv, Covered, Dealt, Mail!MarkIsCovered
<1>. QED BY <1>1, <1>2, <1>3, PTL DEF Mail!Spec

-----------------------------------------------------------------------------
(* Tasks and e-mail.                                                       *)

CONSTANTS Users, Admins, Scope, Cases, CaseOwner, Emails, NoUser, Searches, Channels, Threads,
          MaxRequests, MaxTasks, MaxSuggestions

VARIABLES tasks, emails, suggestions, events, disk, attachments, thread, served, assigned

Work == INSTANCE WorkDesk WITH Owner <- CaseOwner

TaskRow(k) ==
    k = [case |-> k.case, by |-> k.by, to |-> k.to, reminders |-> k.reminders, archived |-> k.archived,
         deleted |-> k.deleted]
EmailRow(e) == e = [user |-> e.user, links |-> e.links, archived |-> e.archived, deleted |-> e.deleted]
SuggestionRow(s) == s = [email |-> s.email, case |-> s.case, status |-> s.status] /\ s.email \in Emails

TasksHold ==
    /\ \E S : tasks \in Seq(S)
    /\ \A k \in DOMAIN tasks : TaskRow(tasks[k])
    /\ Work!RemindersFollowAssignee

MailsHold ==
    /\ emails = [e \in Emails |-> emails[e]] /\ \A e \in Emails : EmailRow(emails[e])
    /\ \E S : suggestions \in Seq(S)
    /\ \A s \in DOMAIN suggestions : SuggestionRow(suggestions[s])
    /\ Work!AcceptedSuggestionsAreLinked

\* What a request has established: the task its attachment is for, the file the row will name, the
\* e-mail it works on.
CallHolds(r) ==
    /\ r = [pc |-> r.pc, op |-> r.op, id |-> r.id, user |-> r.user, to |-> r.to, hits |-> r.hits,
            case |-> r.case, channels |-> r.channels, file |-> r.file, do |-> r.do]
    /\ r.pc \in {"file", "row"} => r.id \in DOMAIN tasks
    /\ r.pc = "row" => r.file \in disk
    /\ r.op \in {"assign", "email_life"} => r.do \in Emails

CallsHold == thread = [t \in Threads |-> thread[t]] /\ \A t \in Threads : CallHolds(thread[t])

WorkInv == TasksHold /\ MailsHold /\ CallsHold /\ Work!AttachmentsHaveFiles

WorkNext == Work!TaskNext \/ Work!EmailNext

\* Tasks and files are never taken away.
NothingLost == DOMAIN tasks \subseteq DOMAIN tasks' /\ disk \subseteq disk'

\* Requests keep what they have established; an answered one has nothing to keep.
LEMMA CallsKept ==
  ASSUME NothingLost
  PROVE  /\ \A r : CallHolds(r) => CallHolds(r)'
         /\ CallHolds(Work!Idle)'
<1>1. \A r : CallHolds(r) => CallHolds(r)'
  BY Zenon DEF NothingLost, CallHolds
<1>2. PICK r : r = Work!Idle
  BY Zenon
<1>3. /\ r = [pc |-> r.pc, op |-> r.op, id |-> r.id, user |-> r.user, to |-> r.to, hits |-> r.hits,
              case |-> r.case, channels |-> r.channels, file |-> r.file, do |-> r.do]
      /\ r.pc = "idle" /\ r.op = "none"
  BY <1>2, Zenon DEF Work!Idle
<1>4. CallHolds(r)'
  BY <1>3, Zenon DEF CallHolds
<1>. QED BY <1>1, <1>2, <1>4, Zenon

\* One request moves.
LEMMA CallMoves ==
  ASSUME CallsHold, NothingLost, NEW t \in Threads, NEW q, thread' = [thread EXCEPT ![t] = q], CallHolds(q)'
  PROVE  CallsHold'
<1>1. thread' = [u \in Threads |-> thread'[u]] /\ thread'[t] = q
      /\ \A u \in Threads : u # t => thread'[u] = thread[u]
  BY Zenon DEF CallsHold
<1>2. ASSUME NEW u \in Threads PROVE CallHolds(thread[u])'
  <2>1. CASE u = t
    BY <1>1, <2>1, Zenon DEF CallHolds
  <2>2. CASE u # t
    <3>1. PICK r : r = thread[u]
      BY Zenon
    <3>2. CallHolds(r)'
      BY <3>1, CallsKept, Zenon DEF CallsHold
    <3>3. thread'[u] = r
      BY <1>1, <2>2, <3>1, Zenon
    <3>. QED BY <3>2, <3>3, Zenon DEF CallHolds
  <2>. QED BY <2>1, <2>2, Zenon
<1>. QED BY <1>1, <1>2, Zenon DEF CallsHold

\* A step that leaves the tables alone.
LEMMA OnlyCalls ==
  ASSUME WorkInv, UNCHANGED <<tasks, emails, suggestions, disk, attachments>>
  PROVE  NothingLost /\ (CallsHold' => WorkInv')
<1>1. NothingLost
  BY Zenon DEF NothingLost
<1>2. TasksHold'
  BY Zenon DEF WorkInv, TasksHold, Work!RemindersFollowAssignee
<1>3. MailsHold'
  BY Zenon DEF WorkInv, MailsHold, Work!AcceptedSuggestionsAreLinked
<1>4. Work!AttachmentsHaveFiles'
  BY Zenon DEF WorkInv, Work!AttachmentsHaveFiles
<1>. QED BY <1>1, <1>2, <1>3, <1>4, Zenon DEF WorkInv

\* A request starts.
LEMMA Starts ==
  ASSUME WorkInv, NEW t \in Threads, NEW q, Work!Start(t, q),
         q = [pc |-> q.pc, op |-> q.op, id |-> q.id, user |-> q.user, to |-> q.to, hits |-> q.hits,
              case |-> q.case, channels |-> q.channels, file |-> q.file, do |-> q.do],
         q.pc \in {"resolve", "write"}, q.op \in {"assign", "email_life"} => q.do \in Emails
  PROVE  WorkInv'
<1>1. /\ UNCHANGED <<tasks, emails, suggestions, disk, attachments>>
      /\ thread' = [thread EXCEPT ![t] = q]
  BY Zenon DEF Work!Start
<1>2. CallHolds(q)'
  BY Zenon DEF CallHolds
<1>. QED BY <1>1, <1>2, OnlyCalls, CallMoves, Zenon DEF WorkInv

\* A call begins: it has established nothing yet.
LEMMA CallStarts ==
  ASSUME WorkInv, NEW t \in Threads
  PROVE  /\ \A u, k, to, hits, channels, attach : Work!SaveTask(t, u, k, to, hits, channels, attach) => WorkInv'
         /\ \A u, hits : \A e \in Emails : Work!AssignEmail(t, u, e, hits) => WorkInv'
         /\ \A u, op, id, e, action : Work!SetLifecycle(t, u, op, id, e, action)
              /\ (op = "task_life" \/ (op = "email_life" /\ e \in Emails)) => WorkInv'
         /\ \A u, s : Work!DecideSuggestion(t, u, s) => WorkInv'
<1>1. ASSUME NEW u, NEW k, NEW to, NEW hits, NEW channels, NEW attach, Work!SaveTask(t, u, k, to, hits, channels, attach)
      PROVE  WorkInv'
  <2>1. PICK file : file = IF attach THEN served + 1 ELSE 0
    BY Zenon
  <2>2. PICK q : q = [Work!Idle EXCEPT !.pc = "resolve", !.op = "task", !.id = k, !.user = u, !.to = to, !.hits = hits,
                          !.channels = channels, !.file = file]
    BY Zenon
  <2>3. /\ q = [pc |-> q.pc, op |-> q.op, id |-> q.id, user |-> q.user, to |-> q.to, hits |-> q.hits,
                case |-> q.case, channels |-> q.channels, file |-> q.file, do |-> q.do]
        /\ q.pc = "resolve" /\ q.op = "task"
    BY <2>2, Zenon DEF Work!Idle
  <2>4. Work!Start(t, q)
    BY <1>1, <2>1, <2>2, Zenon DEF Work!SaveTask
  <2>. QED BY <2>3, <2>4, Starts, Zenon
<1>2. ASSUME NEW u, NEW hits, NEW e \in Emails, Work!AssignEmail(t, u, e, hits) PROVE WorkInv'
  <2>1. PICK q : q = [Work!Idle EXCEPT !.pc = "resolve", !.op = "assign", !.do = e, !.user = u, !.hits = hits]
    BY Zenon
  <2>2. /\ q = [pc |-> q.pc, op |-> q.op, id |-> q.id, user |-> q.user, to |-> q.to, hits |-> q.hits,
                case |-> q.case, channels |-> q.channels, file |-> q.file, do |-> q.do]
        /\ q.pc = "resolve" /\ q.do = e
    BY <2>1, Zenon DEF Work!Idle
  <2>3. Work!Start(t, q)
    BY <1>2, <2>1, Zenon DEF Work!AssignEmail
  <2>. QED BY <1>2, <2>2, <2>3, Starts, Zenon
<1>3. ASSUME NEW u, NEW op, NEW id, NEW e, NEW action, Work!SetLifecycle(t, u, op, id, e, action),
             op = "task_life" \/ (op = "email_life" /\ e \in Emails)
      PROVE  WorkInv'
  <2>1. PICK q : q = [Work!Idle EXCEPT !.pc = "write", !.op = op, !.id = id, !.do = e, !.user = u, !.file = action]
    BY Zenon
  <2>2. /\ q = [pc |-> q.pc, op |-> q.op, id |-> q.id, user |-> q.user, to |-> q.to, hits |-> q.hits,
                case |-> q.case, channels |-> q.channels, file |-> q.file, do |-> q.do]
        /\ q.pc = "write" /\ q.op = op /\ q.do = e
    BY <2>1, Zenon DEF Work!Idle
  <2>3. Work!Start(t, q)
    BY <1>3, <2>1, Zenon DEF Work!SetLifecycle
  <2>4. q.op \in {"assign", "email_life"} => q.do \in Emails
    BY <1>3, <2>2, Zenon
  <2>. QED BY <2>2, <2>3, <2>4, Starts, Zenon
<1>4. ASSUME NEW u, NEW s, Work!DecideSuggestion(t, u, s) PROVE WorkInv'
  <2>1. PICK q : q = [Work!Idle EXCEPT !.pc = "write", !.op = "decide", !.id = s, !.user = u]
    BY Zenon
  <2>2. /\ q = [pc |-> q.pc, op |-> q.op, id |-> q.id, user |-> q.user, to |-> q.to, hits |-> q.hits,
                case |-> q.case, channels |-> q.channels, file |-> q.file, do |-> q.do]
        /\ q.pc = "write" /\ q.op = "decide"
    BY <2>1, Zenon DEF Work!Idle
  <2>3. Work!Start(t, q)
    BY <1>4, <2>1, Zenon DEF Work!DecideSuggestion
  <2>. QED BY <2>2, <2>3, Starts, Zenon
<1>. QED BY <1>1, <1>2, <1>3, <1>4, Zenon

\* resolve_customer_case_id reads only.
LEMMA ResolveStep ==
  ASSUME WorkInv, NEW t \in Threads, Work!ResolveCase(t)
  PROVE  WorkInv'
<1>1. PICK r : r = thread[t]
  BY Zenon
<1>2. CallHolds(r)
  BY <1>1, Zenon DEF WorkInv, CallsHold
<1>3. UNCHANGED <<tasks, emails, suggestions, disk, attachments>>
  BY Zenon DEF Work!ResolveCase
<1>4. NothingLost /\ (CallsHold' => WorkInv')
  BY <1>3, OnlyCalls, Zenon
<1>5. ASSUME NEW q, thread' = [thread EXCEPT ![t] = q], CallHolds(q)' PROVE WorkInv'
  BY <1>4, <1>5, CallMoves, Zenon DEF WorkInv
<1>6. \/ \E c : thread' = [thread EXCEPT ![t].pc = "write", ![t].case = c]
      \/ thread' = [thread EXCEPT ![t].pc = "write"]
      \/ thread' = [thread EXCEPT ![t] = Work!Idle]
  BY Zenon DEF Work!ResolveCase, Work!Finish
<1>7. CASE thread' = [thread EXCEPT ![t] = Work!Idle]
  BY <1>4, <1>5, <1>7, CallsKept, Zenon
<1>8. ASSUME NEW c, thread' = [thread EXCEPT ![t].pc = "write", ![t].case = c] PROVE WorkInv'
  <2>1. PICK q : q = [r EXCEPT !.pc = "write", !.case = c]
    BY Zenon
  <2>2. thread' = [thread EXCEPT ![t] = q]
    BY <1>1, <1>8, <2>1, Zenon
  <2>3. /\ q = [pc |-> q.pc, op |-> q.op, id |-> q.id, user |-> q.user, to |-> q.to, hits |-> q.hits,
                case |-> q.case, channels |-> q.channels, file |-> q.file, do |-> q.do]
        /\ q.pc = "write" /\ q.op = r.op /\ q.do = r.do
    BY <1>2, <2>1, Zenon DEF CallHolds
  <2>4. CallHolds(q)'
    BY <1>2, <2>3, Zenon DEF CallHolds
  <2>. QED BY <1>5, <2>2, <2>4, Zenon
<1>9. CASE thread' = [thread EXCEPT ![t].pc = "write"]
  <2>1. PICK q : q = [r EXCEPT !.pc = "write"]
    BY Zenon
  <2>2. thread' = [thread EXCEPT ![t] = q]
    BY <1>1, <1>9, <2>1, Zenon
  <2>3. /\ q = [pc |-> q.pc, op |-> q.op, id |-> q.id, user |-> q.user, to |-> q.to, hits |-> q.hits,
                case |-> q.case, channels |-> q.channels, file |-> q.file, do |-> q.do]
        /\ q.pc = "write" /\ q.op = r.op /\ q.do = r.do
    BY <1>2, <2>1, Zenon DEF CallHolds
  <2>4. CallHolds(q)'
    BY <1>2, <2>3, Zenon DEF CallHolds
  <2>. QED BY <1>5, <2>2, <2>4, Zenon
<1>. QED BY <1>6, <1>7, <1>8, <1>9, Zenon

\* A statement on the tasks: a row is added, or one is rewritten.
LEMMA TaskAdded ==
  ASSUME TasksHold, NEW row, TaskRow(row), \A x \in row.reminders : x[1] \in row.to, tasks' = Append(tasks, row)
  PROVE  TasksHold' /\ DOMAIN tasks \subseteq DOMAIN tasks' /\ Len(tasks) + 1 \in DOMAIN tasks'
<1>1. PICK S : tasks \in Seq(S)
  BY Zenon DEF TasksHold
<1>2. tasks \in Seq(S \cup {row})
  BY <1>1
<1>3. /\ tasks' \in Seq(S \cup {row}) /\ DOMAIN tasks' = DOMAIN tasks \cup {Len(tasks) + 1}
      /\ tasks'[Len(tasks) + 1] = row
      /\ \A k \in DOMAIN tasks : tasks'[k] = tasks[k]
  BY <1>2
<1>4. \A k \in DOMAIN tasks' : TaskRow(tasks'[k])
  BY <1>3, Zenon DEF TasksHold
<1>5. Work!RemindersFollowAssignee'
  BY <1>3, Zenon DEF TasksHold, Work!RemindersFollowAssignee
<1>. QED BY <1>3, <1>4, <1>5, Zenon DEF TasksHold

\* A rewritten task row whose reminders go to its assignees.
LEMMA TaskRewritten ==
  ASSUME TasksHold, NEW row, TaskRow(row), \A x \in row.reminders : x[1] \in row.to,
         NEW k \in DOMAIN tasks, tasks' = [tasks EXCEPT ![k] = row]
  PROVE  TasksHold' /\ DOMAIN tasks' = DOMAIN tasks
<1>1. PICK S : tasks \in Seq(S)
  BY Zenon DEF TasksHold
<1>2. tasks \in Seq(S \cup {row})
  BY <1>1
<1>3. /\ tasks' \in Seq(S \cup {row}) /\ DOMAIN tasks' = DOMAIN tasks
      /\ tasks'[k] = row
      /\ \A j \in DOMAIN tasks : j # k => tasks'[j] = tasks[j]
  BY <1>2
<1>4. \A j \in DOMAIN tasks' : TaskRow(tasks'[j])
  BY <1>3, Zenon DEF TasksHold
<1>5. Work!RemindersFollowAssignee'
  BY <1>3, Zenon DEF TasksHold, Work!RemindersFollowAssignee
<1>. QED BY <1>3, <1>4, <1>5, Zenon DEF TasksHold

\* A step that writes tasks only.
LEMMA OnlyTasks ==
  ASSUME WorkInv, UNCHANGED <<emails, suggestions, disk, attachments>>, TasksHold',
         DOMAIN tasks \subseteq DOMAIN tasks'
  PROVE  NothingLost /\ (CallsHold' => WorkInv')
<1>1. NothingLost
  BY Zenon DEF NothingLost
<1>2. MailsHold'
  BY Zenon DEF WorkInv, MailsHold, Work!AcceptedSuggestionsAreLinked
<1>3. Work!AttachmentsHaveFiles'
  BY Zenon DEF WorkInv, Work!AttachmentsHaveFiles
<1>. QED BY <1>1, <1>2, <1>3, Zenon DEF WorkInv

\* What follows a task statement: the attachment, for a task that is there, or the answer.
LEMMA AfterTaskMoves ==
  ASSUME WorkInv, NothingLost, NEW t \in Threads, NEW k \in DOMAIN tasks', Work!AfterTask(t, k)
  PROVE  CallsHold'
<1>1. PICK r : r = thread[t]
  BY Zenon
<1>2. CallHolds(r)
  BY <1>1, Zenon DEF WorkInv, CallsHold
<1>3. PICK q : q = [r EXCEPT !.pc = "file", !.id = k]
  BY Zenon
<1>4. /\ q = [pc |-> q.pc, op |-> q.op, id |-> q.id, user |-> q.user, to |-> q.to, hits |-> q.hits,
              case |-> q.case, channels |-> q.channels, file |-> q.file, do |-> q.do]
      /\ q.pc = "file" /\ q.id = k /\ q.op = r.op /\ q.do = r.do
  BY <1>2, <1>3, Zenon DEF CallHolds
<1>5. CallHolds(q)'
  BY <1>2, <1>4, Zenon DEF CallHolds
<1>6. thread' = [thread EXCEPT ![t] = Work!Idle] \/ thread' = [thread EXCEPT ![t] = q]
  BY <1>1, <1>3, Zenon DEF Work!AfterTask
<1>. QED BY <1>5, <1>6, CallsKept, CallMoves, Zenon DEF WorkInv

\* The writes of the task handlers.
LEMMA TaskSteps ==
  ASSUME WorkInv, NEW t \in Threads
  PROVE  /\ Work!CreateTask(t) => WorkInv'
         /\ Work!UpdateTask(t) => WorkInv'
         /\ Work!SetTaskLifecycle(t) => WorkInv'
<1>1. PICK r : r = thread[t]
  BY Zenon
<1>2. TasksHold
  BY Zenon DEF WorkInv
<1>3. ASSUME Work!CreateTask(t) PROVE WorkInv'
  <2>1. PICK row : row = [case |-> r.case, by |-> r.user, to |-> {r.to}, reminders |-> {r.to} \X r.channels,
                          archived |-> FALSE, deleted |-> FALSE]
    BY Zenon
  <2>2. TaskRow(row) /\ row.reminders = {r.to} \X r.channels /\ row.to = {r.to}
    BY <2>1, Zenon DEF TaskRow
  <2>3. \A x \in row.reminders : x[1] \in row.to
    BY <2>2, Zenon
  <2>4. /\ tasks' = Append(tasks, row) /\ Work!AfterTask(t, Len(tasks) + 1)
        /\ UNCHANGED <<emails, suggestions, disk, attachments>>
    BY <1>1, <1>3, <2>1, Zenon DEF Work!CreateTask
  <2>5. TasksHold' /\ DOMAIN tasks \subseteq DOMAIN tasks' /\ Len(tasks) + 1 \in DOMAIN tasks'
    BY <1>2, <2>2, <2>3, <2>4, TaskAdded, Zenon
  <2>6. NothingLost /\ (CallsHold' => WorkInv')
    BY <2>4, <2>5, OnlyTasks, Zenon
  <2>. QED BY <2>4, <2>5, <2>6, AfterTaskMoves, Zenon
<1>4. ASSUME NEW row, NEW k \in DOMAIN tasks, TaskRow(row), \A x \in row.reminders : x[1] \in row.to,
             tasks' = [tasks EXCEPT ![k] = row], UNCHANGED <<emails, suggestions, disk, attachments>>
      PROVE  NothingLost /\ k \in DOMAIN tasks' /\ (CallsHold' => WorkInv')
  <2>1. TasksHold' /\ DOMAIN tasks' = DOMAIN tasks
    BY <1>2, <1>4, TaskRewritten, Zenon
  <2>. QED BY <1>4, <2>1, OnlyTasks, Zenon
<1>5. ASSUME Work!Finish(t), NothingLost, CallsHold' => WorkInv' PROVE WorkInv'
  BY <1>5, CallsKept, CallMoves, Zenon DEF WorkInv, Work!Finish
<1>6. ASSUME UNCHANGED <<tasks, emails, suggestions, disk, attachments>>, Work!Finish(t) PROVE WorkInv'
  BY <1>5, <1>6, OnlyCalls, Zenon
<1>7. ASSUME Work!UpdateTask(t) PROVE WorkInv'
  <2>1. CASE Work!TaskVisible(r.user, r.id)
    <3>1. r.id \in DOMAIN tasks
      BY <2>1, Zenon DEF Work!TaskVisible
    <3>2. PICK rem \in Work!RemindersAfter(tasks[r.id].reminders, {r.to} \X r.channels) :
             tasks' = [tasks EXCEPT ![r.id] = [@ EXCEPT !.case = r.case, !.to = {r.to}, !.reminders = rem]]
      BY <1>1, <1>7, <2>1, Zenon DEF Work!UpdateTask
    <3>3. PICK row : row = [tasks[r.id] EXCEPT !.case = r.case, !.to = {r.to}, !.reminders = rem]
      BY Zenon
    <3>4. TaskRow(tasks[r.id])
      BY <1>2, <3>1, Zenon DEF TasksHold
    <3>5. TaskRow(row) /\ row.reminders = rem /\ row.to = {r.to}
      BY <3>3, <3>4, Zenon DEF TaskRow
    <3>6. rem \subseteq {r.to} \X r.channels
      BY <3>2, Zenon DEF Work!RemindersAfter
    <3>7. \A x \in row.reminders : x[1] \in row.to
      BY <3>5, <3>6, Zenon
    <3>8. tasks' = [tasks EXCEPT ![r.id] = row]
      BY <3>2, <3>3, Zenon
    <3>9. Work!AfterTask(t, r.id) /\ UNCHANGED <<emails, suggestions, disk, attachments>>
      BY <1>1, <1>7, <2>1, Zenon DEF Work!UpdateTask
    <3>. QED BY <1>4, <3>1, <3>5, <3>7, <3>8, <3>9, AfterTaskMoves, Zenon
  <2>. QED BY <1>1, <1>6, <1>7, <2>1, Zenon DEF Work!UpdateTask
<1>8. ASSUME Work!SetTaskLifecycle(t) PROVE WorkInv'
  <2>1. CASE Work!TaskVisible(r.user, r.id)
    <3>1. r.id \in DOMAIN tasks
      BY <2>1, Zenon DEF Work!TaskVisible
    <3>2. tasks' = [tasks EXCEPT ![r.id] = IF r.file = 1 THEN [@ EXCEPT !.archived = TRUE] ELSE [@ EXCEPT !.deleted = TRUE]]
      BY <1>1, <1>8, <2>1, Zenon DEF Work!SetTaskLifecycle
    <3>3. PICK row : row = IF r.file = 1 THEN [tasks[r.id] EXCEPT !.archived = TRUE] ELSE [tasks[r.id] EXCEPT !.deleted = TRUE]
      BY Zenon
    <3>4. TaskRow(tasks[r.id]) /\ \A x \in tasks[r.id].reminders : x[1] \in tasks[r.id].to
      BY <1>2, <3>1, Zenon DEF TasksHold, Work!RemindersFollowAssignee
    <3>5. TaskRow(row) /\ row.reminders = tasks[r.id].reminders /\ row.to = tasks[r.id].to
      BY <3>3, <3>4, Zenon DEF TaskRow
    <3>6. \A x \in row.reminders : x[1] \in row.to
      BY <3>4, <3>5, Zenon
    <3>7. tasks' = [tasks EXCEPT ![r.id] = row]
      BY <3>2, <3>3, Zenon
    <3>8. Work!Finish(t) /\ UNCHANGED <<emails, suggestions, disk, attachments>>
      BY <1>8, Zenon DEF Work!SetTaskLifecycle
    <3>. QED BY <1>4, <1>5, <3>1, <3>5, <3>6, <3>7, <3>8, Zenon
  <2>. QED BY <1>1, <1>6, <1>8, <2>1, Zenon DEF Work!SetTaskLifecycle
<1>. QED BY <1>3, <1>7, <1>8, Zenon

\* save_task_attachment: the file, then the row.
LEMMA AttachmentSteps ==
  ASSUME WorkInv, NEW t \in Threads
  PROVE  /\ Work!WriteFile(t) => WorkInv'
         /\ Work!InsertAttachment(t) => WorkInv'
<1>1. PICK r : r = thread[t]
  BY Zenon
<1>2. CallHolds(r) /\ CallsHold
  BY <1>1, Zenon DEF WorkInv, CallsHold
<1>3. ASSUME UNCHANGED <<tasks, emails, suggestions>>, Work!AttachmentsHaveFiles', CallsHold' PROVE WorkInv'
  <2>1. TasksHold'
    BY <1>3, Zenon DEF WorkInv, TasksHold, Work!RemindersFollowAssignee
  <2>2. MailsHold'
    BY <1>3, Zenon DEF WorkInv, MailsHold, Work!AcceptedSuggestionsAreLinked
  <2>. QED BY <1>3, <2>1, <2>2, Zenon DEF WorkInv
<1>4. ASSUME Work!WriteFile(t) PROVE WorkInv'
  <2>1. /\ r.pc = "file" /\ disk' = disk \cup {r.file} /\ thread' = [thread EXCEPT ![t].pc = "row"]
        /\ UNCHANGED <<tasks, emails, suggestions, attachments>>
    BY <1>1, <1>4, Zenon DEF Work!WriteFile
  <2>2. PICK q : q = [r EXCEPT !.pc = "row"]
    BY Zenon
  <2>3. /\ q = [pc |-> q.pc, op |-> q.op, id |-> q.id, user |-> q.user, to |-> q.to, hits |-> q.hits,
                case |-> q.case, channels |-> q.channels, file |-> q.file, do |-> q.do]
        /\ q.pc = "row" /\ q.id = r.id /\ q.op = r.op /\ q.do = r.do /\ q.file = r.file
    BY <1>2, <2>2, Zenon DEF CallHolds
  <2>4. CallHolds(q)'
    BY <1>2, <2>1, <2>3, Zenon DEF CallHolds
  <2>5. thread' = [thread EXCEPT ![t] = q]
    BY <1>1, <2>1, <2>2, Zenon
  <2>6. NothingLost
    BY <2>1, Zenon DEF NothingLost
  <2>7. CallsHold'
    BY <1>2, <2>4, <2>5, <2>6, CallMoves, Zenon
  <2>8. Work!AttachmentsHaveFiles'
    BY <2>1, Zenon DEF WorkInv, Work!AttachmentsHaveFiles
  <2>. QED BY <1>3, <2>1, <2>7, <2>8, Zenon
<1>5. ASSUME Work!InsertAttachment(t) PROVE WorkInv'
  <2>1. /\ r.pc = "row" /\ attachments' = attachments \cup {[task |-> r.id, file |-> r.file]}
        /\ Work!Finish(t) /\ UNCHANGED <<tasks, emails, suggestions, disk>>
    BY <1>1, <1>5, Zenon DEF Work!InsertAttachment
  <2>2. r.id \in DOMAIN tasks /\ r.file \in disk
    BY <1>2, <2>1, Zenon DEF CallHolds
  <2>3. Work!AttachmentsHaveFiles'
    BY <2>1, <2>2 DEF WorkInv, Work!AttachmentsHaveFiles
  <2>4. NothingLost
    BY <2>1, Zenon DEF NothingLost
  <2>5. CallsHold'
    BY <1>2, <2>1, <2>4, CallsKept, CallMoves, Zenon DEF Work!Finish
  <2>. QED BY <1>3, <2>1, <2>3, <2>5, Zenon
<1>. QED BY <1>4, <1>5, Zenon

\* An assignment decides the pending suggestions of its e-mail and links what it accepts.
LEMMA MailAssigned ==
  ASSUME MailsHold, NEW e \in Emails, NEW u, NEW target, NEW accepted,
         emails' = [emails EXCEPT ![e].user = u, ![e].links = @ \cup target],
         suggestions' = Work!Decided(e, accepted),
         \A s \in DOMAIN suggestions : s \in accepted /\ suggestions[s].case # 0 => suggestions[s].case \in target
  PROVE  MailsHold'
<1>1. PICK row : row = [emails[e] EXCEPT !.user = u, !.links = emails[e].links \cup target]
  BY Zenon
<1>2. EmailRow(emails[e]) /\ emails = [x \in Emails |-> emails[x]]
  BY Zenon DEF MailsHold
<1>3. EmailRow(row) /\ row.links = emails[e].links \cup target
  BY <1>1, <1>2, Zenon DEF EmailRow
<1>4. emails' = [emails EXCEPT ![e] = row]
  BY <1>1, Zenon
<1>5. /\ emails' = [x \in Emails |-> emails'[x]] /\ emails'[e] = row
      /\ \A x \in Emails : x # e => emails'[x] = emails[x]
  BY <1>2, <1>4, Zenon
<1>6. \A x \in Emails : EmailRow(emails'[x]) /\ emails[x].links \subseteq emails'[x].links
  BY <1>3, <1>5, Zenon DEF MailsHold
<1>7. PICK S : suggestions \in Seq(S)
  BY Zenon DEF MailsHold
<1>8. DOMAIN suggestions' = DOMAIN suggestions /\ suggestions' = [s \in DOMAIN suggestions |-> suggestions'[s]]
  BY Zenon DEF Work!Decided
<1>9. ASSUME NEW s \in DOMAIN suggestions
      PROVE  /\ SuggestionRow(suggestions'[s])
             /\ suggestions'[s].status = "accepted" /\ suggestions'[s].case # 0
                  => suggestions'[s].case \in emails'[suggestions'[s].email].links
  <2>1. PICK v : v = suggestions[s]
    BY Zenon
  <2>2. SuggestionRow(v) /\ v.email \in Emails
    BY <2>1, Zenon DEF MailsHold, SuggestionRow
  <2>3. v.status = "accepted" /\ v.case # 0 => v.case \in emails[v.email].links
    BY <2>1, Zenon DEF MailsHold, Work!AcceptedSuggestionsAreLinked
  <2>4. CASE v.email # e \/ v.status # "pending"
    <3>1. suggestions'[s] = v
      BY <2>1, <2>4, Zenon DEF Work!Decided
    <3>. QED BY <1>6, <2>2, <2>3, <3>1, Zenon
  <2>5. CASE v.email = e /\ v.status = "pending"
    <3>1. PICK status : status = IF s \in accepted THEN "accepted" ELSE "rejected"
      BY Zenon
    <3>2. suggestions'[s] = [v EXCEPT !.status = status]
      BY <2>1, <2>5, <3>1, Zenon DEF Work!Decided
    <3>3. /\ SuggestionRow(suggestions'[s]) /\ suggestions'[s].email = e /\ suggestions'[s].case = v.case
          /\ suggestions'[s].status = status
      BY <2>2, <2>5, <3>2, Zenon DEF SuggestionRow
    <3>4. status = "accepted" => s \in accepted
      BY <3>1, Zenon
    <3>5. s \in accepted /\ v.case # 0 => v.case \in emails'[e].links
      <4>1. s \in accepted /\ v.case # 0 => v.case \in target
        BY <2>1, Zenon
      <4>. QED BY <1>3, <1>5, <4>1, Zenon
    <3>. QED BY <3>3, <3>4, <3>5, Zenon
  <2>. QED BY <2>4, <2>5, Zenon
<1>10. suggestions' \in Seq({suggestions'[s] : s \in DOMAIN suggestions})
  <2>1. DOMAIN suggestions = 1..Len(suggestions) /\ Len(suggestions) \in Nat
    BY <1>7
  <2>. QED BY <1>8, <2>1
<1>. QED BY <1>5, <1>6, <1>8, <1>9, <1>10, Zenon DEF MailsHold, Work!AcceptedSuggestionsAreLinked

\* A step that writes e-mails and suggestions only, and answers.
LEMMA OnlyMails ==
  ASSUME WorkInv, UNCHANGED <<tasks, disk, attachments>>, MailsHold', CallsHold'
  PROVE  WorkInv'
<1>1. TasksHold'
  BY Zenon DEF WorkInv, TasksHold, Work!RemindersFollowAssignee
<1>2. Work!AttachmentsHaveFiles'
  BY Zenon DEF WorkInv, Work!AttachmentsHaveFiles
<1>. QED BY <1>1, <1>2, Zenon DEF WorkInv

\* The writes of the e-mail handlers.
LEMMA EmailSteps ==
  ASSUME WorkInv, NEW t \in Threads
  PROVE  /\ Work!WriteAssignment(t) => WorkInv'
         /\ Work!DecideEmailSuggestion(t) => WorkInv'
         /\ Work!SetEmailLifecycle(t) => WorkInv'
<1>1. PICK r : r = thread[t]
  BY Zenon
<1>2. CallHolds(r) /\ CallsHold /\ MailsHold
  BY <1>1, Zenon DEF WorkInv, CallsHold
<1>3. ASSUME UNCHANGED <<tasks, disk, attachments>>, Work!Finish(t), MailsHold' PROVE WorkInv'
  <2>1. NothingLost
    BY <1>3, Zenon DEF NothingLost
  <2>2. CallsHold'
    BY <1>2, <1>3, <2>1, CallsKept, CallMoves, Zenon DEF Work!Finish
  <2>. QED BY <1>3, <2>2, OnlyMails, Zenon
<1>4. ASSUME UNCHANGED <<emails, suggestions>> PROVE MailsHold'
  BY <1>2, <1>4, Zenon DEF MailsHold, Work!AcceptedSuggestionsAreLinked
<1>5. ASSUME Work!WriteAssignment(t) PROVE WorkInv'
  <2>1. UNCHANGED <<tasks, disk, attachments>> /\ Work!Finish(t) /\ r.op = "assign"
    BY <1>1, <1>5, Zenon DEF Work!WriteAssignment
  <2>2. r.do \in Emails
    BY <1>2, <2>1, Zenon DEF CallHolds
  <2>3. PICK target : target = {c \in {r.case} : Work!CaseVisible(r.user, c)}
    BY Zenon
  <2>4. \/ UNCHANGED <<emails, suggestions>>
        \/ /\ emails' = [emails EXCEPT ![r.do].user = r.user, ![r.do].links = @ \cup target]
           /\ suggestions' = Work!Decided(r.do, {s \in DOMAIN suggestions : suggestions[s].case \in target})
    BY <1>1, <1>5, <2>3, Zenon DEF Work!WriteAssignment
  <2>5. ASSUME emails' = [emails EXCEPT ![r.do].user = r.user, ![r.do].links = @ \cup target],
               suggestions' = Work!Decided(r.do, {s \in DOMAIN suggestions : suggestions[s].case \in target})
        PROVE  MailsHold'
    <3>1. PICK accepted : accepted = {s \in DOMAIN suggestions : suggestions[s].case \in target}
      BY Zenon
    <3>2. \A s \in DOMAIN suggestions : s \in accepted /\ suggestions[s].case # 0 => suggestions[s].case \in target
      BY <3>1, Zenon
    <3>3. suggestions' = Work!Decided(r.do, accepted)
      BY <2>5, <3>1, Zenon
    <3>. QED BY <1>2, <2>2, <2>5, <3>2, <3>3, MailAssigned, Zenon
  <2>. QED BY <1>3, <1>4, <2>1, <2>4, <2>5, Zenon
<1>6. ASSUME Work!DecideEmailSuggestion(t) PROVE WorkInv'
  <2>1. UNCHANGED <<tasks, disk, attachments>> /\ Work!Finish(t)
    BY <1>1, <1>6, Zenon DEF Work!DecideEmailSuggestion
  <2>2. PICK named : named = {suggestions[r.id].case} \ {0}
    BY Zenon
  <2>3. \/ UNCHANGED <<emails, suggestions>>
        \/ /\ r.id \in DOMAIN suggestions
           /\ emails' = [emails EXCEPT ![suggestions[r.id].email].user = r.user, ![suggestions[r.id].email].links = @ \cup named]
           /\ suggestions' = Work!Decided(suggestions[r.id].email, {r.id})
    BY <1>1, <1>6, <2>2, Zenon DEF Work!DecideEmailSuggestion
  <2>4. ASSUME r.id \in DOMAIN suggestions,
               emails' = [emails EXCEPT ![suggestions[r.id].email].user = r.user, ![suggestions[r.id].email].links = @ \cup named],
               suggestions' = Work!Decided(suggestions[r.id].email, {r.id})
        PROVE  MailsHold'
    <3>1. PICK e : e = suggestions[r.id].email
      BY Zenon
    <3>2. e \in Emails
      BY <1>2, <2>4, <3>1, Zenon DEF MailsHold, SuggestionRow
    <3>3. \A s \in DOMAIN suggestions : s \in {r.id} /\ suggestions[s].case # 0 => suggestions[s].case \in named
      BY <2>2, Zenon
    <3>4. /\ emails' = [emails EXCEPT ![e].user = r.user, ![e].links = @ \cup named]
          /\ suggestions' = Work!Decided(e, {r.id})
      BY <2>4, <3>1, Zenon
    <3>. QED BY <1>2, <3>2, <3>3, <3>4, MailAssigned, Zenon
  <2>. QED BY <1>3, <1>4, <2>1, <2>3, <2>4, Zenon
<1>7. ASSUME Work!SetEmailLifecycle(t) PROVE WorkInv'
  <2>1. UNCHANGED <<tasks, disk, attachments>> /\ Work!Finish(t) /\ r.op = "email_life" /\ suggestions' = suggestions
    BY <1>1, <1>7, Zenon DEF Work!SetEmailLifecycle
  <2>2. r.do \in Emails
    BY <1>2, <2>1, Zenon DEF CallHolds
  <2>3. \/ UNCHANGED emails
        \/ emails' = [emails EXCEPT ![r.do] = IF r.file = 1 THEN [@ EXCEPT !.archived = TRUE] ELSE [@ EXCEPT !.deleted = TRUE]]
    BY <1>1, <1>7, Zenon DEF Work!SetEmailLifecycle
  <2>4. ASSUME emails' = [emails EXCEPT ![r.do] = IF r.file = 1 THEN [@ EXCEPT !.archived = TRUE] ELSE [@ EXCEPT !.deleted = TRUE]]
        PROVE  MailsHold'
    <3>1. PICK row : row = IF r.file = 1 THEN [emails[r.do] EXCEPT !.archived = TRUE] ELSE [emails[r.do] EXCEPT !.deleted = TRUE]
      BY Zenon
    <3>2. EmailRow(emails[r.do]) /\ emails = [x \in Emails |-> emails[x]]
      BY <1>2, <2>2, Zenon DEF MailsHold
    <3>3. EmailRow(row) /\ row.links = emails[r.do].links
      BY <3>1, <3>2, Zenon DEF EmailRow
    <3>4. emails' = [emails EXCEPT ![r.do] = row]
      BY <2>4, <3>1, Zenon
    <3>5. /\ emails' = [x \in Emails |-> emails'[x]] /\ emails'[r.do] = row
          /\ \A x \in Emails : x # r.do => emails'[x] = emails[x]
      BY <2>2, <3>2, <3>4, Zenon
    <3>6. \A x \in Emails : EmailRow(emails'[x]) /\ emails'[x].links = emails[x].links
      BY <1>2, <3>3, <3>5, Zenon DEF MailsHold
    <3>7. Work!AcceptedSuggestionsAreLinked'
      BY <1>2, <2>1, <3>6, Zenon DEF MailsHold, SuggestionRow, Work!AcceptedSuggestionsAreLinked
    <3>. QED BY <1>2, <2>1, <3>5, <3>6, <3>7, Zenon DEF MailsHold
  <2>. QED BY <1>3, <1>4, <2>1, <2>3, <2>4, Zenon
<1>. QED BY <1>5, <1>6, <1>7, Zenon

\* A suggestion arrives, the server dies.
LEMMA OtherSteps ==
  ASSUME WorkInv
  PROVE  /\ \A e \in Emails : \A c : Work!Suggest(e, c) => WorkInv'
         /\ Work!Crash => WorkInv'
         /\ UNCHANGED Work!vars => WorkInv'
<1>1. ASSUME NEW e \in Emails, NEW c, Work!Suggest(e, c) PROVE WorkInv'
  <2>1. PICK row : row = [email |-> e, case |-> c, status |-> "pending"]
    BY Zenon
  <2>2. SuggestionRow(row) /\ row.status # "accepted"
    BY <2>1, Zenon DEF SuggestionRow
  <2>3. suggestions' = Append(suggestions, row) /\ UNCHANGED <<tasks, emails, disk, attachments, thread>>
    BY <1>1, <2>1, Zenon DEF Work!Suggest
  <2>4. PICK S : suggestions \in Seq(S)
    BY Zenon DEF WorkInv, MailsHold
  <2>5. suggestions \in Seq(S \cup {row})
    BY <2>4
  <2>6. /\ suggestions' \in Seq(S \cup {row}) /\ DOMAIN suggestions' = DOMAIN suggestions \cup {Len(suggestions) + 1}
        /\ suggestions'[Len(suggestions) + 1] = row
        /\ \A s \in DOMAIN suggestions : suggestions'[s] = suggestions[s]
    BY <2>3, <2>5
  <2>7. Work!AcceptedSuggestionsAreLinked'
    BY <2>2, <2>3, <2>6, Zenon DEF WorkInv, MailsHold, Work!AcceptedSuggestionsAreLinked
  <2>8. \A s \in DOMAIN suggestions' : SuggestionRow(suggestions'[s])
    BY <2>2, <2>6, Zenon DEF WorkInv, MailsHold
  <2>9. MailsHold'
    BY <2>3, <2>6, <2>7, <2>8, Zenon DEF WorkInv, MailsHold
  <2>10. CallsHold'
    BY <2>3, Zenon DEF WorkInv, CallsHold, CallHolds
  <2>. QED BY <2>3, <2>9, <2>10, OnlyMails, Zenon
<1>2. ASSUME Work!Crash PROVE WorkInv'
  <2>1. thread' = [t \in Threads |-> Work!Idle] /\ UNCHANGED <<tasks, emails, suggestions, disk, attachments>>
    BY <1>2, Zenon DEF Work!Crash
  <2>2. NothingLost /\ (CallsHold' => WorkInv')
    BY <2>1, OnlyCalls, Zenon
  <2>3. CallHolds(Work!Idle)'
    BY <2>2, CallsKept, Zenon
  <2>4. \A t \in Threads : thread'[t] = Work!Idle
    BY <2>1, Zenon
  <2>5. \A t \in Threads : CallHolds(thread[t])'
    BY <2>3, <2>4, Zenon DEF CallHolds
  <2>6. thread' = [t \in Threads |-> thread'[t]]
    BY <2>1, Zenon
  <2>. QED BY <2>2, <2>5, <2>6, Zenon DEF CallsHold
<1>3. ASSUME UNCHANGED Work!vars PROVE WorkInv'
  <2>1. UNCHANGED <<tasks, emails, suggestions, disk, attachments, thread>>
    BY <1>3, Zenon DEF Work!vars
  <2>2. CallsHold'
    BY <2>1, Zenon DEF WorkInv, CallsHold, CallHolds
  <2>. QED BY <2>1, <2>2, OnlyCalls, Zenon
<1>. QED BY <1>1, <1>2, <1>3, Zenon

\* Every step of the desk keeps the invariant.
LEMMA WorkStep == WorkInv /\ [WorkNext]_(Work!vars) => WorkInv'
<1>. SUFFICES ASSUME WorkInv, [WorkNext]_(Work!vars) PROVE WorkInv'
  BY Zenon
<1>1. CASE Work!TaskNext
  <2>1. \A t \in Threads : \A u, k, e, action : Work!SetLifecycle(t, u, "task_life", k, e, action) => WorkInv'
    BY CallStarts, Zenon
  <2>2. \A t \in Threads : \A u, k, to, hits, ch, attach : Work!SaveTask(t, u, k, to, hits, ch, attach) => WorkInv'
    BY CallStarts, Zenon
  <2>. QED
    BY <1>1, <2>1, <2>2, ResolveStep, TaskSteps, AttachmentSteps, OtherSteps, Zenon DEF Work!TaskNext
<1>2. CASE Work!EmailNext
  BY <1>2, CallStarts, ResolveStep, TaskSteps, EmailSteps, OtherSteps, Zenon DEF Work!EmailNext
<1>. QED BY <1>1, <1>2, OtherSteps, Zenon DEF WorkNext

\* It holds at the start.
LEMMA WorkInit == Work!Init => WorkInv
<1>. SUFFICES ASSUME Work!Init PROVE WorkInv
  BY Zenon
<1>1. /\ tasks = <<>> /\ suggestions = <<>> /\ attachments = {} /\ thread = [t \in Threads |-> Work!Idle]
      /\ emails = [e \in Emails |-> Work!FreshEmail]
  BY Zenon DEF Work!Init
<1>2. PICK r : r = Work!Idle
  BY Zenon
<1>3. /\ r = [pc |-> r.pc, op |-> r.op, id |-> r.id, user |-> r.user, to |-> r.to, hits |-> r.hits,
              case |-> r.case, channels |-> r.channels, file |-> r.file, do |-> r.do]
      /\ r.pc = "idle" /\ r.op = "none"
  BY <1>2, Zenon DEF Work!Idle
<1>4. CallHolds(r)
  BY <1>3, Zenon DEF CallHolds
<1>5. CallsHold
  BY <1>1, <1>2, <1>4, Zenon DEF CallsHold
<1>6. EmailRow(Work!FreshEmail)
  BY Zenon DEF EmailRow, Work!FreshEmail
<1>7. MailsHold
  <2>1. emails = [e \in Emails |-> emails[e]] /\ \A e \in Emails : EmailRow(emails[e])
    BY <1>1, <1>6, Zenon
  <2>2. DOMAIN suggestions = {} /\ \E S : suggestions \in Seq(S)
    BY <1>1
  <2>. QED BY <2>1, <2>2, Zenon DEF MailsHold, Work!AcceptedSuggestionsAreLinked
<1>8. TasksHold
  <2>1. DOMAIN tasks = {} /\ \E S : tasks \in Seq(S)
    BY <1>1
  <2>. QED BY <2>1, Zenon DEF TasksHold, Work!RemindersFollowAssignee
<1>. QED BY <1>1, <1>5, <1>7, <1>8, Zenon DEF WorkInv, Work!AttachmentsHaveFiles

\* Whoever is reminded of a task is assigned to it, in either order of update_task's sub-statements.
THEOREM RemindersReachAssignees ==
  /\ Work!TaskSpec => []Work!RemindersFollowAssignee
  /\ Work!EmailSpec => []Work!RemindersFollowAssignee
<1>1. [Work!TaskNext]_(Work!vars) => [WorkNext]_(Work!vars)
  BY Zenon DEF WorkNext
<1>2. [Work!EmailNext]_(Work!vars) => [WorkNext]_(Work!vars)
  BY Zenon DEF WorkNext
<1>3. WorkInv => Work!RemindersFollowAssignee
  BY Zenon DEF WorkInv, TasksHold
<1>. QED BY <1>1, <1>2, <1>3, WorkInit, WorkStep, PTL DEF Work!TaskSpec, Work!EmailSpec

\* An attachment row names a file that is on disk and a task that exists, wherever the server dies:
\* save_task_attachment writes the file first.
THEOREM AttachmentsAreBacked ==
  /\ Work!TaskSpec => []Work!AttachmentsHaveFiles
  /\ Work!EmailSpec => []Work!AttachmentsHaveFiles
<1>1. [Work!TaskNext]_(Work!vars) => [WorkNext]_(Work!vars)
  BY Zenon DEF WorkNext
<1>2. [Work!EmailNext]_(Work!vars) => [WorkNext]_(Work!vars)
  BY Zenon DEF WorkNext
<1>3. WorkInv => Work!AttachmentsHaveFiles
  BY Zenon DEF WorkInv
<1>. QED BY <1>1, <1>2, <1>3, WorkInit, WorkStep, PTL DEF Work!TaskSpec, Work!EmailSpec

\* An accepted suggestion is backed by the link it proposed, however assign_email and
\* decide_email_suggestion interleave.
THEOREM AcceptedSuggestionsAreBacked ==
  /\ Work!TaskSpec => []Work!AcceptedSuggestionsAreLinked
  /\ Work!EmailSpec => []Work!AcceptedSuggestionsAreLinked
<1>1. [Work!TaskNext]_(Work!vars) => [WorkNext]_(Work!vars)
  BY Zenon DEF WorkNext
<1>2. [Work!EmailNext]_(Work!vars) => [WorkNext]_(Work!vars)
  BY Zenon DEF WorkNext
<1>3. WorkInv => Work!AcceptedSuggestionsAreLinked
  BY Zenon DEF WorkInv, MailsHold
<1>. QED BY <1>1, <1>2, <1>3, WorkInit, WorkStep, PTL DEF Work!TaskSpec, Work!EmailSpec

-----------------------------------------------------------------------------
(* Customers and cases.                                                    *)

CONSTANTS Forms, Blank, CaseStatuses, AskedStatuses, MaxRows, MatchLimit

VARIABLES customers, cases, filed, leads, scope, reply

Desk == INSTANCE CaseDesk

CaseType(k) ==
    k = [customer |-> k.customer, owner |-> k.owner, responsible |-> k.responsible, status |-> k.status,
         stamp |-> k.stamp]

DeskInv ==
    /\ thread = [t \in Threads |-> thread[t]]
    /\ \E S : customers \in Seq(S)
    /\ \E S : cases \in Seq(S)
    /\ \A k \in DOMAIN cases : CaseType(cases[k])
    /\ Desk!PhonesAreUnique

DeskNext == Desk!CustomerNext \/ Desk!CaseNext

\* What a step does to the tables: nothing, a write of save_customer, or a write of a case handler.
TablesStay == customers' = customers /\ cases' = cases /\ filed' = filed /\ leads' = leads /\ events' = events
Writes(t) ==
    \/ Desk!WriteCustomer(t) \/ Desk!WriteNewCase(t) \/ Desk!WriteCase(t)
    \/ Desk!WriteArchiveState(t) \/ Desk!WriteFiled(t) \/ Desk!WriteLead(t)

ThreadStays == thread = [t \in Threads |-> thread[t]] => thread' = [t \in Threads |-> thread'[t]]

\* Starting a request, the duplicate queries, delegations and a crash write no table.
LEMMA DeskSteps ==
  ASSUME [DeskNext]_(Desk!vars)
  PROVE  (TablesStay /\ ThreadStays) \/ \E t \in Threads : Writes(t)
<1>1. ASSUME NEW t, NEW u, NEW r, Desk!Start(t, u, r) PROVE TablesStay /\ ThreadStays
  <2>1. TablesStay
    BY <1>1, Zenon DEF Desk!Start, TablesStay
  <2>2. PICK q : thread' = [thread EXCEPT ![t] = q]
    BY <1>1, Zenon DEF Desk!Start
  <2>3. ThreadStays
    BY <2>2, Zenon DEF ThreadStays
  <2>. QED BY <2>1, <2>3, Zenon
<1>2. ASSUME NEW t, Desk!CheckEmail(t) \/ Desk!CheckOthers(t) PROVE TablesStay /\ ThreadStays
  <2>1. TablesStay
    BY <1>2, Zenon DEF Desk!CheckEmail, Desk!CheckOthers, TablesStay
  <2>2. \E q : thread' = [thread EXCEPT ![t] = q]
    <3>1. CASE Desk!CheckEmail(t)
      <4>1. \/ thread' = [thread EXCEPT ![t] = Desk!Idle]
            \/ thread' = [thread EXCEPT ![t].pc = "all", ![t].seen = DOMAIN customers]
        BY <3>1, Zenon DEF Desk!CheckEmail, Desk!Answer
      <4>2. CASE thread' = [thread EXCEPT ![t].pc = "all", ![t].seen = DOMAIN customers]
        <5>1. PICK q : q = [thread[t] EXCEPT !.pc = "all", !.seen = DOMAIN customers]
          BY Zenon
        <5>2. thread' = [thread EXCEPT ![t] = q]
          BY <4>2, <5>1, Zenon
        <5>. QED BY <5>2, Zenon
      <4>. QED BY <4>1, <4>2, Zenon
    <3>2. CASE Desk!CheckOthers(t)
      BY <3>2, Zenon DEF Desk!CheckOthers, Desk!Answer, Desk!Proceed
    <3>. QED BY <1>2, <3>1, <3>2, Zenon
  <2>3. ThreadStays
    BY <2>2, Zenon DEF ThreadStays
  <2>. QED BY <2>1, <2>3, Zenon
<1>3. ASSUME Desk!Crash PROVE TablesStay /\ ThreadStays
  BY <1>3, Zenon DEF Desk!Crash, TablesStay, ThreadStays
<1>4. ASSUME NEW u, NEW d, Desk!Delegate(u, d) PROVE TablesStay /\ ThreadStays
  BY <1>4, Zenon DEF Desk!Delegate, TablesStay, ThreadStays
<1>5. CASE UNCHANGED Desk!vars
  BY <1>5, Zenon DEF Desk!vars, TablesStay, ThreadStays
<1>6. ASSUME NEW t \in Threads, Desk!CustomerStep(t) \/ Desk!CaseStep(t)
      PROVE  (TablesStay /\ ThreadStays) \/ Writes(t)
  BY <1>2, <1>6, Zenon DEF Desk!CustomerStep, Desk!CaseStep, Writes
<1>7. CASE Desk!CustomerNext
  BY <1>1, <1>3, <1>6, <1>7, Zenon DEF Desk!CustomerNext, Desk!SaveCustomer
<1>8. CASE Desk!CaseNext
  BY <1>1, <1>4, <1>6, <1>8, Zenon
  DEF Desk!CaseNext, Desk!SaveCustomer, Desk!CreateCase, Desk!SaveCase, Desk!SetCaseArchiveState,
      Desk!SaveSection, Desk!SaveLead
<1>. QED BY <1>5, <1>7, <1>8, Zenon DEF DeskNext

\* The unique index on the number is what keeps customers apart: the duplicate queries may be stale.
LEMMA CustomersStay ==
  ASSUME DeskInv, NEW t \in Threads, Writes(t)
  PROVE  (\E S : customers' \in Seq(S)) /\ Desk!PhonesAreUnique'
<1>1. CASE UNCHANGED customers
  BY <1>1, Zenon DEF DeskInv, Desk!PhonesAreUnique
<1>2. PICK S : customers \in Seq(S)
  BY Zenon DEF DeskInv
<1>3. PICK r : r = thread[t]
  BY Zenon
<1>4. ASSUME NEW row, customers' = Append(customers, row), row.phone # Blank => \A c \in DOMAIN customers : customers[c].phone # row.phone
      PROVE  (\E Q : customers' \in Seq(Q)) /\ Desk!PhonesAreUnique'
  <2>1. customers \in Seq(S \cup {row})
    BY <1>2
  <2>2. customers' \in Seq(S \cup {row})
    BY <1>4, <2>1
  <2>3. /\ DOMAIN customers' = DOMAIN customers \cup {Len(customers) + 1}
        /\ customers'[Len(customers) + 1] = row
        /\ \A c \in DOMAIN customers : customers'[c] = customers[c]
    BY <1>4, <2>1
  <2>4. Desk!PhonesAreUnique'
    <3>1. \A c, d \in DOMAIN customers : c # d /\ customers[c].phone # Blank => customers[c].phone # customers[d].phone
      BY Zenon DEF DeskInv, Desk!PhonesAreUnique
    <3>2. ASSUME NEW c \in DOMAIN customers', NEW d \in DOMAIN customers', c # d, customers'[c].phone # Blank
          PROVE  customers'[c].phone # customers'[d].phone
      BY <1>4, <2>3, <3>1, <3>2
    <3>. QED BY <3>2, Zenon DEF Desk!PhonesAreUnique
  <2>. QED BY <2>2, <2>4, Zenon
<1>5. ASSUME NEW k \in DOMAIN customers, NEW row, customers' = [customers EXCEPT ![k] = row],
             row.phone # Blank => \A c \in DOMAIN customers \ {k} : customers[c].phone # row.phone
      PROVE  (\E Q : customers' \in Seq(Q)) /\ Desk!PhonesAreUnique'
  <2>1. customers \in Seq(S \cup {row})
    BY <1>2
  <2>2. customers' \in Seq(S \cup {row})
    BY <1>5, <2>1
  <2>3. /\ DOMAIN customers' = DOMAIN customers
        /\ customers'[k] = row
        /\ \A c \in DOMAIN customers : c # k => customers'[c] = customers[c]
    BY <1>5, <2>1, Zenon
  <2>4. Desk!PhonesAreUnique'
    <3>1. \A c, d \in DOMAIN customers : c # d /\ customers[c].phone # Blank => customers[c].phone # customers[d].phone
      BY Zenon DEF DeskInv, Desk!PhonesAreUnique
    <3>2. ASSUME NEW c \in DOMAIN customers', NEW d \in DOMAIN customers', c # d, customers'[c].phone # Blank
          PROVE  customers'[c].phone # customers'[d].phone
      BY <1>5, <2>3, <3>1, <3>2, Zenon
    <3>. QED BY <3>2, Zenon DEF Desk!PhonesAreUnique
  <2>. QED BY <2>2, <2>4, Zenon
<1>6. CASE Desk!WriteCustomer(t)
  <2>1. ASSUME ~Desk!BreaksPhoneKey(r), NEW row, row.phone = r.form.phone
        PROVE  row.phone # Blank => \A c \in DOMAIN customers \ {r.id} : customers[c].phone # row.phone
    BY <2>1, Zenon DEF Desk!BreaksPhoneKey, Desk!PhoneMatch
  <2>2. PICK new : new = Desk!CustomerRow(r)
    BY Zenon
  <2>3. PICK edited : edited = Desk!EditedRow(r)
    BY Zenon
  <2>4. new.phone = r.form.phone /\ edited.phone = r.form.phone
    BY <2>2, <2>3, Zenon DEF Desk!CustomerRow, Desk!EditedRow
  <2>5. \/ UNCHANGED customers
        \/ r.id = 0 /\ ~Desk!BreaksPhoneKey(r) /\ customers' = Append(customers, new)
        \/ r.id \in DOMAIN customers /\ ~Desk!BreaksPhoneKey(r) /\ customers' = [customers EXCEPT ![r.id] = edited]
    BY <1>3, <1>6, <2>2, <2>3, Zenon DEF Desk!WriteCustomer
  <2>6. 0 \notin DOMAIN customers
    BY <1>2
  <2>7. CASE r.id = 0 /\ ~Desk!BreaksPhoneKey(r) /\ customers' = Append(customers, new)
    <3>1. DOMAIN customers \ {r.id} = DOMAIN customers
      BY <2>6, <2>7, Zenon
    <3>. QED BY <1>4, <2>1, <2>4, <2>7, <3>1, Zenon
  <2>. QED BY <1>1, <1>5, <2>1, <2>4, <2>5, <2>7, Zenon
<1>7. Desk!WriteCustomer(t) \/ UNCHANGED customers
  BY Zenon DEF Writes, Desk!WriteNewCase, Desk!WriteCase, Desk!WriteArchiveState, Desk!WriteFiled,
     Desk!WriteLead
<1>. QED BY <1>1, <1>6, <1>7, Zenon

\* No handler rewrites a case beyond its responsible user, its status and its stamp.
CasesStay ==
    /\ \E S : cases' \in Seq(S)
    /\ DOMAIN cases \subseteq DOMAIN cases'
    /\ \A k \in DOMAIN cases' : CaseType(cases'[k])
    /\ \A k \in DOMAIN cases : cases'[k].owner = cases[k].owner

\* Every write of a handler is of this kind.
LEMMA CasesKept ==
  ASSUME DeskInv, NEW t \in Threads, Writes(t)
  PROVE  CasesStay
<1>1. PICK S : cases \in Seq(S)
  BY Zenon DEF DeskInv
<1>2. CASE UNCHANGED cases
  BY <1>1, <1>2, Zenon DEF DeskInv, CasesStay
<1>3. ASSUME NEW row, CaseType(row), cases' = Append(cases, row) PROVE CasesStay
  <2>1. cases \in Seq(S \cup {row})
    BY <1>1
  <2>2. cases' \in Seq(S \cup {row})
    BY <1>3, <2>1
  <2>3. /\ DOMAIN cases' = DOMAIN cases \cup {Len(cases) + 1}
        /\ cases'[Len(cases) + 1] = row
        /\ \A c \in DOMAIN cases : cases'[c] = cases[c]
    BY <1>3, <2>1
  <2>4. \A k \in DOMAIN cases' : CaseType(cases'[k])
    BY <1>3, <2>3, Zenon DEF DeskInv
  <2>. QED BY <2>2, <2>3, <2>4, Zenon DEF CasesStay
<1>4. ASSUME NEW k \in DOMAIN cases, NEW row, CaseType(row), row.owner = cases[k].owner,
             cases' = [cases EXCEPT ![k] = row]
      PROVE  CasesStay
  <2>1. cases \in Seq(S \cup {row})
    BY <1>1
  <2>2. cases' \in Seq(S \cup {row})
    BY <1>4, <2>1
  <2>3. /\ DOMAIN cases' = DOMAIN cases
        /\ cases'[k] = row
        /\ \A c \in DOMAIN cases : c # k => cases'[c] = cases[c]
    BY <1>4, <2>1, Zenon
  <2>4. \A c \in DOMAIN cases' : CaseType(cases'[c])
    BY <1>4, <2>3, Zenon DEF DeskInv
  <2>5. \A c \in DOMAIN cases : cases'[c].owner = cases[c].owner
    BY <1>4, <2>3, Zenon
  <2>. QED BY <2>2, <2>3, <2>4, <2>5, Zenon DEF CasesStay
<1>5. \A r, c : CaseType(Desk!NewCase(r, c))
  BY Zenon DEF Desk!NewCase, CaseType
<1>6. PICK r : r = thread[t]
  BY Zenon
<1>7. CASE Desk!WriteCustomer(t)
  <2>1. UNCHANGED cases \/ \E c : cases' = Append(cases, Desk!NewCase(r, c))
    BY <1>6, <1>7, Zenon DEF Desk!WriteCustomer
  <2>. QED BY <1>2, <1>3, <1>5, <2>1, Zenon
<1>8. CASE Desk!WriteNewCase(t)
  <2>1. UNCHANGED cases \/ \E c : cases' = Append(cases, Desk!NewCase(r, c))
    BY <1>6, <1>8, Zenon DEF Desk!WriteNewCase
  <2>. QED BY <1>2, <1>3, <1>5, <2>1, Zenon
<1>9. CASE Desk!WriteCase(t)
  <2>1. \/ UNCHANGED cases
        \/ /\ r.id \in DOMAIN cases
           /\ cases' = [cases EXCEPT ![r.id].responsible = r.to, ![r.id].status = r.status]
    BY <1>6, <1>9, Zenon DEF Desk!WriteCase
  <2>2. ASSUME r.id \in DOMAIN cases, cases' = [cases EXCEPT ![r.id].responsible = r.to, ![r.id].status = r.status]
        PROVE  CasesStay
    <3>1. PICK row : row = [cases[r.id] EXCEPT !.responsible = r.to, !.status = r.status]
      BY Zenon
    <3>2. CaseType(cases[r.id])
      BY <2>2, Zenon DEF DeskInv
    <3>3. CaseType(row) /\ row.owner = cases[r.id].owner
      BY <3>1, <3>2, Zenon DEF CaseType
    <3>4. cases' = [cases EXCEPT ![r.id] = row]
      BY <2>2, <3>1, Zenon
    <3>. QED BY <1>4, <2>2, <3>3, <3>4, Zenon
  <2>. QED BY <1>2, <2>1, <2>2, Zenon
<1>10. CASE Desk!WriteArchiveState(t)
  <2>1. PICK stamp : stamp = (r.status = "archived")
    BY Zenon
  <2>2. \/ UNCHANGED cases
        \/ /\ r.id \in DOMAIN cases
           /\ cases' = [cases EXCEPT ![r.id].status = r.status, ![r.id].stamp = stamp]
    BY <1>6, <1>10, <2>1, Zenon DEF Desk!WriteArchiveState
  <2>3. ASSUME r.id \in DOMAIN cases, cases' = [cases EXCEPT ![r.id].status = r.status, ![r.id].stamp = stamp]
        PROVE  CasesStay
    <3>1. PICK row : row = [cases[r.id] EXCEPT !.status = r.status, !.stamp = stamp]
      BY Zenon
    <3>2. CaseType(cases[r.id])
      BY <2>3, Zenon DEF DeskInv
    <3>3. CaseType(row) /\ row.owner = cases[r.id].owner
      BY <3>1, <3>2, Zenon DEF CaseType
    <3>4. cases' = [cases EXCEPT ![r.id] = row]
      BY <2>3, <3>1, Zenon
    <3>. QED BY <1>4, <2>3, <3>3, <3>4, Zenon
  <2>. QED BY <1>2, <2>2, <2>3, Zenon
<1>11. CASE Desk!WriteFiled(t) \/ Desk!WriteLead(t)
  BY <1>2, <1>11, Zenon DEF Desk!WriteFiled, Desk!WriteLead
<1>. QED BY <1>7, <1>8, <1>9, <1>10, <1>11, Zenon DEF Writes

\* A write answers its own request and leaves the other threads at theirs.
LEMMA WriteAnswers ==
  ASSUME DeskInv, NEW t \in Threads, Writes(t)
  PROVE  /\ thread' = [u \in Threads |-> thread'[u]] /\ \A u \in Threads : u # t => thread'[u] = thread[u]
         /\ reply'.code \in {"400", "409"} => TablesStay
         /\ reply'.code = "404" =>
              customers' = customers /\ filed' = filed /\ \A k \in DOMAIN cases : cases'[k] = cases[k]
<1>1. PICK S : cases \in Seq(S)
  BY Zenon DEF DeskInv
<1>2. \A row : \A k \in DOMAIN cases : Append(cases, row)[k] = cases[k]
  BY <1>1
<1>3. ASSUME NEW code, NEW why, Desk!Answer(t, code, why)
      PROVE  /\ thread' = [u \in Threads |-> thread'[u]] /\ \A u \in Threads : u # t => thread'[u] = thread[u]
             /\ reply'.code = code
  <2>1. thread' = [thread EXCEPT ![t] = Desk!Idle] /\ reply' = [op |-> thread[t].op, code |-> code, why |-> why]
    BY <1>3, Zenon DEF Desk!Answer
  <2>2. thread = [u \in Threads |-> thread[u]]
    BY Zenon DEF DeskInv
  <2>. QED BY <2>1, <2>2, Zenon
<1>. DEFINE Settles(code) ==
       \/ TablesStay
       \/ code = "200"
       \/ code = "404" /\ customers' = customers /\ filed' = filed /\ \A k \in DOMAIN cases : cases'[k] = cases[k]
<1>4. ASSUME Desk!WriteCustomer(t) PROVE \E code, why : Desk!Answer(t, code, why) /\ Settles(code)
  <2>1. \/ /\ Desk!Answer(t, "400", "database_error") /\ UNCHANGED <<customers, cases, events>>
        \/ Desk!Answer(t, "200", "none")
        \/ /\ Desk!Answer(t, "404", "none") /\ customers' = customers
           /\ cases' = cases \/ \E row : cases' = Append(cases, row)
    BY <1>4, Zenon DEF Desk!WriteCustomer
  <2>2. filed' = filed /\ leads' = leads
    BY <1>4, Zenon DEF Desk!WriteCustomer
  <2>. QED BY <1>2, <2>1, <2>2, Zenon DEF TablesStay
<1>5. ASSUME Desk!WriteNewCase(t) PROVE \E code, why : Desk!Answer(t, code, why) /\ Settles(code)
  BY <1>5, Zenon DEF Desk!WriteNewCase, TablesStay
<1>6. ASSUME Desk!WriteCase(t) PROVE \E code, why : Desk!Answer(t, code, why) /\ Settles(code)
  BY <1>6, Zenon DEF Desk!WriteCase, TablesStay
<1>7. ASSUME Desk!WriteArchiveState(t) PROVE \E code, why : Desk!Answer(t, code, why) /\ Settles(code)
  BY <1>7, Zenon DEF Desk!WriteArchiveState, TablesStay
<1>8. ASSUME Desk!WriteFiled(t) PROVE \E code, why : Desk!Answer(t, code, why) /\ Settles(code)
  BY <1>8, Zenon DEF Desk!WriteFiled, TablesStay
<1>9. ASSUME Desk!WriteLead(t) PROVE \E code, why : Desk!Answer(t, code, why) /\ Settles(code)
  BY <1>9, Zenon DEF Desk!WriteLead
<1>10. PICK code, why : Desk!Answer(t, code, why) /\ Settles(code)
  <2>. HIDE DEF Settles
  <2>. QED BY <1>4, <1>5, <1>6, <1>7, <1>8, <1>9, Zenon DEF Writes
<1>11. reply'.code = code
  BY <1>3, <1>10, Zenon
<1>12. reply'.code \in {"400", "409"} => TablesStay
  BY <1>10, <1>11, Zenon
<1>13. reply'.code = "404" =>
         customers' = customers /\ filed' = filed /\ \A k \in DOMAIN cases : cases'[k] = cases[k]
  <2>1. code = "404" => code # "200"
    BY Zenon
  <2>. QED BY <1>10, <1>11, <2>1, Zenon DEF TablesStay
<1>. QED BY <1>3, <1>10, <1>12, <1>13, Zenon

\* The invariant of the desk, and what every step keeps of the files.
LEMMA DeskStep ==
  ASSUME DeskInv, [DeskNext]_(Desk!vars)
  PROVE  DeskInv' /\ Desk!RefusalWritesNothing /\ Desk!OwnersStay
<1>1. CASE TablesStay /\ ThreadStays
  <2>1. DeskInv'
    BY <1>1, Zenon DEF DeskInv, TablesStay, ThreadStays, Desk!PhonesAreUnique
  <2>. QED BY <1>1, <2>1, Zenon DEF TablesStay, Desk!RefusalWritesNothing, Desk!OwnersStay, Desk!tables
<1>2. ASSUME NEW t \in Threads, Writes(t) PROVE DeskInv' /\ Desk!RefusalWritesNothing /\ Desk!OwnersStay
  <2>1. (\E S : customers' \in Seq(S)) /\ Desk!PhonesAreUnique' /\ CasesStay
    BY <1>2, CustomersStay, CasesKept, Zenon
  <2>2. /\ thread' = [u \in Threads |-> thread'[u]] /\ \A u \in Threads : u # t => thread'[u] = thread[u]
        /\ reply'.code \in {"400", "409"} => TablesStay
        /\ reply'.code = "404" =>
              customers' = customers /\ filed' = filed /\ \A k \in DOMAIN cases : cases'[k] = cases[k]
    BY <1>2, WriteAnswers, Zenon
  <2>3. DeskInv'
    BY <2>1, <2>2, Zenon DEF DeskInv, CasesStay
  <2>4. Desk!RefusalWritesNothing
    <3>1. TablesStay => Desk!tables' = Desk!tables
      BY Zenon DEF TablesStay, Desk!tables
    <3>. QED BY <2>2, <3>1, Zenon DEF Desk!RefusalWritesNothing
  <2>. QED BY <2>1, <2>3, <2>4, Zenon DEF CasesStay, Desk!OwnersStay
<1>. QED BY <1>1, <1>2, DeskSteps, Zenon

\* Empty tables hold what the desk promises.
LEMMA DeskInit == Desk!Init => DeskInv
<1>. SUFFICES ASSUME Desk!Init PROVE DeskInv
  BY Zenon
<1>1. customers = <<>> /\ cases = <<>> /\ thread = [t \in Threads |-> Desk!Idle]
  BY Zenon DEF Desk!Init
<1>2. \E S : customers \in Seq(S) /\ cases \in Seq(S)
  BY <1>1
<1>. QED BY <1>1, <1>2 DEF DeskInv, Desk!PhonesAreUnique

\* No two customers carry one telephone number, for any number of users, forms and requests at work:
\* the duplicate queries and the insert of save_customer are separate transactions, and the unique
\* index on the normalised number decides.
THEOREM PhoneNumbersAreUnique ==
  /\ Desk!CustomerSpec => []Desk!PhonesAreUnique
  /\ Desk!CaseSpec => []Desk!PhonesAreUnique
<1>1. DeskInv /\ [DeskNext]_(Desk!vars) => DeskInv'
  BY DeskStep, Zenon
<1>2. [Desk!CustomerNext]_(Desk!vars) => [DeskNext]_(Desk!vars)
  BY Zenon DEF DeskNext
<1>3. [Desk!CaseNext]_(Desk!vars) => [DeskNext]_(Desk!vars)
  BY Zenon DEF DeskNext
<1>4. DeskInv => Desk!PhonesAreUnique
  BY Zenon DEF DeskInv
<1>. QED BY <1>1, <1>2, <1>3, <1>4, DeskInit, PTL DEF Desk!CustomerSpec, Desk!CaseSpec

\* A request that is refused has written nothing, one that finds no customer or case has changed no
\* existing row, and the owner of a case never changes: save_customer, the case handlers, and every
\* step of another request or of the server in between.
THEOREM FilesAreKept ==
  /\ Desk!CustomerSpec => [][Desk!RefusalWritesNothing /\ Desk!OwnersStay]_(Desk!vars)
  /\ Desk!CaseSpec => [][Desk!RefusalWritesNothing /\ Desk!OwnersStay]_(Desk!vars)
<1>1. DeskInv /\ [DeskNext]_(Desk!vars) => DeskInv'
  BY DeskStep, Zenon
<1>2. [Desk!CustomerNext]_(Desk!vars) => [DeskNext]_(Desk!vars)
  BY Zenon DEF DeskNext
<1>3. [Desk!CaseNext]_(Desk!vars) => [DeskNext]_(Desk!vars)
  BY Zenon DEF DeskNext
<1>4. DeskInv /\ [DeskNext]_(Desk!vars) => [Desk!RefusalWritesNothing /\ Desk!OwnersStay]_(Desk!vars)
  BY DeskStep, Zenon
<1>. QED BY <1>1, <1>2, <1>3, <1>4, DeskInit, PTL DEF Desk!CustomerSpec, Desk!CaseSpec

=============================================================================
