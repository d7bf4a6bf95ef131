------------------------ MODULE MemoryPromotionProofs ------------------------
(***************************************************************************)
(* The gate in front of durable memory, for either store, any number of    *)
(* extractions and validations and any contents and authorities: what is   *)
(* ingested was judged, under its own id and scope.                        *)
(*                                                                         *)
(* A verdict is written to the first row of an id, on the strength of      *)
(* another record with that id, so the record behind an approval need not  *)
(* be the row that carries it.  What the two share is the id, and the id   *)
(* holds the scope.                                                        *)
(*                                                                         *)
(* And what the planner does with retrieved lessons, which shares no state *)
(* with the gate and is instantiated: conflicts are surfaced whole, plans  *)
(* that use lessons keep their scopes, feedback keeps its context.         *)
(***************************************************************************)
EXTENDS MemoryPromotion, FiniteSetTheorems, WellFoundedInduction, TLAPS

CONSTANTS Retrievable, Blank, Selections, Contexts, Items, Profiles, Plans, Edges,   \* PlannerMemory
          MaxRetrieved, MaxItems, MaxRecords

VARIABLES retrieved, conflicts, selections, verdicts, attributions, gates, graph

Lessons == INSTANCE PlannerMemory

Ids == Steps \X Scopes

Statuses == {"pending", "approved", "rejected"}

Candidates == [id : Ids, class : Classes, sensitivity : Sensitivities, scope : Scopes,
               policy : Policies, validator_status : Statuses, policy_status : Statuses]

\* Some validation approved a lesson of this id and allowed its scope.
Judged(id) ==
    \E a \in approvals :
       /\ a.candidate.id = id /\ id[2] \in a.scopes
       /\ a.candidate.class = "procedural_lesson" /\ a.candidate.sensitivity # "secret"

\* What holds of a row and of a copy a caller keeps.
Sound(r) ==
    /\ r \in Candidates
    /\ r.scope = r.id[2]
    /\ r.policy_status = "approved" => Judged(r.id)

\* Every record a caller can hand in has a row for its verdict.
MInv ==
    /\ rows \in Seq(Candidates)
    /\ \A i \in DOMAIN rows : Sound(rows[i])
    /\ \A c \in copies : Sound(c) /\ \E i \in DOMAIN rows : rows[i].id = c.id
    /\ \A m \in memory : m.class = "procedural_lesson" /\ m.scope = m.id[2] /\ Judged(m.id)

KInv ==
    /\ \A p \in proposals : p.status = "approved" => p.proposal.sensitivity # "secret"
    /\ \A k \in knowledge : k.sensitivity # "secret"

-----------------------------------------------------------------------------
(* Rows.                                                                   *)

\* update_memory_candidate finds the row it looks for: the first one of the id.
LEMMA FirstRowLemma ==
  ASSUME rows \in Seq(Candidates), NEW id, \E i \in DOMAIN rows : rows[i].id = id
  PROVE  /\ FirstRow(id) \in DOMAIN rows /\ rows[FirstRow(id)].id = id
         /\ \A j \in 1..(FirstRow(id) - 1) : rows[j].id # id
<1> DEFINE R == OpToRel(<, Nat)
           T == {i \in DOMAIN rows : rows[i].id = id}
<1>1. IsWellFoundedOn(R, Nat)
  BY NatLessThanWellFounded, Zenon
<1>2. \A a, b \in Nat : a < b => <<a, b>> \in R
  BY Zenon DEF OpToRel
<1>3. T \subseteq Nat /\ T # {}
  OBVIOUS
<1> HIDE DEF R
<1>4. \E x \in T : \A y \in T : ~ (<<y, x>> \in R)
  <2> HIDE DEF T
  <2>. QED BY <1>1, <1>3, WFMin, Zenon
<1>5. PICK x \in T : \A y \in T : ~ (<<y, x>> \in R)
  BY <1>4, Zenon
<1>6. \A j \in 1..(x - 1) : j \in DOMAIN rows /\ j < x /\ j \in Nat /\ x \in Nat
  OBVIOUS
<1>7. \A j \in 1..(x - 1) : rows[j].id # id
  BY <1>2, <1>5, <1>6, Zenon
<1>8. \E i \in DOMAIN rows : rows[i].id = id /\ \A j \in 1..(i - 1) : rows[j].id # id
  BY <1>7, Zenon
<1>. QED BY <1>8, Zenon DEF FirstRow

\* Approvals are never withdrawn.
LEMMA JudgedLemma ==
  ASSUME approvals \subseteq approvals', NEW id, Judged(id)
  PROVE  Judged(id)'
  BY Zenon DEF Judged

\* A record that stays as it is stays sound.
LEMMA SoundLemma ==
  ASSUME approvals \subseteq approvals', NEW r, Sound(r)
  PROVE  Sound(r)'
  BY JudgedLemma, Zenon DEF Sound

\* A record a caller holds is sound and has a row.
LEMMA HeldLemma ==
  ASSUME MInv, NEW c \in Held
  PROVE  Sound(c) /\ \E i \in DOMAIN rows : rows[i].id = c.id
<1>1. CASE Store = "memory"
  <2>1. c \in Range(rows)
    BY <1>1, Zenon DEF Held
  <2>2. PICK i \in DOMAIN rows : c = rows[i]
    BY <2>1, Zenon DEF Range
  <2>. QED BY <2>2, Zenon DEF MInv
<1>2. CASE Store # "memory"
  BY <1>2, Zenon DEF Held, MInv
<1>. QED BY <1>1, <1>2, Zenon

\* Steps that touch neither rows, copies nor memory.
LEMMA AsideLemma ==
  ASSUME MInv, UNCHANGED <<rows, copies, memory, approvals>>
  PROVE  MInv'
<1>1. rows' = rows /\ copies' = copies /\ memory' = memory /\ approvals \subseteq approvals'
  BY Zenon
<1>2. \A i \in DOMAIN rows' : Sound(rows[i])'
  <2> TAKE i \in DOMAIN rows'
  <2>1. PICK r : r = rows[i]
    BY Zenon
  <2>2. Sound(r)'
    BY <1>1, <2>1, SoundLemma, Zenon DEF MInv
  <2>. QED BY <1>1, <2>1, <2>2, Zenon DEF Sound, Judged
<1>3. \A c \in copies' : Sound(c)' /\ \E i \in DOMAIN rows' : rows'[i].id = c.id
  BY <1>1, SoundLemma, Zenon DEF MInv
<1>4. \A m \in memory' : m.class = "procedural_lesson" /\ m.scope = m.id[2] /\ Judged(m.id)'
  BY <1>1, JudgedLemma, Zenon DEF MInv
<1>. QED BY <1>1, <1>2, <1>3, <1>4, Zenon DEF MInv

-----------------------------------------------------------------------------
(* The invariant.                                                          *)

\* Nothing is there at the start.
LEMMA InitLemma == Init => MInv /\ KInv
  BY DEF Init, MInv, KInv

\* A new candidate is pending; PostgreSQL may keep the row that is there.
LEMMA ExtractLemma ==
  ASSUME MInv, NEW step \in Steps, NEW scope \in Scopes, NEW class \in Classes,
         NEW s \in Sensitivities, NEW policy \in Policies, NEW content,
         Extract(step, scope, class, s, policy, content)
  PROVE  MInv'
<1>1. PICK row : row = [id |-> <<step, scope>>, class |-> class, sensitivity |-> s,
                        scope |-> scope, policy |-> policy,
                        validator_status |-> "pending", policy_status |-> "pending"]
  BY Zenon
<1>2. /\ rows' = InsertCandidate(row)
      /\ copies' \subseteq copies \cup {row}
      /\ memory' = memory /\ approvals' = approvals
  BY <1>1, Zenon DEF Extract
<1>3. row \in Candidates /\ row.scope = row.id[2] /\ row.policy_status # "approved"
  BY <1>1, Zenon DEF Candidates, Ids, Statuses
<1>4. Sound(row)'
  BY <1>3, Zenon DEF Sound
<1>5. /\ rows' \in Seq(Candidates)
      /\ \A i \in DOMAIN rows : i \in DOMAIN rows' /\ rows'[i] = rows[i]
      /\ \A i \in DOMAIN rows' : i \in DOMAIN rows \/ rows'[i] = row
      /\ \E i \in DOMAIN rows' : rows'[i].id = row.id
  <2>1. rows \in Seq(Candidates)
    BY Zenon DEF MInv
  <2>2. CASE rows' = Append(rows, row)
    <3>1. Len(rows) + 1 \in DOMAIN rows' /\ rows'[Len(rows) + 1] = row
      BY <1>3, <2>1, <2>2
    <3>. QED BY <1>3, <2>1, <2>2, <3>1
  <2>3. CASE rows' = rows /\ \E i \in DOMAIN rows : rows[i].id = row.id
    BY <2>1, <2>3, Zenon
  <2>. QED BY <1>2, <2>2, <2>3, Zenon DEF InsertCandidate
<1>6. \A i \in DOMAIN rows' : Sound(rows[i])'
  <2> TAKE i \in DOMAIN rows'
  <2>1. PICK r : r = rows'[i]
    BY Zenon
  <2>2. r = row \/ Sound(r)
    BY <1>5, <2>1, Zenon DEF MInv
  <2>3. Sound(r)'
    BY <1>2, <1>4, <2>2, SoundLemma, Zenon
  <2>. QED BY <2>1, <2>3, Zenon DEF Sound, Judged
<1>7. \A c \in copies' : Sound(c)' /\ \E i \in DOMAIN rows' : rows'[i].id = c.id
  <2> TAKE c \in copies'
  <2>1. CASE c = row
    BY <1>4, <1>5, <2>1, Zenon
  <2>2. CASE c \in copies
    BY <1>2, <1>5, <2>2, SoundLemma DEF MInv
  <2>. QED BY <1>2, <2>1, <2>2, Zenon
<1>8. \A m \in memory' : m.class = "procedural_lesson" /\ m.scope = m.id[2] /\ Judged(m.id)'
  BY <1>2, JudgedLemma, Zenon DEF MInv
<1>. QED BY <1>5, <1>6, <1>7, <1>8, Zenon DEF MInv

\* update_memory_candidate changes the two statuses of that row and nothing else.
LEMMA UpdateLemma ==
  ASSUME MInv, NEW id, \E i \in DOMAIN rows : rows[i].id = id,
         NEW a \in {"approved", "rejected"}, NEW b \in {"approved", "rejected"}, UpdateCandidate(id, a, b)
  PROVE  \E i \in DOMAIN rows : \E n \in Candidates :
           /\ rows[i].id = id /\ \A j \in 1..(i - 1) : rows[j].id # id
           /\ n.id = id /\ n.scope = rows[i].scope /\ n.policy_status = b
           /\ rows' \in Seq(Candidates) /\ DOMAIN rows' = DOMAIN rows
           /\ \A j \in DOMAIN rows : rows'[j] = IF j = i THEN n ELSE rows[j]
<1>1. PICK i \in DOMAIN rows : /\ i = FirstRow(id) /\ rows[i].id = id
                               /\ \A j \in 1..(i - 1) : rows[j].id # id
  BY FirstRowLemma, Zenon DEF MInv
<1>2. PICK r \in Candidates : r = rows[i]
  BY Zenon DEF MInv, Sound
<1>3. PICK n \in Candidates : /\ n = [r EXCEPT !.validator_status = a, !.policy_status = b]
                              /\ n.id = r.id /\ n.scope = r.scope /\ n.policy_status = b
  <2> DEFINE t == [r EXCEPT !.validator_status = a, !.policy_status = b]
  <2>1. a \in Statuses /\ b \in Statuses
    BY Zenon DEF Statuses
  <2>2. t \in Candidates /\ t.id = r.id /\ t.scope = r.scope /\ t.policy_status = b
    BY <2>1, Zenon DEF Candidates
  <2> HIDE DEF t
  <2>3. t = [r EXCEPT !.validator_status = a, !.policy_status = b]
    BY Zenon DEF t
  <2>. QED BY <2>2, <2>3, Zenon
<1>4. rows' = [rows EXCEPT ![i] = n]
  <2>1. rows' = [rows EXCEPT ![i].validator_status = a, ![i].policy_status = b]
    BY <1>1, Zenon DEF UpdateCandidate
  <2>2. PICK o \in Candidates : o = [r EXCEPT !.validator_status = a]
    BY Zenon DEF Candidates, Statuses
  <2>3. n = [o EXCEPT !.policy_status = b]
    BY <1>3, <2>2, Zenon DEF Candidates, Statuses
  <2>4. PICK mid : mid = [rows EXCEPT ![i] = o]
    BY Zenon
  <2>5. mid = [rows EXCEPT ![i].validator_status = a]
    BY <1>2, <2>2, <2>4, Zenon
  <2>6. rows' = [mid EXCEPT ![i].policy_status = b]
    BY <2>1, <2>5, Zenon
  <2>7. mid[i] = o
    BY <2>4, Zenon DEF MInv
  <2>8. rows' = [mid EXCEPT ![i] = n]
    BY <2>3, <2>6, <2>7, Zenon
  <2>. QED BY <2>4, <2>8, Zenon DEF MInv
<1>5. /\ rows' \in Seq(Candidates) /\ DOMAIN rows' = DOMAIN rows
      /\ \A j \in DOMAIN rows : rows'[j] = IF j = i THEN n ELSE rows[j]
  BY <1>4 DEF MInv
<1>6. n.id = id /\ n.scope = rows[i].scope /\ n.policy_status = b
  BY <1>1, <1>2, <1>3, Zenon
<1>. QED BY <1>1, <1>5, <1>6, Zenon

\* The verdict lands on a row with the id of the record judged, and an approval is on
\* record for that id when the row becomes approved.
LEMMA ValidateLemma ==
  ASSUME MInv, NEW c \in Held, NEW content, NEW authority, Validate(c, content, authority)
  PROVE  MInv'
<1>1. Sound(c) /\ \E i \in DOMAIN rows : rows[i].id = c.id
  BY HeldLemma, Zenon
<1>2. PICK a, b : /\ a \in {"approved", "rejected"} /\ b \in {"approved", "rejected"}
                  /\ UpdateCandidate(c.id, a, b)
                  /\ b = "approved" => ValidationPasses(c, content) /\ PolicyPasses(c, content, authority)
                  /\ approvals' = IF b = "approved"
                                  THEN approvals \cup {[candidate |-> c, content |-> content,
                                                        scopes |-> authority.scopes]}
                                  ELSE approvals
                  /\ UNCHANGED <<copies, memory>>
  <2> DEFINE valid == ValidationPasses(c, content)
             approved == valid /\ PolicyPasses(c, content, authority)
             x == IF valid THEN "approved" ELSE "rejected"
             y == IF approved THEN "approved" ELSE "rejected"
  <2>1. /\ UpdateCandidate(c.id, x, y)
        /\ approvals' = IF approved
                        THEN approvals \cup {[candidate |-> c, content |-> content,
                                              scopes |-> authority.scopes]}
                        ELSE approvals
        /\ UNCHANGED <<copies, memory>>
    BY Zenon DEF Validate
  <2>2. x \in {"approved", "rejected"} /\ y \in {"approved", "rejected"} /\ (y = "approved" <=> approved)
    BY Zenon
  <2> HIDE DEF x, y
  <2>3. approvals' = IF y = "approved"
                     THEN approvals \cup {[candidate |-> c, content |-> content,
                                           scopes |-> authority.scopes]}
                     ELSE approvals
    BY <2>1, <2>2, Zenon
  <2>. QED BY <2>1, <2>2, <2>3, Zenon
<1>3. approvals \subseteq approvals'
  BY <1>2, Zenon
<1>4. b = "approved" => Judged(c.id)'
  <2> SUFFICES ASSUME b = "approved" PROVE Judged(c.id)'
    BY Zenon
  <2>1. PICK p : p = [candidate |-> c, content |-> content, scopes |-> authority.scopes]
    BY Zenon
  <2>2. p \in approvals'
    BY <1>2, <2>1, Zenon
  <2>3. /\ c.class = "procedural_lesson" /\ c.sensitivity # "secret"
        /\ c.scope \in authority.scopes /\ c.scope = c.id[2]
    BY <1>1, <1>2, Zenon DEF ValidationPasses, PolicyPasses, Sound
  <2>4. p.candidate = c /\ p.scopes = authority.scopes
    BY <2>1, Zenon
  <2>. QED BY <2>2, <2>3, <2>4, Zenon DEF Judged
<1>5. PICK i \in DOMAIN rows, n \in Candidates :
             /\ rows[i].id = c.id /\ n.id = c.id /\ n.scope = rows[i].scope /\ n.policy_status = b
             /\ rows' \in Seq(Candidates) /\ DOMAIN rows' = DOMAIN rows
             /\ \A j \in DOMAIN rows : rows'[j] = IF j = i THEN n ELSE rows[j]
  BY <1>1, <1>2, UpdateLemma
<1>6. Sound(n)'
  <2>1. n.scope = n.id[2] /\ n.id = c.id
    BY <1>5 DEF MInv, Sound
  <2>2. b = "approved" => Judged(n.id)'
    BY <1>4, <2>1, Zenon
  <2>. QED BY <1>5, <2>1, <2>2, Zenon DEF Sound
<1>7. \A j \in DOMAIN rows' : Sound(rows[j])'
  <2> TAKE j \in DOMAIN rows'
  <2>1. PICK t : t = rows'[j]
    BY Zenon
  <2>2. t = n \/ Sound(t)
    BY <1>5, <2>1, Zenon DEF MInv
  <2>3. Sound(t)'
    BY <1>3, <1>6, <2>2, SoundLemma, Zenon
  <2>. QED BY <2>1, <2>3, Zenon DEF Sound, Judged
<1>8. \A d \in copies' : Sound(d)' /\ \E j \in DOMAIN rows' : rows'[j].id = d.id
  <2> TAKE d \in copies'
  <2>1. Sound(d)'
    BY <1>2, <1>3, SoundLemma, Zenon DEF MInv
  <2>2. PICK j \in DOMAIN rows : rows[j].id = d.id
    BY <1>2, Zenon DEF MInv
  <2>3. rows'[j].id = rows[j].id
    BY <1>5, Zenon
  <2>. QED BY <1>5, <2>1, <2>2, <2>3, Zenon
<1>9. \A m \in memory' : m.class = "procedural_lesson" /\ m.scope = m.id[2] /\ Judged(m.id)'
  BY <1>2, <1>3, JudgedLemma, Zenon DEF MInv
<1>. QED BY <1>5, <1>7, <1>8, <1>9, Zenon DEF MInv

\* Rows read back are rows.
LEMMA LoadLemma ==
  ASSUME MInv, LoadRows
  PROVE  MInv'
<1>1. rows' = rows /\ memory' = memory /\ approvals \subseteq approvals' /\ approvals' = approvals
      /\ copies' = copies \cup Range(rows)
  BY Zenon DEF LoadRows
<1>2. \A i \in DOMAIN rows' : Sound(rows[i])'
  <2> TAKE i \in DOMAIN rows'
  <2>1. PICK r : r = rows[i]
    BY Zenon
  <2>2. Sound(r)'
    BY <1>1, <2>1, SoundLemma, Zenon DEF MInv
  <2>. QED BY <1>1, <2>1, <2>2, Zenon DEF Sound, Judged
<1>3. \A c \in copies' : Sound(c)' /\ \E i \in DOMAIN rows' : rows'[i].id = c.id
  <2> TAKE c \in copies'
  <2>1. Sound(c) /\ \E i \in DOMAIN rows : rows[i].id = c.id
    BY <1>1, Zenon DEF MInv, Range
  <2>. QED BY <1>1, <2>1, SoundLemma, Zenon
<1>4. \A m \in memory' : m.class = "procedural_lesson" /\ m.scope = m.id[2] /\ Judged(m.id)'
  BY <1>1, JudgedLemma, Zenon DEF MInv
<1>. QED BY <1>1, <1>2, <1>3, <1>4, Zenon DEF MInv

\* Only an approved row is submitted, and its class is looked at again.
LEMMA SubmitLemma ==
  ASSUME MInv, NEW c \in Held, Submit(c)
  PROVE  MInv'
<1>1. PICK m0 : m0 = [id |-> c.id, scope |-> c.scope, class |-> c.class, sensitivity |-> c.sensitivity]
  BY Zenon
<1>2. /\ Submittable(c) /\ memory' \subseteq memory \cup {m0}
      /\ rows' = rows /\ copies' = copies /\ approvals \subseteq approvals'
  BY <1>1, Zenon DEF Submit
<1>3. Sound(c)
  BY HeldLemma, Zenon
<1>4. m0.class = "procedural_lesson" /\ m0.scope = m0.id[2] /\ Judged(m0.id)
  <2>1. m0.id = c.id /\ m0.scope = c.scope /\ m0.class = c.class
    BY <1>1, Zenon
  <2>2. Judged(c.id) /\ c.class = "procedural_lesson" /\ c.scope = c.id[2]
    BY <1>2, <1>3, Zenon DEF Sound, Submittable
  <2>. QED BY <2>1, <2>2, Zenon
<1>5. \A m \in memory' : m.class = "procedural_lesson" /\ m.scope = m.id[2] /\ Judged(m.id)'
  BY <1>2, <1>4, JudgedLemma, Zenon DEF MInv
<1>6. \A i \in DOMAIN rows' : Sound(rows[i])'
  <2> TAKE i \in DOMAIN rows'
  <2>1. PICK r : r = rows[i]
    BY Zenon
  <2>2. Sound(r)'
    BY <1>2, <2>1, SoundLemma, Zenon DEF MInv
  <2>. QED BY <1>2, <2>1, <2>2, Zenon DEF Sound, Judged
<1>7. \A d \in copies' : Sound(d)' /\ \E i \in DOMAIN rows' : rows'[i].id = d.id
  BY <1>2, SoundLemma, Zenon DEF MInv
<1>8. rows' \in Seq(Candidates)
  BY <1>2, Zenon DEF MInv
<1>. QED BY <1>5, <1>6, <1>7, <1>8, Zenon DEF MInv

\* Every step keeps the invariants.
LEMMA StepLemma == MInv /\ KInv /\ [Next]_vars => (MInv /\ KInv)'
<1> SUFFICES ASSUME MInv, KInv, [Next]_vars PROVE MInv' /\ KInv'
  BY Zenon
<1>1. ASSUME NEW step \in Steps, NEW scope \in Scopes, NEW class \in Classes,
             NEW s \in Sensitivities, NEW policy \in Policies, NEW content,
             Extract(step, scope, class, s, policy, content)
      PROVE  MInv' /\ KInv'
  BY <1>1, ExtractLemma, Zenon DEF Extract, KInv
<1>2. ASSUME NEW step, NEW scope, NEW class, NEW s, NEW content,
             Reflect(step, scope, class, s, content)
      PROVE  MInv' /\ KInv'
  BY <1>2, AsideLemma, Zenon DEF Reflect, KInv
<1>3. ASSUME NEW c \in Held, NEW content, NEW authority, Validate(c, content, authority)
      PROVE  MInv' /\ KInv'
  BY <1>3, ValidateLemma, Zenon DEF Validate, KInv
<1>4. CASE LoadRows
  BY <1>4, LoadLemma, Zenon DEF LoadRows, KInv
<1>5. ASSUME NEW c \in Held, Submit(c) PROVE MInv' /\ KInv'
  BY <1>5, SubmitLemma, Zenon DEF Submit, KInv
<1>6. ASSUME NEW p \in Proposals, Propose(p) PROVE MInv' /\ KInv'
  <2>1. MInv'
    BY <1>6, AsideLemma, Zenon DEF Propose
  <2>2. KInv'
    BY <1>6 DEF Propose, KInv, ProposalPasses
  <2>. QED BY <2>1, <2>2, Zenon
<1>7. ASSUME NEW a \in proposals, IngestKnowledge(a) PROVE MInv' /\ KInv'
  <2>1. MInv'
    BY <1>7, AsideLemma, Zenon DEF IngestKnowledge
  <2>2. KInv'
    BY <1>7, Zenon DEF IngestKnowledge, KInv
  <2>. QED BY <2>1, <2>2, Zenon
<1>8. CASE UNCHANGED vars
  <2>1. MInv'
    BY <1>8, AsideLemma, Zenon DEF vars
  <2>. QED BY <1>8, <2>1, Zenon DEF vars, KInv
<1>. QED BY <1>1, <1>2, <1>3, <1>4, <1>5, <1>6, <1>7, <1>8, Zenon DEF Next

\* They hold throughout.
LEMMA Invariance == Spec => [](MInv /\ KInv)
  BY InitLemma, StepLemma, PTL DEF Spec

-----------------------------------------------------------------------------
(* What follows.                                                           *)

\* Whatever MemoryFeedbackPipeline.submit_candidate puts into memory was approved, under
\* its id and scope, by a validator that allowed the scope and saw a lesson that is not
\* secret.
THEOREM MemoryIsJudged == Spec => []IngestedWasJudged
<1>1. MInv => IngestedWasJudged
  BY Zenon DEF MInv, IngestedWasJudged, Judged
<1>. QED BY <1>1, Invariance, PTL

\* Only procedural lessons reach memory.
THEOREM MemoryHoldsLessons == Spec => []OnlyLessonsIngested
<1>1. MInv => OnlyLessonsIngested
  BY Zenon DEF MInv, OnlyLessonsIngested
<1>. QED BY <1>1, Invariance, PTL

\* knowledge_ingest_request_from_proposal builds no request for a secret document.
THEOREM SecretsAreNotProposed == Spec => []NoSecretKnowledge
<1>1. KInv => NoSecretKnowledge
  BY Zenon DEF KInv, NoSecretKnowledge
<1>. QED BY <1>1, Invariance, PTL

-----------------------------------------------------------------------------
(* The latest verdict.                                                     *)

\* An approved row is the first one of its id, and the latest verdict on the id approved it: later
\* rows of the id are never updated.
VInv ==
    /\ verdict \in [Ids -> {"none", "approved", "rejected"}]
    /\ \A i \in DOMAIN rows : rows[i].policy_status = "approved" =>
          verdict[rows[i].id] = "approved" /\ \A j \in 1..(i - 1) : rows[j].id # rows[i].id

\* A verdict is written to the first row of the id and remembered under it.
LEMMA VerdictLemma ==
  ASSUME MInv, VInv, NEW c \in Held, NEW content, NEW authority, Validate(c, content, authority)
  PROVE  VInv'
<1>1. c.id \in Ids /\ \E i \in DOMAIN rows : rows[i].id = c.id
  BY HeldLemma, Zenon DEF Sound, Candidates
<1>2. PICK a \in {"approved", "rejected"}, b \in {"approved", "rejected"} :
             UpdateCandidate(c.id, a, b) /\ verdict' = [verdict EXCEPT ![c.id] = b]
  <2> DEFINE valid == ValidationPasses(c, content)
             x == IF valid THEN "approved" ELSE "rejected"
             y == IF valid /\ PolicyPasses(c, content, authority) THEN "approved" ELSE "rejected"
  <2>1. UpdateCandidate(c.id, x, y) /\ verdict' = [verdict EXCEPT ![c.id] = y]
    BY Zenon DEF Validate
  <2>2. x \in {"approved", "rejected"} /\ y \in {"approved", "rejected"}
    BY Zenon
  <2> HIDE DEF x, y
  <2>. QED BY <2>1, <2>2, Zenon
<1>3. PICK i \in DOMAIN rows, n \in Candidates :
             /\ rows[i].id = c.id /\ \A j \in 1..(i - 1) : rows[j].id # c.id
             /\ n.id = c.id /\ n.policy_status = b
             /\ rows' \in Seq(Candidates) /\ DOMAIN rows' = DOMAIN rows
             /\ \A j \in DOMAIN rows : rows'[j] = IF j = i THEN n ELSE rows[j]
  BY <1>1, <1>2, UpdateLemma
<1>4. \A j \in DOMAIN rows : rows'[j].id = rows[j].id
  BY <1>3, Zenon
<1>5. DOMAIN rows = 1..Len(rows) /\ Len(rows) \in Nat
  BY DEF MInv
<1>6. ASSUME NEW k \in DOMAIN rows', rows'[k].policy_status = "approved"
      PROVE  verdict'[rows'[k].id] = "approved" /\ \A j \in 1..(k - 1) : rows'[j].id # rows'[k].id
  <2>1. \A j \in 1..(k - 1) : j \in DOMAIN rows
    BY <1>3, <1>5
  <2>2. CASE k = i
    <3>1. b = "approved" /\ rows'[k].id = c.id
      BY <1>3, <1>6, <2>2, Zenon
    <3>2. verdict'[c.id] = b
      BY <1>1, <1>2, Zenon DEF VInv
    <3>. QED BY <1>3, <1>4, <2>1, <2>2, <3>1, <3>2, Zenon
  <2>3. CASE k # i
    <3>1. rows'[k] = rows[k] /\ rows[k].policy_status = "approved" /\ k \in DOMAIN rows
      BY <1>3, <1>6, <2>3, Zenon
    <3>2. verdict[rows[k].id] = "approved" /\ \A j \in 1..(k - 1) : rows[j].id # rows[k].id
      BY <3>1, Zenon DEF VInv
    <3>3. rows[k].id # c.id
      <4>1. k \in 1..(i - 1) \/ i \in 1..(k - 1)
        BY <1>3, <1>5, <2>3, <3>1
      <4>. QED BY <1>3, <3>2, <4>1, Zenon
    <3>4. verdict'[rows[k].id] = verdict[rows[k].id]
      <4>1. rows[k].id \in Ids
        <5>1. rows[k] \in Candidates
          BY <3>1 DEF MInv
        <5>. QED BY <5>1, Zenon DEF Candidates
      <4>. QED BY <1>2, <3>3, <4>1, Zenon DEF VInv
    <3>. QED BY <1>4, <2>1, <3>1, <3>2, <3>4, Zenon
  <2>. QED BY <2>2, <2>3, Zenon
<1>7. verdict' \in [Ids -> {"none", "approved", "rejected"}]
  BY <1>1, <1>2, Zenon DEF VInv
<1>. QED BY <1>6, <1>7, Zenon DEF VInv

\* Rows that are added are pending; nothing else touches rows or verdicts.
LEMMA VerdictsKept == MInv /\ VInv /\ [Next]_vars => VInv'
<1> SUFFICES ASSUME MInv, VInv, [Next]_vars PROVE VInv'
  BY Zenon
<1>1. ASSUME NEW step, NEW scope, NEW class, NEW s, NEW policy, NEW content,
             Extract(step, scope, class, s, policy, content)
      PROVE  VInv'
  <2>1. PICK row : row.policy_status = "pending" /\ rows' = InsertCandidate(row) /\ verdict' = verdict
    BY <1>1, Zenon DEF Extract
  <2>2. rows \in Seq(Candidates)
    BY Zenon DEF MInv
  <2>3. \/ rows' = rows
        \/ /\ DOMAIN rows' = 1..(Len(rows) + 1) /\ DOMAIN rows = 1..Len(rows) /\ Len(rows) \in Nat
           /\ rows'[Len(rows) + 1] = row /\ \A i \in 1..Len(rows) : rows'[i] = rows[i]
    BY <2>1, <2>2 DEF InsertCandidate
  <2>4. CASE rows' = rows
    BY <2>1, <2>4, Zenon DEF VInv
  <2>5. ASSUME rows' # rows, NEW i \in DOMAIN rows', rows'[i].policy_status = "approved"
        PROVE  verdict[rows'[i].id] = "approved" /\ \A j \in 1..(i - 1) : rows'[j].id # rows'[i].id
    <3>1. i \in 1..Len(rows) /\ rows'[i] = rows[i] /\ \A j \in 1..(i - 1) : rows'[j] = rows[j]
      BY <2>1, <2>3, <2>5
    <3>. QED BY <2>3, <2>5, <3>1 DEF VInv
  <2>. QED BY <2>1, <2>4, <2>5, Zenon DEF VInv
<1>2. ASSUME NEW c \in Held, NEW content, NEW authority, Validate(c, content, authority)
      PROVE  VInv'
  BY <1>2, VerdictLemma, Zenon
<1>3. ASSUME UNCHANGED <<rows, verdict>> PROVE VInv'
  BY <1>3, Zenon DEF VInv
<1>. QED BY <1>1, <1>2, <1>3, Zenon
     DEF Next, Reflect, LoadRows, Submit, Propose, IngestKnowledge, vars

\* In the in-memory store, where a caller holds the rows themselves, memory changes only under an id
\* whose latest verdict is an approval: a lesson that was rejected after it had been approved is not
\* submitted (update_memory_candidate, submit_candidate).
THEOREM SubmissionsFollowVerdicts ==
  ASSUME Store = "memory"
  PROVE  Spec => [][SubmitsApproved]_vars
<1>1. Init => VInv
  BY DEF Init, VInv, Ids
<1>2. Spec => [](MInv /\ VInv)
  BY <1>1, InitLemma, StepLemma, VerdictsKept, PTL DEF Spec
<1>3. MInv /\ VInv /\ [Next]_vars => [SubmitsApproved]_vars
  <2>. SUFFICES ASSUME MInv, VInv, [Next]_vars PROVE SubmitsApproved
    BY Zenon
  <2>1. ASSUME NEW c \in Held, Submit(c) PROVE SubmitsApproved
    <3>1. PICK i \in DOMAIN rows : c = rows[i]
      BY Zenon DEF Held, Range
    <3>2. verdict[c.id] = "approved"
      BY <2>1, <3>1, Zenon DEF Submit, Submittable, VInv
    <3>3. \A id : id # c.id => {m \in memory' : m.id = id} = {m \in memory : m.id = id}
      BY <2>1 DEF Submit
    <3>. QED BY <3>2, <3>3, Zenon DEF SubmitsApproved
  <2>2. CASE memory' = memory
    BY <2>2, Zenon DEF SubmitsApproved
  <2>3. (\E c \in Held : Submit(c)) \/ memory' = memory
    <3>1. \A step, scope, class, s, policy, content :
             Extract(step, scope, class, s, policy, content) => memory' = memory
      BY DEF Extract
    <3>2. \A step, scope, class, s, content : Reflect(step, scope, class, s, content) => memory' = memory
      BY Zenon DEF Reflect
    <3>3. \A c, content, authority : Validate(c, content, authority) => memory' = memory
      BY Zenon DEF Validate
    <3>4. /\ LoadRows => memory' = memory
          /\ \A p : Propose(p) => memory' = memory
          /\ \A a : IngestKnowledge(a) => memory' = memory
          /\ UNCHANGED vars => memory' = memory
      BY Zenon DEF LoadRows, Propose, IngestKnowledge, vars
    <3>. QED BY <3>1, <3>2, <3>3, <3>4, Zenon DEF Next
  <2>. QED BY <2>1, <2>2, <2>3, Zenon
<1>. QED BY <1>2, <1>3, PTL DEF Spec

-----------------------------------------------------------------------------
(* The planner.                                                            *)

\* Two different members make a set of at least two.
LEMMA TwoLemma ==
  ASSUME NEW S, IsFiniteSet(S)
  PROVE  Cardinality(S) \in Nat /\ (Cardinality(S) >= 2 <=> \E x, y \in S : x # y)
<1>1. Cardinality(S) \in Nat
  BY FS_CardinalityType, Zenon
<1>2. ASSUME NEW x \in S, NEW y \in S, x # y PROVE Cardinality(S) >= 2
  <2>1. IsFiniteSet({x}) /\ Cardinality({x}) = 1
    BY FS_Singleton, Zenon
  <2>2. Cardinality({x} \cup {y}) = 2
    BY <1>2, <2>1, FS_AddElement
  <2>3. {x} \cup {y} \subseteq S
    BY Zenon
  <2>4. Cardinality({x} \cup {y}) <= Cardinality(S)
    BY <2>3, FS_Subset, Zenon
  <2>. QED BY <1>1, <2>2, <2>4, Zenon
<1>3. ASSUME \A x, y \in S : x = y PROVE Cardinality(S) < 2
  <2>1. CASE S = {}
    BY <2>1, FS_EmptySet
  <2>2. ASSUME NEW x \in S PROVE Cardinality(S) < 2
    <3>1. S = {x}
      BY <1>3, Zenon
    <3>2. Cardinality({x}) = 1
      BY FS_Singleton, Zenon
    <3>. QED BY <3>1, <3>2
  <2>. QED BY <2>1, <2>2, Zenon
<1>. QED BY <1>1, <1>2, <1>3

\* PlannerMemory counts as FiniteSets does.
LEMMA SameCount == ASSUME NEW S PROVE Lessons!Cardinality(S) = Cardinality(S)
  BY Zenon DEF Lessons!Cardinality, Cardinality

\* The conflict sets are those of what was retrieved; what is gated was checked.
LessonsInv ==
    /\ retrieved \in Seq(Retrievable) /\ conflicts = Lessons!ConflictSets(retrieved)
    /\ \A g \in gates : \A item \in g.items :
         Lessons!FeedbackValid(item, g.context, g.selection.used \cup g.selection.ignored)
    /\ \A v \in verdicts : v.approved = Lessons!PlanApproved(v.plan, v.profile, v.planned)

\* Each step adds one record, checked as it is made.
LEMMA LessonsStep == LessonsInv /\ [Lessons!Next]_(Lessons!vars) => LessonsInv'
<1>. SUFFICES ASSUME LessonsInv, [Lessons!Next]_(Lessons!vars) PROVE LessonsInv'
  BY Zenon
<1>1. ASSUME NEW record \in Retrievable, Lessons!Retrieve(record) PROVE LessonsInv'
  <2>1. retrieved' \in Seq(Retrievable) /\ conflicts' = Lessons!ConflictSets(retrieved)' /\ UNCHANGED <<gates, verdicts>>
    BY <1>1 DEF Lessons!Retrieve, LessonsInv
  <2>. QED BY <2>1, Zenon DEF LessonsInv
<1>2. ASSUME NEW plan, NEW profile, NEW planned, Lessons!CheckPlan(plan, profile, planned) PROVE LessonsInv'
  <2>1. PICK v : v = [plan |-> plan, profile |-> profile, planned |-> planned,
                      approved |-> Lessons!PlanApproved(plan, profile, planned)]
    BY Zenon
  <2>2. verdicts' = verdicts \cup {v} /\ UNCHANGED <<retrieved, conflicts, gates>>
    BY <1>2, <2>1, Zenon DEF Lessons!CheckPlan
  <2>3. v.approved = Lessons!PlanApproved(v.plan, v.profile, v.planned)
    BY <2>1, Zenon
  <2>. QED BY <2>2, <2>3, Zenon DEF LessonsInv
<1>3. ASSUME NEW a, Lessons!BuildGate(a) PROVE LessonsInv'
  <2>1. PICK g : g = [selection |-> a.selection, context |-> a.context, items |-> a.feedback]
    BY Zenon
  <2>2. gates' = gates \cup {g} /\ UNCHANGED <<retrieved, conflicts, verdicts>>
    BY <1>3, <2>1, Zenon DEF Lessons!BuildGate
  <2>3. \A item \in g.items : Lessons!FeedbackValid(item, g.context, g.selection.used \cup g.selection.ignored)
    BY <1>3, <2>1, Zenon DEF Lessons!BuildGate
  <2>. QED BY <2>2, <2>3, Zenon DEF LessonsInv
<1>4. CASE \/ \E s \in Selections : Lessons!Select(s)
           \/ \E s \in selections, context \in Contexts : \E items \in SUBSET Items : Lessons!Attribute(s, context, items)
           \/ \E edge \in Edges : Lessons!AddEdge(edge)
           \/ UNCHANGED Lessons!vars
  <2>1. UNCHANGED <<retrieved, conflicts, gates, verdicts>>
    BY <1>4, Zenon DEF Lessons!Select, Lessons!Attribute, Lessons!AddEdge, Lessons!vars
  <2>. QED BY <2>1, Zenon DEF LessonsInv
<1>. QED BY <1>1, <1>2, <1>3, <1>4, Zenon DEF Lessons!Next

\* The invariant of what the planner is shown and what is recorded of it.
LEMMA LessonsInvariance == Lessons!Spec => []LessonsInv
<1>1. Lessons!Init => LessonsInv
  BY DEF Lessons!Init, LessonsInv, Lessons!ConflictSets, Lessons!Conflicting, Lessons!Keys
<1>. QED BY <1>1, LessonsStep, PTL DEF Lessons!Spec

\* Two lessons retrieved under one conflict key stand in one conflict set, and every conflict set asks
\* for a choice between at least two lessons, whatever was retrieved in whatever order
\* (build_lesson_conflict_sets).
THEOREM ConflictsStandTogether == Lessons!Spec => []Lessons!ConflictsAreSurfaced
<1>1. ASSUME LessonsInv PROVE Lessons!ConflictsAreSurfaced
  <2> DEFINE Shown == Lessons!Conflicting(retrieved)
  <2>1. conflicts = {Lessons!ConflictSet(retrieved, k) : k \in Shown}
    BY <1>1, Zenon DEF LessonsInv, Lessons!ConflictSets
  <2>2. ASSUME NEW k PROVE IsFiniteSet(Lessons!Ids(retrieved, k))
    <3>1. IsFiniteSet(DOMAIN retrieved)
      <4>1. DOMAIN retrieved = 1..Len(retrieved) /\ Len(retrieved) \in Nat
        BY <1>1 DEF LessonsInv
      <4>2. 1 \in Int /\ Len(retrieved) \in Int
        BY <4>1
      <4>. QED BY <4>1, <4>2, FS_Interval, Zenon
    <3>2. IsFiniteSet(Lessons!Grouped(retrieved, k))
      BY <3>1, FS_Subset, Zenon DEF Lessons!Grouped
    <3>3. PICK f : f = [i \in Lessons!Grouped(retrieved, k) |-> retrieved[i].id]
      BY Zenon
    <3>4. f \in Surjection(Lessons!Grouped(retrieved, k), Lessons!Ids(retrieved, k))
      BY <3>3, Zenon DEF Lessons!Ids, Surjection
    <3>. QED BY <3>2, <3>4, FS_Surjection, Zenon
  <2>3. ASSUME NEW k PROVE Lessons!ConflictSet(retrieved, k).key = k
                           /\ Lessons!ConflictSet(retrieved, k).ids = Lessons!Ids(retrieved, k)
    BY Zenon DEF Lessons!ConflictSet
  <2>4. ASSUME NEW c \in conflicts PROVE \E x, y \in c.ids : x # y
    <3>1. PICK k \in Shown : c = Lessons!ConflictSet(retrieved, k)
      BY <2>1, Zenon
    <3>2. c.ids = Lessons!Ids(retrieved, k)
      BY <2>3, <3>1, Zenon
    <3>. QED BY <2>2, <3>1, <3>2, SameCount, TwoLemma, Zenon DEF Lessons!Conflicting
  <2>5. ASSUME NEW i \in DOMAIN retrieved, NEW j \in DOMAIN retrieved, retrieved[i].key = retrieved[j].key,
               retrieved[i].key # Blank, retrieved[i].id # retrieved[j].id
        PROVE  Cardinality({c \in conflicts : c.key = retrieved[i].key
                                               /\ {retrieved[i].id, retrieved[j].id} \subseteq c.ids}) = 1
    <3>1. PICK k : k = retrieved[i].key
      BY Zenon
    <3>2. PICK set : set = Lessons!ConflictSet(retrieved, k)
      BY Zenon
    <3>3. retrieved[i].id \in Lessons!Ids(retrieved, k) /\ retrieved[j].id \in Lessons!Ids(retrieved, k)
      BY <2>5, <3>1, Zenon DEF Lessons!Ids, Lessons!Grouped
    <3>4. Cardinality(Lessons!Ids(retrieved, k)) >= 2
      BY <2>2, <2>5, <3>3, TwoLemma, Zenon
    <3>5. k \in Shown
      BY <2>5, <3>1, <3>4, SameCount, Zenon DEF Lessons!Conflicting, Lessons!Keys
    <3>6. set \in conflicts /\ set.key = k /\ set.ids = Lessons!Ids(retrieved, k)
      BY <2>1, <2>3, <3>2, <3>5, Zenon
    <3>7. \A c \in conflicts : c.key = k => c = set
      BY <2>1, <2>3, <3>2, Zenon
    <3>8. {c \in conflicts : c.key = retrieved[i].key /\ {retrieved[i].id, retrieved[j].id} \subseteq c.ids} = {set}
      BY <3>1, <3>3, <3>6, <3>7, Zenon
    <3>. QED BY <3>8, FS_Singleton, Zenon
  <2>6. \A i, j \in DOMAIN retrieved :
          retrieved[i].key = retrieved[j].key /\ retrieved[i].key # Blank /\ retrieved[i].id # retrieved[j].id =>
             Lessons!Cardinality({c \in conflicts : c.key = retrieved[i].key
                                             /\ {retrieved[i].id, retrieved[j].id} \subseteq c.ids}) = 1
    BY <2>5, SameCount, Zenon
  <2>. QED BY <2>4, <2>6, Zenon DEF Lessons!ConflictsAreSurfaced
<1>. QED BY <1>1, LessonsInvariance, PTL

\* Feedback that reaches ranking belongs to the selection and the context of its own run, whatever the
\* caller's item overrode (build_lesson_attribution_record, build_lesson_ranking_feedback_gate).
THEOREM FeedbackStaysInContext == Lessons!Spec => []Lessons!FeedbackIsContextBound
<1>1. LessonsInv => Lessons!FeedbackIsContextBound
  BY Zenon DEF LessonsInv, Lessons!FeedbackValid, Lessons!FeedbackIsContextBound
<1>. QED BY <1>1, LessonsInvariance, PTL

\* An approved plan that uses lessons leaves the scopes of the sealed profile as they are
\* (PostPlanningMemoryInvariantValidator.validate).
THEOREM PlansKeepScopes == Lessons!Spec => []Lessons!ApprovedPlansKeepScopes
<1>1. ASSUME LessonsInv PROVE Lessons!ApprovedPlansKeepScopes
  <2>1. ASSUME NEW v \in verdicts, v.approved, v.plan.used # {},
               NEW f \in {"tools", "knowledge_scopes", "data_scopes", "memory_scopes"}
        PROVE  v.planned[f] = v.profile[f]
    <3>1. Lessons!ProfileDelta(v.profile, v.planned) = {}
      BY <1>1, <2>1, Zenon DEF LessonsInv, Lessons!PlanApproved
    <3>2. f \in Lessons!ProfileAuthorityFields
      BY Zenon DEF Lessons!ProfileAuthorityFields
    <3>. QED BY <3>1, <3>2, Zenon DEF Lessons!ProfileDelta
  <2>. QED BY <2>1, Zenon DEF Lessons!ApprovedPlansKeepScopes
<1>. QED BY <1>1, LessonsInvariance, PTL
=============================================================================
