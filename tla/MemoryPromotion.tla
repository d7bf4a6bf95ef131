---- MODULE MemoryPromotion ----
(***************************************************************************)
(* The way from a finished runtime step to durable memory or knowledge:    *)
(* reflection envelopes and candidate extraction, the candidate validator, *)
(* the submission to Cloudflare memory, and knowledge record proposals.    *)
(*                                                                         *)
(* The row of a candidate is identified by its run, step and target scope, *)
(* so extracting twice from a step meets the row that is already there:    *)
(* the in-memory store appends a second row and updates the first one of   *)
(* an id, PostgreSQL keeps the first row and hands the caller its own      *)
(* unsaved record.  Callers hold the live rows in memory, copies otherwise.*)
(*                                                                         *)
(* A content is reduced to what the checks look at; texts are reduced to   *)
(* the vocabularies they touch.                                            *)
(***************************************************************************)
EXTENDS Naturals, Sequences, FiniteSets, Functions

CONSTANTS Store,         \* "memory" or "postgres"
          Steps,         \* steps of the run
          Succeeded,     \* the ones that are completed
          Scopes,        \* memory scopes
          Policies,
          Sensitivities, \* sensitivities a caller passes
          Classes,       \* candidate classes a caller passes
          Contents,      \* contents a caller passes
          Authorities,   \* [scopes, policies] a validator is built with
          Proposals,     \* [step, scope, sensitivity, complete]: factual documents
          MaxExtractions, MaxVerdicts

VARIABLES rows,       \* runtime.memory_candidates
          copies,     \* candidate records callers hold (PostgreSQL)
          envelopes,  \* reflection artifacts
          memory,     \* records in Cloudflare memory (external)
          proposals,  \* knowledge proposal artifacts
          knowledge,  \* documents of the ingest requests built from proposals
          approvals,  \* history: the validations that approved
          verdict,    \* history: the latest verdict of each id
          count       \* extractions and validations done

vars == <<rows, copies, envelopes, memory, proposals, knowledge, approvals, verdict, count>>

\* validate is called with content=None: the content checks are skipped.
NoContent == [summary |-> FALSE, extra |-> {}, applicability |-> FALSE, evidence |-> "none",
              authoritative |-> FALSE, influence |-> "none", allowed |-> {}, forbidden |-> {},
              language |-> {}, generalization |-> "none", prior |-> "none"]

AllowedEffects == {"planner_hint", "retrieval_ranking", "composer_candidate_bias"}

RequiredForbiddenEffects == {"tool_grant", "scope_grant", "policy_override",
                             "validator_override", "profile_mutation", "runtime_authority"}

ReflectionRejectionKeys == {"raw_tool_output", "private_data"}

TaskSubjectContentKeys == {"subject_data"}

PromotionRoute(class) ==
    CASE class = "procedural_lesson" -> "agent_memory"
      [] class = "task_subject_fact" -> "scoped_knowledge_record"
      [] class = "runtime_evidence" -> "runtime_plane_evidence"
      [] class = "knowledge_record_proposal" -> "knowledge_record_approval"
      [] class = "rejected" -> "none"

Init ==
    /\ rows = <<>> /\ copies = {} /\ envelopes = {} /\ memory = {}
    /\ proposals = {} /\ knowledge = {} /\ approvals = {}
    /\ verdict = [id \in Steps \X Scopes |-> "none"]
    /\ count = [extractions |-> 0, verdicts |-> 0]

Extractable(step) == step \in Succeeded

\* insert_memory_candidate: an append in memory, ON CONFLICT DO NOTHING otherwise.
InsertCandidate(row) ==
    IF Store = "memory" \/ \A i \in DOMAIN rows : rows[i].id # row.id
    THEN Append(rows, row) ELSE rows

\* CLASSIFICATION_ENVELOPE_CONTENT_KEYS: no other field is present.
EnvelopeOnly(content) ==
    content.extra = {} /\ content.generalization = "none" /\ content.prior = "none"

\* MemoryCandidateExtractor.extract_from_step
Extract(step, scope, class, sensitivity, policy, content) ==
    /\ count.extractions < MaxExtractions
    /\ Extractable(step)
    /\ content.summary /\ EnvelopeOnly(content)
    /\ LET row == [id |-> <<step, scope>>, class |-> class, sensitivity |-> sensitivity,
                   scope |-> scope, policy |-> policy,
                   validator_status |-> "pending", policy_status |-> "pending"]
       IN  /\ rows' = InsertCandidate(row)
           /\ copies' = IF Store = "memory" THEN copies ELSE copies \cup {row}
    /\ count' = [count EXCEPT !.extractions = @ + 1]
    /\ UNCHANGED <<envelopes, memory, proposals, knowledge, approvals, verdict>>

\* _resolved_candidate_class
ResolvedClass(class, sensitivity, content) ==
    IF \/ class = "rejected" \/ sensitivity = "secret"
       \/ content.extra \cap ReflectionRejectionKeys # {}
       \/ "secret" \in content.language
    THEN "rejected" ELSE class

\* PostRunReflectionExtractor.emit_candidate_envelope
Reflect(step, scope, class, sensitivity, content) ==
    /\ Cardinality(envelopes) < 1
    /\ Extractable(step)
    /\ content.summary /\ content.evidence = "runtime"
    /\ LET resolved == ResolvedClass(class, sensitivity, content)
       IN  envelopes' = envelopes \cup
              {[id |-> <<step, scope>>, requested |-> class, class |-> resolved,
                route |-> PromotionRoute(resolved), sensitivity |-> sensitivity, content |-> content]}
    /\ UNCHANGED <<rows, copies, memory, proposals, knowledge, approvals, verdict, count>>

\* _procedural_content_errors
ProceduralContent(content) ==
    /\ content.applicability
    /\ content.evidence = "runtime"
    /\ ~content.authoritative
    /\ content.influence \in AllowedEffects
    /\ content.allowed # {} /\ content.allowed \subseteq AllowedEffects
    /\ RequiredForbiddenEffects \subseteq content.forbidden
    /\ content.extra \cap (ReflectionRejectionKeys \cup TaskSubjectContentKeys) = {}
    /\ content.language \cap {"secret", "subject", "authority"} = {}
    /\ content.generalization \notin {"all_tasks", "global", "all"}

\* _validation_errors is empty
ValidationPasses(candidate, content) ==
    /\ candidate.sensitivity # "secret"
    /\ candidate.class = "procedural_lesson"
    /\ content # NoContent => content.summary /\ ProceduralContent(content)

PolicyPassesMutant(candidate, content, authority) == candidate.policy \in authority.policies

\* _policy_errors is empty; content.prior is the safety compiler's decision.
PolicyPasses(candidate, content, authority) ==
    /\ candidate.scope \in authority.scopes
    /\ candidate.policy \in authority.policies
    /\ content # NoContent => content.prior # "blocked"

FirstRow(id) == CHOOSE i \in DOMAIN rows :
    rows[i].id = id /\ \A j \in 1..(i - 1) : rows[j].id # id

\* The newest row of the id is updated instead of the oldest.
UpdateCandidateMutant(id, validator, policy) ==
    LET i == CHOOSE k \in DOMAIN rows : rows[k].id = id /\ \A j \in (k + 1)..Len(rows) : rows[j].id # id
    IN  rows' = [rows EXCEPT ![i].validator_status = validator, ![i].policy_status = policy]

\* update_memory_candidate
UpdateCandidate(id, validator, policy) ==
    rows' = [rows EXCEPT ![FirstRow(id)].validator_status = validator,
                         ![FirstRow(id)].policy_status = policy]

Held == IF Store = "memory" THEN Range(rows) ELSE copies

\* MemoryCandidateValidator.validate judges the record and the content it is
\* given, and writes the verdict to the row of that id.
Validate(candidate, content, authority) ==
    /\ count.verdicts < MaxVerdicts
    /\ LET valid == ValidationPasses(candidate, content)
           approved == valid /\ PolicyPasses(candidate, content, authority)
       IN  /\ UpdateCandidate(candidate.id, IF valid THEN "approved" ELSE "rejected",
                              IF approved THEN "approved" ELSE "rejected")
           /\ approvals' = IF approved
                           THEN approvals \cup {[candidate |-> candidate, content |-> content,
                                                 scopes |-> authority.scopes]}
                           ELSE approvals
           /\ verdict' = [verdict EXCEPT ![candidate.id] = IF approved THEN "approved" ELSE "rejected"]
    /\ count' = [count EXCEPT !.verdicts = @ + 1]
    /\ UNCHANGED <<copies, envelopes, memory, proposals, knowledge>>

\* A caller reads the rows again (as_runtime_plane_recordset).
LoadRows ==
    /\ Store = "postgres"
    /\ copies' = copies \cup Range(rows)
    /\ UNCHANGED <<rows, envelopes, memory, proposals, knowledge, approvals, verdict, count>>

\* _validate_candidate of the feedback pipeline
Submittable(candidate) ==
    /\ candidate.validator_status = "approved"
    /\ candidate.policy_status = "approved"
    /\ candidate.class = "procedural_lesson"

\* MemoryFeedbackPipeline.submit_candidate; the Worker stores the record under its id.
Submit(candidate) ==
    /\ Submittable(candidate)
    /\ memory' = {m \in memory : m.id # candidate.id} \cup
                 {[id |-> candidate.id, scope |-> candidate.scope, class |-> candidate.class,
                   sensitivity |-> candidate.sensitivity]}
    /\ UNCHANGED <<rows, copies, envelopes, proposals, knowledge, approvals, verdict, count>>

\* _proposal_errors is empty
ProposalPasses(proposal, allowed) ==
    proposal.complete /\ proposal.sensitivity # "secret" /\ proposal.scope \in allowed

\* KnowledgeRecordProposalBuilder.propose_from_step validates against the
\* document's own scope.
Propose(proposal) ==
    /\ Extractable(proposal.step)
    /\ proposals' = proposals \cup
          {[proposal |-> proposal,
            status |-> IF ProposalPasses(proposal, {proposal.scope}) THEN "approved" ELSE "rejected"]}
    /\ UNCHANGED <<rows, copies, envelopes, memory, knowledge, approvals, verdict, count>>

\* knowledge_ingest_request_from_proposal; the checks of the Worker come on top.
IngestKnowledge(artifact) ==
    /\ artifact.status = "approved"
    /\ knowledge' = knowledge \cup {artifact.proposal}
    /\ UNCHANGED <<rows, copies, envelopes, memory, proposals, approvals, verdict, count>>

Next ==
    \/ \E step \in Steps, scope \in Scopes, class \in Classes, s \in Sensitivities,
          policy \in Policies, content \in Contents : Extract(step, scope, class, s, policy, content)
    \/ \E step \in Steps, scope \in Scopes, class \in Classes, s \in Sensitivities,
          content \in Contents : Reflect(step, scope, class, s, content)
    \/ \E candidate \in Held, content \in Contents \cup {NoContent}, authority \in Authorities :
          Validate(candidate, content, authority)
    \/ LoadRows
    \/ \E candidate \in Held : Submit(candidate)
    \/ \E proposal \in Proposals : Propose(proposal)
    \/ \E artifact \in proposals : IngestKnowledge(artifact)

Spec == Init /\ [][Next]_vars

-----------------------------------------------------------------------------

\* Only procedural lessons reach memory, although the verdict on a row may have
\* been reached on another record with the same id: submission checks the class
\* of the row itself (memory_feedback.py).
OnlyLessonsIngested == \A m \in memory : m.class = "procedural_lesson"

\* Whatever is in memory was approved, under its id and scope, by a validator
\* that allowed the scope and saw a procedural lesson that is not secret.
IngestedWasJudged ==
    \A m \in memory : \E a \in approvals :
       /\ a.candidate.id = m.id /\ m.scope \in a.scopes
       /\ a.candidate.class = "procedural_lesson" /\ a.candidate.sensitivity # "secret"

\* A step adds to memory only under ids whose latest verdict is an approval.
SubmitsApproved ==
    \A id \in DOMAIN verdict :
       {m \in memory' : m.id = id} # {m \in memory : m.id = id} => verdict[id] = "approved"

\* No ingest request is built for a secret document, whatever became of it in
\* the proposal artifact.
NoSecretKnowledge == \A k \in knowledge : k.sensitivity # "secret"

----
(* Statements of the documents that the code does not keep. *)

\* An approved row satisfies the record-level requirements of the gate.
ApprovedRowsQualify ==
    \A i \in DOMAIN rows : rows[i].policy_status = "approved" =>
       rows[i].class = "procedural_lesson" /\ rows[i].sensitivity # "secret"
====
