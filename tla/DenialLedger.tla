---- MODULE DenialLedger ----
(***************************************************************************)
(* The policy denial ledger and the scope closure beside it: denials are   *)
(* recorded, retired, and looked up before the same request is tried       *)
(* again; the closure says which scopes lie below a denied one.            *)
(***************************************************************************)
EXTENDS Naturals, Sequences, FiniteSets

CONSTANTS
    Requests,   \* [profile, principal, predicate, kind, id, policy, version]
    Entries,    \* closure entries [version, kind, ancestor, descendant, policy]
    MaxRecords  \* bound: records in the ledger

ScopeKinds == {"data_scope", "knowledge_scope", "memory_scope"}
DeniableKinds == ScopeKinds \cup {"tool", "policy", "validator", "budget", "failure_policy"}

\* validate_policy_denial_record: every other record raises.
ValidRequest(q) ==
    /\ DOMAIN q = {"profile", "principal", "predicate", "kind", "id", "policy", "version"}
    /\ q.kind \in DeniableKinds

ASSUME DenialAssumption ==
    /\ \A q \in Requests : ValidRequest(q)
    /\ \A e \in Entries : e.kind \in ScopeKinds

VARIABLES
    ledger,    \* the records, oldest first: [request, status]
    closure,   \* the closure entries
    answer     \* the last lookup

vars == <<ledger, closure, answer>>

NoMatch == [denied |-> FALSE, by |-> "none", record |-> 0]
NoAnswer == [asked |-> FALSE]

Init == ledger = <<>> /\ closure = {} /\ answer = NoAnswer

\* build_policy_denial_record
RecordDenial(q) ==
    /\ Len(ledger) < MaxRecords
    /\ ledger' = Append(ledger, [request |-> q, status |-> "active"])
    /\ answer' = NoAnswer
    /\ UNCHANGED closure

Retire(i, status) ==
    /\ ledger[i].status = "active"
    /\ ledger' = [ledger EXCEPT ![i].status = status]
    /\ answer' = NoAnswer
    /\ UNCHANGED closure

AddEntry(e) ==
    /\ e \notin closure
    /\ closure' = closure \cup {e}
    /\ answer' = NoAnswer
    /\ UNCHANGED ledger

----
(* lookup *)

\* The fingerprint covers every field of a request but the identifier of the record.
Fingerprint(q) == q

DescendantsFor(kind, ancestor, policy, version) ==
    {e.descendant : e \in {x \in closure : x.kind = kind /\ x.ancestor = ancestor /\ x.policy = policy /\ x.version = version}}

IsDescendant(kind, ancestor, requested, policy, version) ==
    ancestor = requested \/ requested \in DescendantsFor(kind, ancestor, policy, version)

ScopeDenialSubsumesMutant(d, q) ==
    /\ d.kind = q.kind /\ d.kind \in ScopeKinds
    /\ d.profile = q.profile /\ d.policy = q.policy
    /\ IsDescendant(d.kind, d.id, q.id, d.policy, d.version)
ScopeDenialSubsumes(d, q) ==
    /\ d.kind = q.kind /\ d.kind \in ScopeKinds
    /\ d.profile = q.profile /\ d.principal = q.principal /\ d.policy = q.policy
    /\ IsDescendant(d.kind, d.id, q.id, d.policy, d.version)

Exact(i, q) == Fingerprint(ledger[i].request) = Fingerprint(q)
Matches(i, q) == Exact(i, q) \/ ScopeDenialSubsumes(ledger[i].request, q)

\* The first active record that matches decides.
FirstMatchMutant(q) ==
    LET hits == {i \in DOMAIN ledger : Matches(i, q) /\ \A j \in 1 .. i : ledger[j].status = "active"}
    IN  IF hits = {} THEN NoMatch
        ELSE LET i == CHOOSE x \in hits : \A y \in hits : x <= y
             IN  [denied |-> TRUE, by |-> IF Exact(i, q) THEN "fingerprint" ELSE "scope_closure", record |-> i]
FirstMatch(q) ==
    LET hits == {i \in DOMAIN ledger : ledger[i].status = "active" /\ Matches(i, q)}
    IN  IF hits = {} THEN NoMatch
        ELSE LET i == CHOOSE x \in hits : \A y \in hits : x <= y
             IN  [denied |-> TRUE, by |-> IF Exact(i, q) THEN "fingerprint" ELSE "scope_closure", record |-> i]

Lookup(q) ==
    /\ answer' = [asked |-> TRUE, request |-> q, result |-> FirstMatch(q)]
    /\ UNCHANGED <<ledger, closure>>

Next ==
    \/ \E q \in Requests : RecordDenial(q) \/ Lookup(q)
    \/ \E i \in DOMAIN ledger, s \in {"expired", "superseded"} : Retire(i, s)
    \/ \E e \in Entries : AddEntry(e)

Spec == Init /\ [][Next]_vars

----
(* Properties *)

\* A request is refused only on a live denial of the same profile, principal and policy, for the same
\* authority or for a scope above it.
DeniedOnlyOnGrounds ==
    answer.asked /\ answer.result.denied =>
       LET d == ledger[answer.result.record]  q == answer.request IN
       /\ d.status = "active"
       /\ <<d.request.profile, d.request.principal, d.request.policy, d.request.kind>> = <<q.profile, q.principal, q.policy, q.kind>>
       /\ \/ d.request.id = q.id
          \/ \E e \in closure : e.kind = q.kind /\ e.ancestor = d.request.id /\ e.descendant = q.id /\ e.policy = q.policy

\* Whatever else the ledger holds, retired copies of the same denial included, a request that has a
\* live record is refused without being tried again, and so is a scope below it.
KnownDenialsRepeat ==
    answer.asked =>
       \A i \in DOMAIN ledger :
          LET d == ledger[i].request  q == answer.request IN
          /\ ledger[i].status = "active"
          /\ \/ d = q
             \/ \E e \in closure : d = [q EXCEPT !.id = e.ancestor] /\ e.descendant = q.id /\ e.kind = q.kind
                                   /\ e.policy = q.policy /\ e.version = q.version
          => answer.result.denied

----
(* Statements of the documents that the code does not keep. *)

\* "Stale closure versions do not subsume new requests."
StaleClosureDoesNotSubsume ==
    answer.asked /\ answer.result.by = "scope_closure" =>
       ledger[answer.result.record].request.version = answer.request.version
====
