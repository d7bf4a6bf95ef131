---------------------------- MODULE PolicyProofs ----------------------------
(***************************************************************************)
(* What decides about a run before and beside it, for every value of the   *)
(* constants: the policy denial ledger, which refuses on grounds and does  *)
(* not forget a live denial behind retired ones; the safety compiler,      *)
(* whose decision is the strongest that applies; the candidates for        *)
(* missing capabilities, which follow the refusals; the authority of       *)
(* tenants, in which composer and enforcer agree; and the staff of the     *)
(* office, whose roles and sessions follow what was asked and what was     *)
(* revoked.  The parts share no state.  The ledger is extended, the others *)
(* are instantiated.                                                       *)
(***************************************************************************)
EXTENDS DenialLedger, FiniteSetTheorems, WellFoundedInduction, TLAPS

CONSTANTS
    Deltas, UnknownDelta, Priors, Reviews, Pairs, MaxPairs,                        \* SafetyCompiler
    Profiles, Adapters, Requested, MaxInvocations,                                 \* CapabilityGaps
    Jobs, Tasks, Tenant, Slug, Area, Hostname, Member, Principal, Roles, Tools,    \* TenantAuthority
    Sources, Scopes, Modes, SourceTenant, Derived, Grants, MaxChanges

VARIABLES
    guard, edits,
    profile, counters, refused, gaps, events, calls,
    plane, job, changes

Guard == INSTANCE SafetyCompiler
Gaps == INSTANCE CapabilityGaps
Tenants == INSTANCE TenantAuthority

-----------------------------------------------------------------------------
(* The denial ledger.                                                      *)

Records == [request : Requests, status : {"active", "expired", "superseded"}]

Hits(q) == {i \in DOMAIN ledger : ledger[i].status = "active" /\ Matches(i, q)}

\* What a lookup of q owes its caller.
Right(q, r) ==
    /\ Hits(q) = {} => r = NoMatch
    /\ Hits(q) # {} => r.denied /\ r.record \in Hits(q)

\* Every change of ledger or closure drops the answer, so an answer that is there is
\* right for the ledger and the closure as they are now.
DInv ==
    /\ ledger \in Seq(Records)
    /\ closure \subseteq Entries
    /\ answer.asked => answer.request \in Requests /\ Right(answer.request, answer.result)

\* A set of numbers that is not empty has a least one.
LEMMA LeastLemma ==
  ASSUME NEW T, T \subseteq Nat, T # {}
  PROVE  \E x \in T : \A y \in T : x <= y
<1> DEFINE R == OpToRel(<, Nat)
<1>1. IsWellFoundedOn(R, Nat)
  BY NatLessThanWellFounded, Zenon
<1>2. \A a, b \in Nat : a < b => <<a, b>> \in R
  BY Zenon DEF OpToRel
<1> HIDE DEF R
<1>3. \E x \in T : \A y \in T : ~ (<<y, x>> \in R)
  BY <1>1, WFMin, Zenon
<1>4. PICK x \in T : \A y \in T : ~ (<<y, x>> \in R)
  BY <1>3, Zenon
<1>5. \A y \in T : ~ (y < x)
  BY <1>2, <1>4, Zenon
<1>6. \A y \in T : x <= y
  BY <1>5
<1>. QED BY <1>6, Zenon

\* The lookup refuses exactly when a live record matches, and names such a record.
LEMMA FirstMatchLemma ==
  ASSUME DInv, NEW q
  PROVE  Right(q, FirstMatch(q))
<1>1. CASE Hits(q) = {}
  BY <1>1, Zenon DEF FirstMatch, Hits, Right
<1>2. CASE Hits(q) # {}
  <2> DEFINE i == CHOOSE x \in Hits(q) : \A y \in Hits(q) : x <= y
             r == [denied |-> TRUE, by |-> IF Exact(i, q) THEN "fingerprint" ELSE "scope_closure",
                   record |-> i]
  <2>1. Hits(q) \subseteq Nat
    BY DEF Hits, DInv
  <2>2. i \in Hits(q)
    BY <1>2, <2>1, LeastLemma, Zenon
  <2>3. FirstMatch(q) = r
    BY <1>2, Zenon DEF FirstMatch, Hits
  <2>4. r.denied /\ r.record = i
    BY Zenon
  <2> HIDE DEF i, r
  <2>. QED BY <1>2, <2>2, <2>3, <2>4, Zenon DEF Right
<1>. QED BY <1>1, <1>2, Zenon

-----------------------------------------------------------------------------
(* The invariant.                                                          *)

\* The empty ledger.
LEMMA InitLemma == Init => DInv
  BY DEF Init, DInv, NoAnswer

\* Records are appended and retired, closure entries added and removed, lookups answered.
LEMMA StepLemma == DInv /\ [Next]_vars => DInv'
<1> SUFFICES ASSUME DInv, [Next]_vars PROVE DInv'
  BY Zenon
<1>1. ASSUME NEW q \in Requests, RecordDenial(q) PROVE DInv'
  <2>1. [request |-> q, status |-> "active"] \in Records
    BY Zenon DEF Records
  <2>2. ledger' \in Seq(Records)
    BY <1>1, <2>1 DEF RecordDenial, DInv
  <2>3. ~answer'.asked
    BY <1>1, Zenon DEF RecordDenial, NoAnswer
  <2>. QED BY <1>1, <2>2, <2>3, Zenon DEF RecordDenial, DInv
<1>2. ASSUME NEW q \in Requests, Lookup(q) PROVE DInv'
  <2>1. PICK r : r = FirstMatch(q)
    BY Zenon
  <2>2. answer' = [asked |-> TRUE, request |-> q, result |-> r] /\ UNCHANGED <<ledger, closure>>
    BY <1>2, <2>1, Zenon DEF Lookup
  <2>3. Right(q, r)
    BY <2>1, FirstMatchLemma, Zenon
  <2>4. Right(q, r)'
    BY <2>2, <2>3 DEF Right, Hits, Matches, Exact, ScopeDenialSubsumes, IsDescendant, DescendantsFor
  <2>5. answer'.request = q /\ answer'.result = r
    BY <2>2, Zenon
  <2>6. Right(answer.request, answer.result)'
    BY <2>4, <2>5 DEF Right, Hits, Matches, Exact, ScopeDenialSubsumes, IsDescendant, DescendantsFor
  <2>. QED BY <2>2, <2>5, <2>6, Zenon DEF DInv
<1>3. ASSUME NEW i \in DOMAIN ledger, NEW s \in {"expired", "superseded"}, Retire(i, s)
      PROVE  DInv'
  <2>1. ledger' \in Seq(Records)
    <3>1. PICK d \in Records : d = ledger[i]
      BY DEF DInv
    <3>2. [d EXCEPT !.status = s] \in Records
      BY Zenon DEF Records
    <3>3. PICK e \in Records : e = [d EXCEPT !.status = s]
      BY <3>2, Zenon
    <3>4. ledger' = [ledger EXCEPT ![i] = e]
      BY <1>3, <3>1, <3>3, Zenon DEF Retire
    <3>. QED BY <3>4 DEF DInv
  <2>2. ~answer'.asked
    BY <1>3, Zenon DEF Retire, NoAnswer
  <2>. QED BY <1>3, <2>1, <2>2, Zenon DEF Retire, DInv
<1>4. ASSUME NEW e \in Entries, AddEntry(e) PROVE DInv'
  <2>1. ~answer'.asked
    BY <1>4, Zenon DEF AddEntry, NoAnswer
  <2>. QED BY <1>4, <2>1, Zenon DEF AddEntry, DInv
<1>5. CASE UNCHANGED vars
  <2>1. UNCHANGED <<ledger, closure, answer>>
    BY <1>5, Zenon DEF vars
  <2>2. ASSUME Right(answer.request, answer.result)
        PROVE  Right(answer.request, answer.result)'
    <3>1. PICK q, r : q = answer.request /\ r = answer.result
      BY Zenon
    <3>2. Right(q, r)
      BY <2>2, <3>1, Zenon
    <3>3. Right(q, r)'
      BY <2>1, <3>2 DEF Right, Hits, Matches, Exact, ScopeDenialSubsumes, IsDescendant,
                        DescendantsFor
    <3>4. q = answer'.request /\ r = answer'.result
      BY <2>1, <3>1, Zenon
    <3>. QED BY <3>3, <3>4 DEF Right, Hits, Matches, Exact, ScopeDenialSubsumes, IsDescendant,
                                DescendantsFor
  <2>. QED BY <2>1, <2>2, Zenon DEF DInv
<1>. QED BY <1>1, <1>2, <1>3, <1>4, <1>5, Zenon DEF Next

\* The invariant of the ledger.
LEMMA Invariance == Spec => []DInv
  BY InitLemma, StepLemma, PTL DEF Spec

-----------------------------------------------------------------------------
(* What follows.                                                           *)

\* PolicyDenialLedger.lookup refuses only on a live record of the same profile,
\* principal, policy and kind, for the same authority or a scope above it.
THEOREM DenialsAreGrounded == Spec => []DeniedOnlyOnGrounds
<1>1. ASSUME DInv PROVE DeniedOnlyOnGrounds
  <2> SUFFICES ASSUME answer.asked, answer.result.denied
               PROVE  LET d == ledger[answer.result.record]  q == answer.request IN
                      /\ d.status = "active"
                      /\ <<d.request.profile, d.request.principal, d.request.policy, d.request.kind>>
                           = <<q.profile, q.principal, q.policy, q.kind>>
                      /\ \/ d.request.id = q.id
                         \/ \E e \in closure : /\ e.kind = q.kind /\ e.ancestor = d.request.id
                                               /\ e.descendant = q.id /\ e.policy = q.policy
    BY Zenon DEF DeniedOnlyOnGrounds
  <2>1. PICK q : q = answer.request
    BY Zenon
  <2>2. Right(q, answer.result)
    BY <1>1, <2>1, Zenon DEF DInv
  <2>3. Hits(q) # {}
    BY <2>2 DEF Right, NoMatch
  <2>4. PICK i \in Hits(q) : i = answer.result.record
    BY <2>2, <2>3, Zenon DEF Right
  <2>5. ledger[i].status = "active" /\ Matches(i, q)
    BY Zenon DEF Hits
  <2>6. CASE ledger[i].request = q
    BY <2>1, <2>4, <2>5, <2>6, Zenon
  <2>7. CASE ScopeDenialSubsumes(ledger[i].request, q)
    <3>1. PICK d : d = ledger[i].request
      BY Zenon
    <3>2. /\ d.kind = q.kind /\ d.profile = q.profile
          /\ d.principal = q.principal /\ d.policy = q.policy
          /\ d.id = q.id \/ q.id \in DescendantsFor(d.kind, d.id, d.policy, d.version)
      BY <2>7, <3>1, Zenon DEF ScopeDenialSubsumes, IsDescendant
    <3>3. d.id = q.id \/ \E e \in closure : /\ e.kind = q.kind /\ e.ancestor = d.id
                                            /\ e.descendant = q.id /\ e.policy = q.policy
      BY <3>2, Zenon DEF DescendantsFor
    <3>. QED BY <2>1, <2>4, <2>5, <3>1, <3>2, <3>3, Zenon
  <2>. QED BY <2>5, <2>6, <2>7, Zenon DEF Matches, Exact, Fingerprint
<1>2. DInv => DeniedOnlyOnGrounds
  BY <1>1, Zenon
<1>. QED BY <1>2, Invariance, PTL

\* A request with a live record, or below one in the closure of its version, is
\* refused whatever stands before that record in the ledger.
THEOREM DenialsAreKept == Spec => []KnownDenialsRepeat
<1>1. ASSUME DInv PROVE KnownDenialsRepeat
  <2> SUFFICES ASSUME answer.asked, NEW i \in DOMAIN ledger, ledger[i].status = "active",
                      \/ ledger[i].request = answer.request
                      \/ \E e \in closure :
                           /\ ledger[i].request = [answer.request EXCEPT !.id = e.ancestor]
                           /\ e.descendant = answer.request.id /\ e.kind = answer.request.kind
                           /\ e.policy = answer.request.policy
                           /\ e.version = answer.request.version
               PROVE  answer.result.denied
    BY Zenon DEF KnownDenialsRepeat
  <2>1. PICK q \in Requests : q = answer.request
    BY <1>1, Zenon DEF DInv
  <2>2. Matches(i, q)
    <3>1. CASE ledger[i].request = q
      BY <3>1, Zenon DEF Matches, Exact, Fingerprint
    <3>2. CASE \E e \in closure :
                 /\ ledger[i].request = [q EXCEPT !.id = e.ancestor]
                 /\ e.descendant = q.id /\ e.kind = q.kind
                 /\ e.policy = q.policy /\ e.version = q.version
      <4>1. PICK e \in closure :
                 /\ ledger[i].request = [q EXCEPT !.id = e.ancestor]
                 /\ e.descendant = q.id /\ e.kind = q.kind
                 /\ e.policy = q.policy /\ e.version = q.version
        BY <3>2, Zenon
      <4>2. PICK d : d = ledger[i].request
        BY Zenon
      <4>3. DOMAIN q = {"profile", "principal", "predicate", "kind", "id", "policy", "version"}
        BY DenialAssumption, Zenon DEF ValidRequest
      <4>4. /\ d.kind = q.kind /\ d.profile = q.profile /\ d.principal = q.principal
            /\ d.policy = q.policy /\ d.version = q.version /\ d.id = e.ancestor
        BY <4>1, <4>2, <4>3, Zenon
      <4>5. d.kind \in ScopeKinds
        BY <1>1, <4>1, <4>4, DenialAssumption DEF DInv, ValidRequest
      <4>6. q.id \in DescendantsFor(d.kind, d.id, d.policy, d.version)
        BY <4>1, <4>4 DEF DescendantsFor
      <4>7. ScopeDenialSubsumes(d, q)
        BY <4>4, <4>5, <4>6, Zenon DEF ScopeDenialSubsumes, IsDescendant
      <4>. QED BY <4>2, <4>7, Zenon DEF Matches
    <3>. QED BY <2>1, <3>1, <3>2, Zenon
  <2>3. Hits(q) # {}
    BY <2>2, Zenon DEF Hits
  <2>. QED BY <1>1, <2>1, <2>3, Zenon DEF DInv, Right
<1>2. DInv => KnownDenialsRepeat
  BY <1>1, Zenon
<1>. QED BY <1>2, Invariance, PTL

-----------------------------------------------------------------------------
(* The safety compiler.                                                    *)

\* The strongest of some gates exists and is one of them.
LEMMA StrongestLemma ==
  ASSUME NEW pairs, NEW matched, matched # {},
         \A i \in matched : pairs[i].gate \in Guard!BlockingGates
  PROVE  /\ Guard!StrongestGate(pairs, matched) \in Guard!BlockingGates
         /\ \A i \in matched : Guard!Priority[pairs[i].gate] <= Guard!Priority[Guard!StrongestGate(pairs, matched)]
<1> DEFINE gates == {pairs[i].gate : i \in matched}
<1>1. gates # {} /\ gates \subseteq {"freeze_prior", "needs_more_evidence", "needs_human_review", "reject"}
  BY Zenon DEF Guard!BlockingGates, Guard!Priority
<1>2. /\ Guard!Priority["freeze_prior"] = 1 /\ Guard!Priority["needs_more_evidence"] = 2
      /\ Guard!Priority["needs_human_review"] = 3 /\ Guard!Priority["reject"] = 4
  BY Zenon DEF Guard!Priority
<1> HIDE DEF gates
<1>3. \E g \in gates : \A h \in gates : Guard!Priority[h] <= Guard!Priority[g]
  <2>1. CASE "reject" \in gates
    BY <1>1, <1>2, <2>1
  <2>2. CASE "reject" \notin gates /\ "needs_human_review" \in gates
    BY <1>1, <1>2, <2>2
  <2>3. CASE gates \subseteq {"freeze_prior", "needs_more_evidence"} /\ "needs_more_evidence" \in gates
    BY <1>1, <1>2, <2>3
  <2>4. CASE gates \subseteq {"freeze_prior"}
    <3>1. "freeze_prior" \in gates
      BY <1>1, <2>4, Zenon
    <3>. QED BY <1>2, <2>4, <3>1
  <2>. QED BY <1>1, <2>1, <2>2, <2>3, <2>4, Zenon
<1>4. \E g \in gates : \A i \in matched : Guard!Priority[pairs[i].gate] <= Guard!Priority[g]
  BY <1>3, Zenon DEF gates
<1>5. /\ Guard!StrongestGate(pairs, matched) \in gates
      /\ \A i \in matched : Guard!Priority[pairs[i].gate] <= Guard!Priority[Guard!StrongestGate(pairs, matched)]
  BY <1>4, Zenon DEF Guard!StrongestGate, gates
<1>. QED BY <1>1, <1>5, Zenon DEF Guard!BlockingGates, Guard!Priority

\* Only a policy that was validated is ever installed, and an editor's new order keeps it valid.
LEMMA GuardStep ==
  Guard!PolicyIsValid(guard) /\ [Guard!Next]_(Guard!vars) => Guard!PolicyIsValid(guard)'
<1>. SUFFICES ASSUME Guard!PolicyIsValid(guard), [Guard!Next]_(Guard!vars)
              PROVE  Guard!PolicyIsValid(guard)'
  BY Zenon
<1>1. CASE UNCHANGED guard
  BY <1>1, Zenon DEF Guard!PolicyIsValid
<1>2. ASSUME NEW pairs, Guard!InstallPolicy(pairs) PROVE Guard!PolicyIsValid(guard)'
  BY <1>1, <1>2, Zenon DEF Guard!InstallPolicy, Guard!PolicyIsValid
<1>3. CASE Guard!Reorder
  <2>1. PICK i \in DOMAIN guard, j \in DOMAIN guard : guard' = [guard EXCEPT ![i] = guard[j], ![j] = guard[i]]
    BY <1>3, Zenon DEF Guard!Reorder
  <2>2. DOMAIN guard' = DOMAIN guard /\ \A k \in DOMAIN guard : \E l \in DOMAIN guard : guard'[k] = guard[l]
    BY <2>1, Zenon
  <2>3. guard' # <<>>
    BY <2>2
  <2>. QED BY <2>2, <2>3, Zenon DEF Guard!PolicyIsValid
<1>. QED BY <1>1, <1>2, <1>3, Zenon DEF Guard!Next, Guard!AddPair, Guard!vars

\* The compiled policy is valid at every step.
LEMMA GuardInvariance == Guard!Spec => []Guard!PolicyIsValid(guard)
<1>1. Guard!Init => Guard!PolicyIsValid(guard)
  BY Zenon DEF Guard!Init
<1>. QED BY <1>1, GuardStep, PTL DEF Guard!Spec

\* A prior that matches pairs is blocked at least as strongly as each of them demands, for any
\* priors, reviews and policies and any order of the pairs: _strongest_gate decides, not the place.
THEOREM StrongestPairDecides == Guard!Spec => []Guard!DecisionIsStrongest
<1>1. ASSUME Guard!PolicyIsValid(guard) PROVE Guard!DecisionIsStrongest
  <2>. SUFFICES ASSUME NEW prior \in Priors, NEW reviewed \in Reviews, NEW i \in DOMAIN guard,
                       Guard!Matches(guard[i], prior)
                PROVE  LET d == Guard!Compile(guard, prior, reviewed) IN
                       ~d.allowed /\ Guard!Priority[d.decision] >= Guard!Priority[guard[i].gate]
    BY Zenon DEF Guard!DecisionIsStrongest
  <2>1. PICK matched : matched = Guard!MatchingPairs(guard, prior)
    BY Zenon
  <2>2. i \in matched /\ \A k \in matched : guard[k].gate \in Guard!BlockingGates
    BY <1>1, <2>1, Zenon DEF Guard!MatchingPairs, Guard!PolicyIsValid
  <2>3. PICK g : g = Guard!StrongestGate(guard, matched)
    BY Zenon
  <2>4. g \in Guard!BlockingGates /\ Guard!Priority[guard[i].gate] <= Guard!Priority[g]
    BY <2>2, <2>3, StrongestLemma, Zenon
  <2>5. prior.deltas # {}
    BY Zenon DEF Guard!Matches
  <2>6. Guard!Compile(guard, prior, reviewed) = [decision |-> g, allowed |-> FALSE]
    BY <2>1, <2>2, <2>3, <2>5, Zenon DEF Guard!Compile
  <2>7. Guard!Priority[g] \in Nat /\ Guard!Priority[guard[i].gate] \in Nat
    BY <2>2, <2>4 DEF Guard!BlockingGates, Guard!Priority
  <2>. QED BY <2>4, <2>6, <2>7
<1>2. Guard!PolicyIsValid(guard) => Guard!DecisionIsStrongest
  BY <1>1, Zenon
<1>. QED BY <1>2, GuardInvariance, PTL

\* contrastive_pair_coverage_report is honest: what it does not list as a gap is blocked in the
\* contexts of some pair even after a review.
THEOREM CoveredDeltasAreBlocked == Guard!Spec => []Guard!CoverageIsHonest
<1>1. Guard!CoverageIsHonest
  <2>. SUFFICES ASSUME NEW delta \in Deltas \ Guard!CoverageGaps(guard)
                PROVE  \E i \in DOMAIN guard :
                         ~Guard!Compile(guard, [source |-> guard[i].positive, target |-> guard[i].forbidden,
                                                deltas |-> {delta}], {"reviewed"}).allowed
    BY Zenon DEF Guard!CoverageIsHonest
  <2>1. PICK i \in DOMAIN guard : delta \in guard[i].deltas
    BY Zenon DEF Guard!CoverageGaps
  <2>2. PICK prior : prior = [source |-> guard[i].positive, target |-> guard[i].forbidden, deltas |-> {delta}]
    BY Zenon
  <2>3. Guard!Matches(guard[i], prior)
    BY <2>1, <2>2, Zenon DEF Guard!Matches, Guard!ContextContains
  <2>4. i \in Guard!MatchingPairs(guard, prior) /\ prior.deltas # {}
    BY <2>2, <2>3, Zenon DEF Guard!MatchingPairs
  <2>5. ~Guard!Compile(guard, prior, {"reviewed"}).allowed
    BY <2>4, Zenon DEF Guard!Compile
  <2>. QED BY <2>2, <2>5, Zenon
<1>. QED BY <1>1, PTL

-----------------------------------------------------------------------------
(* Capability gaps.                                                        *)

\* What the enforcer raises for an invocation.
Codes == {"tool_not_in_runtime_profile", "tool_risk_exceeds_profile", "policy_not_in_runtime_profile",
          "data_scope_not_in_runtime_profile", "max_duration", "max_tool_calls", "max_data_reads"}
Budgets == {"max_duration", "max_tool_calls", "max_data_reads"}
Errors == [stop : {"policy_denied"}, code : Codes \ Budgets]
            \cup {[stop |-> limit, code |-> limit] : limit \in Budgets}
Refusal(error) == error \in Errors \cup {Gaps!NoError}

Links == {<<>>} \cup (Codes \X (Codes \cup Requested))

\* Refused accesses and events stand side by side, and a candidate is kept under what it is about.
GapsInv ==
    /\ refused \in Seq([tool : Requested, error : Errors])
    /\ events \in Seq([tool : Requested, reason : Codes, stop : Budgets \cup {"policy_denied"}, link : Links])
    /\ Gaps!DenialsAreRecorded
    /\ Gaps!GapsFollowDenials
    /\ \A g \in DOMAIN gaps : g = <<gaps[g].predicate, gaps[g].capability>>

\* The checks of the enforcer raise one of these errors, or none.
LEMMA ChecksLemma ==
  ASSUME NEW checks, NEW n \in Nat, DOMAIN checks = 1..n,
         \A k \in 1..n : Refusal(checks[k])
  PROVE  Refusal(Gaps!FirstError(checks))
<1> DEFINE T == {k \in 1..n : checks[k] # Gaps!NoError}
<1>1. T \subseteq Nat
  OBVIOUS
<1>2. CASE T = {}
  BY <1>2, Zenon DEF Gaps!FirstError, Refusal
<1>3. CASE T # {}
  <2>1. PICK x \in T : \A y \in T : x <= y
    BY <1>1, <1>3, LeastLemma, Zenon
  <2>2. /\ checks[x] # Gaps!NoError
        /\ \A j \in 1..(x - 1) : checks[j] = Gaps!NoError
    BY <2>1
  <2> DEFINE i == CHOOSE i \in DOMAIN checks :
                    /\ checks[i] # Gaps!NoError
                    /\ \A j \in 1..(i - 1) : checks[j] = Gaps!NoError
  <2>3. i \in DOMAIN checks
    BY <2>1, <2>2, Zenon
  <2>4. Gaps!FirstError(checks) = checks[i]
    BY <1>3, Zenon DEF Gaps!FirstError
  <2>. QED BY <2>3, <2>4, Zenon
<1>. QED BY <1>2, <1>3, Zenon

\* A refused increment raises the limit's own error.
LEMMA IncrementLemma ==
  ASSUME NEW p, NEW c
  PROVE  /\ Refusal(Gaps!IncrementLimit(p, c, "tool_calls", "max_tool_calls").error)
         /\ Refusal(Gaps!IncrementLimit(p, c, "data_reads", "max_data_reads").error)
  BY Zenon DEF Gaps!IncrementLimit, Gaps!LimitExceeded, Refusal, Errors, Budgets

\* An invocation ends in one of these errors, or in none.
LEMMA InvocationLemma ==
  ASSUME NEW p, NEW c, NEW tool, NEW late
  PROVE  Refusal(Gaps!RecordToolInvocation(p, c, tool, late).error)
<1>1. Refusal(Gaps!ToolAccess(p, tool, late))
  <2> DEFINE k1 == Gaps!CheckDuration(late)
             k2 == Gaps!Unless(tool \in p.tools, Gaps!Denied("tool_not_in_runtime_profile"))
             k3 == Gaps!Unless(Gaps!RiskRank(Gaps!ToolRiskLevel(tool)) <= Gaps!RiskRank(p.risk_level),
                               Gaps!Denied("tool_risk_exceeds_profile"))
             k4 == Gaps!Unless(Gaps!ToolRequiredPolicies(tool) \subseteq p.policies,
                               Gaps!Denied("policy_not_in_runtime_profile"))
             checks == <<k1, k2, k3, k4>>
  <2>1. Refusal(k1)
    BY Zenon DEF Gaps!CheckDuration, Gaps!Unless, Gaps!LimitExceeded, Refusal, Errors, Budgets
  <2>2. Refusal(k2) /\ Refusal(k3) /\ Refusal(k4)
    BY Zenon DEF Gaps!Unless, Gaps!Denied, Refusal, Errors, Codes, Budgets
  <2> HIDE DEF k1, k2, k3, k4
  <2>3. DOMAIN checks = 1..4 /\ \A k \in 1..4 : checks[k] \in {k1, k2, k3, k4}
    OBVIOUS
  <2>4. \A k \in 1..4 : Refusal(checks[k])
    BY <2>1, <2>2, <2>3, Zenon
  <2> HIDE DEF checks
  <2>5. Refusal(Gaps!FirstError(checks))
    BY <2>3, <2>4, ChecksLemma, Zenon
  <2>. QED BY <2>5, Zenon DEF Gaps!ToolAccess, checks, k1, k2, k3, k4
<1>2. \A d : Refusal(Gaps!CountDataRead(p, d, tool).error)
  <2>1. Refusal(Gaps!NoError) /\ Refusal(Gaps!Denied("data_scope_not_in_runtime_profile"))
    BY Zenon DEF Gaps!Denied, Refusal, Errors, Codes, Budgets
  <2>. QED BY <2>1, IncrementLemma, Zenon DEF Gaps!CountDataRead
<1>. QED BY <1>1, <1>2, IncrementLemma, Zenon DEF Gaps!RecordToolInvocation

\* A refused access leaves an event, with a candidate or without.
LEMMA RecordLemma ==
  ASSUME GapsInv, NEW tool \in Requested, NEW error \in Errors,
         refused' = Append(refused, [tool |-> tool, error |-> error]),
         Gaps!RecordDeniedAccess(tool, error)
  PROVE  GapsInv'
<1> DEFINE c == Gaps!Candidate(error, tool)
           id == Gaps!CandidateId(c)
           Event(link) == [tool |-> tool, reason |-> error.code, stop |-> error.stop, link |-> link]
<1>1. /\ error.code \in Codes /\ error.stop \in Budgets \cup {"policy_denied"}
      /\ error.code \in Gaps!EligiblePredicates => error.stop \in Gaps!StopReasons
  BY DEF Errors, Codes, Budgets, Gaps!EligiblePredicates, Gaps!StopReasons
<1>2. /\ c.predicate = error.code /\ c.stop = error.stop /\ c.kind = Gaps!CapabilityKind(error.code)
      /\ c.capability = Gaps!CapabilityId(error.code, tool)
      /\ c.status = "review_required" /\ ~c.executable /\ c.evidence = {tool}
  BY Zenon DEF Gaps!Candidate
<1>3. c.capability \in Codes \cup Requested
  BY <1>1, <1>2, Zenon DEF Gaps!CapabilityId
<1>4. Gaps!IsEligibleDenial(error.code, tool)
        => Gaps!CandidateHolds(c) /\ (c.kind = "tool" => c.capability \in Adapters)
  BY <1>1, <1>2, Zenon DEF Gaps!IsEligibleDenial, Gaps!CandidateHolds
<1>5. id = <<c.predicate, c.capability>> /\ id # <<>> /\ id \in Links
  BY <1>1, <1>2, <1>3, Zenon DEF Gaps!CandidateId, Links
<1>6. \/ events' = Append(events, Event(<<>>)) /\ UNCHANGED gaps
      \/ /\ events' = Append(events, Event(id))
         /\ gaps' = [i \in DOMAIN gaps \cup {id} |-> IF i = id THEN c ELSE gaps[i]]
         /\ c.kind = "tool" => c.capability \in Adapters
  BY <1>4, Zenon DEF Gaps!RecordDeniedAccess, Gaps!Capture
<1> HIDE DEF c, id
<1>7. refused' \in Seq([tool : Requested, error : Errors])
  BY DEF GapsInv
<1>8. ASSUME NEW link \in Links, events' = Append(events, Event(link))
      PROVE  /\ events' \in Seq([tool : Requested, reason : Codes, stop : Budgets \cup {"policy_denied"}, link : Links])
             /\ Gaps!DenialsAreRecorded'
             /\ DOMAIN events' = DOMAIN events \cup {Len(events) + 1}
             /\ events'[Len(events) + 1].link = link /\ events'[Len(events) + 1].reason = error.code
             /\ \A i \in DOMAIN events : events'[i] = events[i]
             /\ Len(events) + 1 \notin DOMAIN events
  <2>1. Event(link) \in [tool : Requested, reason : Codes, stop : Budgets \cup {"policy_denied"}, link : Links]
    BY <1>1, Zenon
  <2>2. /\ events' \in Seq([tool : Requested, reason : Codes, stop : Budgets \cup {"policy_denied"}, link : Links])
        /\ Len(events') = Len(events) + 1 /\ DOMAIN events' = 1..(Len(events) + 1)
        /\ events'[Len(events) + 1] = Event(link)
        /\ \A i \in 1..Len(events) : events'[i] = events[i]
    BY <1>8, <2>1 DEF GapsInv
  <2>3. /\ Len(refused') = Len(refused) + 1
        /\ refused'[Len(refused) + 1] = [tool |-> tool, error |-> error]
        /\ \A i \in 1..Len(refused) : refused'[i] = refused[i]
    BY DEF GapsInv
  <2>4. Len(events) = Len(refused) /\ Len(events) \in Nat /\ DOMAIN events = 1..Len(events)
    BY DEF GapsInv, Gaps!DenialsAreRecorded
  <2>5. ASSUME NEW i \in DOMAIN events'
        PROVE  /\ events'[i].tool = refused'[i].tool
               /\ events'[i].reason = refused'[i].error.code
               /\ events'[i].stop = refused'[i].error.stop
    <3>1. CASE i = Len(events) + 1
      BY <2>2, <2>3, <2>4, <3>1
    <3>2. CASE i \in 1..Len(events)
      BY <2>2, <2>3, <2>4, <3>2 DEF GapsInv, Gaps!DenialsAreRecorded
    <3>. QED BY <2>2, <2>4, <3>1, <3>2
  <2>. QED BY <2>2, <2>3, <2>4, <2>5 DEF Gaps!DenialsAreRecorded
<1>9. CASE events' = Append(events, Event(<<>>)) /\ UNCHANGED gaps
  <2>1. <<>> \in Links
    BY Zenon DEF Links
  <2>2. Gaps!GapsFollowDenials'
    <3>1. UNCHANGED gaps
      BY <1>9, Zenon
    <3>2. /\ DOMAIN events' = DOMAIN events \cup {Len(events) + 1}
          /\ events'[Len(events) + 1].link = <<>>
          /\ \A i \in DOMAIN events : events'[i] = events[i]
      BY <1>8, <1>9, <2>1, Zenon
    <3>3. \A i \in DOMAIN events' : events'[i].link # <<>> =>
            events'[i].link \in DOMAIN gaps /\ gaps[events'[i].link].predicate = events'[i].reason
      BY <3>2, Zenon DEF GapsInv, Gaps!GapsFollowDenials
    <3>4. \A g \in DOMAIN gaps : \E i \in DOMAIN events' : events'[i].link = g
      BY <3>2 DEF GapsInv, Gaps!GapsFollowDenials
    <3>. QED BY <3>1, <3>3, <3>4, Zenon DEF GapsInv, Gaps!GapsFollowDenials
  <2>. QED BY <1>7, <1>8, <1>9, <2>1, <2>2, Zenon DEF GapsInv
<1>10. CASE /\ events' = Append(events, Event(id))
            /\ gaps' = [i \in DOMAIN gaps \cup {id} |-> IF i = id THEN c ELSE gaps[i]]
            /\ c.kind = "tool" => c.capability \in Adapters
  <2>1. /\ DOMAIN gaps' = DOMAIN gaps \cup {id} /\ gaps'[id] = c
        /\ \A g \in DOMAIN gaps : g # id => gaps'[g] = gaps[g]
    BY <1>10, Zenon
  <2>2. \A g \in DOMAIN gaps' : g = <<gaps'[g].predicate, gaps'[g].capability>>
    BY <1>5, <2>1, Zenon DEF GapsInv
  <2>3. ASSUME NEW i \in DOMAIN events', events'[i].link # <<>>
        PROVE  events'[i].link \in DOMAIN gaps' /\ gaps'[events'[i].link].predicate = events'[i].reason
    <3>1. CASE i = Len(events) + 1
      BY <1>2, <1>5, <1>8, <1>10, <2>1, <3>1, Zenon
    <3>2. CASE i \in DOMAIN events
      <4>1. PICK l : l = events[i].link
        BY Zenon
      <4>2. l \in DOMAIN gaps /\ gaps[l].predicate = events[i].reason /\ events'[i] = events[i]
        BY <1>5, <1>8, <1>10, <2>3, <3>2, <4>1, Zenon DEF GapsInv, Gaps!GapsFollowDenials
      <4>3. CASE l = id
        <5>1. l = <<gaps[l].predicate, gaps[l].capability>> /\ l = <<c.predicate, c.capability>>
          BY <1>5, <4>2, <4>3, Zenon DEF GapsInv
        <5>2. gaps[l].predicate = c.predicate
          BY <5>1, Zenon
        <5>. QED BY <2>1, <4>1, <4>2, <4>3, <5>2, Zenon
      <4>4. CASE l # id
        BY <2>1, <4>1, <4>2, <4>4, Zenon
      <4>. QED BY <4>3, <4>4, Zenon
    <3>. QED BY <1>5, <1>8, <1>10, <3>1, <3>2, Zenon
  <2>4. ASSUME NEW g \in DOMAIN gaps'
        PROVE  \E i \in DOMAIN events' : events'[i].link = g
    <3>1. CASE g = id
      BY <1>5, <1>8, <1>10, <3>1, Zenon
    <3>2. CASE g \in DOMAIN gaps
      <4>1. PICK i \in DOMAIN events : events[i].link = g
        BY <3>2, Zenon DEF GapsInv, Gaps!GapsFollowDenials
      <4>. QED BY <1>5, <1>8, <1>10, <4>1, Zenon
    <3>. QED BY <2>1, <3>1, <3>2, Zenon
  <2>5. \A g \in DOMAIN gaps' : gaps'[g].kind = "tool" => gaps'[g].capability \in Adapters
    BY <1>10, <2>1, Zenon DEF GapsInv, Gaps!GapsFollowDenials
  <2>6. Gaps!GapsFollowDenials'
    BY <2>3, <2>4, <2>5, Zenon DEF Gaps!GapsFollowDenials
  <2>. QED BY <1>5, <1>7, <1>8, <1>10, <2>2, <2>6, Zenon DEF GapsInv
<1>. QED BY <1>6, <1>9, <1>10, Zenon

\* Nothing is refused at the start.
LEMMA GapsInit == Gaps!Init => GapsInv
<1>. SUFFICES ASSUME Gaps!Init PROVE GapsInv
  BY Zenon
<1>1. refused = <<>> /\ events = <<>> /\ gaps = <<>>
  BY Zenon DEF Gaps!Init
<1>. QED BY <1>1 DEF GapsInv, Gaps!DenialsAreRecorded, Gaps!GapsFollowDenials

\* An invocation is let through or refused, and a refusal is recorded where it happens.
LEMMA GapsStep == GapsInv /\ [Gaps!Next]_(Gaps!vars) => GapsInv'
<1>. SUFFICES ASSUME GapsInv, [Gaps!Next]_(Gaps!vars) PROVE GapsInv'
  BY Zenon
<1>1. CASE UNCHANGED <<refused, gaps, events>>
  BY <1>1, Zenon DEF GapsInv, Gaps!DenialsAreRecorded, Gaps!GapsFollowDenials
<1>2. ASSUME NEW tool \in Requested, NEW late \in BOOLEAN, Gaps!Invoke(tool, late)
      PROVE  GapsInv'
  <2>1. PICK error : error = Gaps!RecordToolInvocation(profile, counters, tool, late).error
    BY Zenon
  <2>2. error \in Errors \cup {Gaps!NoError}
    BY <2>1, InvocationLemma, Zenon DEF Refusal
  <2>3. IF error = Gaps!NoError THEN UNCHANGED <<refused, gaps, events>>
        ELSE /\ refused' = Append(refused, [tool |-> tool, error |-> error])
             /\ Gaps!RecordDeniedAccess(tool, error)
    BY <1>2, <2>1, Zenon DEF Gaps!Invoke
  <2>. QED BY <1>1, <2>2, <2>3, RecordLemma, Zenon
<1>. QED BY <1>1, <1>2, Zenon DEF Gaps!Next, Gaps!vars

\* Every refused access is recorded, in order, with the enforcer's code and stop reason, whatever
\* the profile grants: no denial of RuntimeProfileEnforcer.record_tool_invocation makes the
\* candidate's validation raise before the event is written.
THEOREM RefusalsAreRecorded == Gaps!Spec => []Gaps!DenialsAreRecorded
<1>1. GapsInv => Gaps!DenialsAreRecorded
  BY Zenon DEF GapsInv
<1>. QED BY <1>1, GapsInit, GapsStep, PTL DEF Gaps!Spec

\* Links and candidates belong together, also when a later denial writes over a candidate.
THEOREM CandidatesFollowRefusals == Gaps!Spec => []Gaps!GapsFollowDenials
<1>1. GapsInv => Gaps!GapsFollowDenials
  BY Zenon DEF GapsInv
<1>. QED BY <1>1, GapsInit, GapsStep, PTL DEF Gaps!Spec

-----------------------------------------------------------------------------
(* The authority of tenants.                                               *)

\* A job whose profile the Composer sealed, from an answer that passed TenantAccessValidator.
Composed(k) ==
    \E c : /\ k.profile = Tenants!Profile(k.task, c)
           /\ Tenants!TenantAccess(k.task, c.authority, Tenants!Selected(k.task, c))

\* What a job has opened, one of its roles gave.
OpenedByRoles(k) ==
    \A o \in k.opened : /\ SourceTenant[o[1]] = k.profile.tenant
                        /\ \E r \in k.profile.roles : o[2] \in k.profile.authority.grants[r][o[1]]

\* A job that was started keeps its task and the profile sealed for it, and opens nothing
\* before it runs.
JobsInv ==
    /\ job = [j \in Jobs |-> job[j]]
    /\ \A j \in Jobs :
         /\ job[j] = [pc |-> job[j].pc, task |-> job[j].task, stored |-> job[j].stored,
                      profile |-> job[j].profile, opened |-> job[j].opened,
                      startedOn |-> job[j].startedOn]
         /\ \/ job[j].pc \in {"none", "queued", "refused"} /\ job[j].opened = {}
            \/ job[j].pc \in {"started", "running", "rejected", "succeeded", "failed"} /\ Composed(job[j])
         /\ OpenedByRoles(job[j])

\* A step that changes one job and leaves it sound.
LEMMA JobLemma ==
  ASSUME JobsInv, NEW i \in Jobs, NEW k, job' = [job EXCEPT ![i] = k],
         k = [pc |-> k.pc, task |-> k.task, stored |-> k.stored, profile |-> k.profile,
              opened |-> k.opened, startedOn |-> k.startedOn],
         \/ k.pc \in {"none", "queued", "refused"} /\ k.opened = {}
         \/ k.pc \in {"started", "running", "rejected", "succeeded", "failed"} /\ Composed(k),
         OpenedByRoles(k)
  PROVE  JobsInv'
<1>1. \A j \in Jobs : job'[j] = IF j = i THEN k ELSE job[j]
  BY Zenon DEF JobsInv
<1>2. job' = [j \in Jobs |-> job'[j]]
  BY Zenon DEF JobsInv
<1>3. ASSUME NEW j \in Jobs
      PROVE  /\ job'[j] = [pc |-> job'[j].pc, task |-> job'[j].task, stored |-> job'[j].stored,
                           profile |-> job'[j].profile, opened |-> job'[j].opened,
                           startedOn |-> job'[j].startedOn]
             /\ \/ job'[j].pc \in {"none", "queued", "refused"} /\ job'[j].opened = {}
                \/ /\ job'[j].pc \in {"started", "running", "rejected", "succeeded", "failed"}
                   /\ Composed(job'[j])
             /\ OpenedByRoles(job'[j])
  <2>1. PICK m : m = job'[j]
    BY Zenon
  <2>2. /\ m = [pc |-> m.pc, task |-> m.task, stored |-> m.stored, profile |-> m.profile,
                opened |-> m.opened, startedOn |-> m.startedOn]
        /\ \/ m.pc \in {"none", "queued", "refused"} /\ m.opened = {}
           \/ m.pc \in {"started", "running", "rejected", "succeeded", "failed"} /\ Composed(m)
        /\ OpenedByRoles(m)
    <3>1. CASE j = i
      BY <1>1, <2>1, <3>1, Zenon
    <3>2. CASE j # i
      BY <1>1, <2>1, <3>2, Zenon DEF JobsInv
    <3>. QED BY <3>1, <3>2, Zenon
  <2>. QED BY <2>1, <2>2, Zenon
<1>. QED BY <1>2, <1>3, Zenon DEF JobsInv, Composed, OpenedByRoles, Tenants!Profile, Tenants!TenantAccess

\* Nothing is composed at the start.
LEMMA JobsInit == Tenants!Init => JobsInv
<1>. SUFFICES ASSUME Tenants!Init PROVE JobsInv
  BY Zenon
<1>1. PICK k : k = Tenants!NoJob
  BY Zenon
<1>2. /\ k = [pc |-> k.pc, task |-> k.task, stored |-> k.stored, profile |-> k.profile,
              opened |-> k.opened, startedOn |-> k.startedOn]
      /\ k.pc = "none" /\ k.opened = {}
  BY <1>1, Zenon DEF Tenants!NoJob
<1>3. job = [j \in Jobs |-> k]
  BY <1>1, Zenon DEF Tenants!Init
<1>. QED BY <1>2, <1>3, Zenon DEF JobsInv, OpenedByRoles

\* Only a job's own steps change it, and only Start gives it a profile.
LEMMA JobsStep == JobsInv /\ [Tenants!Next]_(Tenants!vars) => JobsInv'
<1>. SUFFICES ASSUME JobsInv, [Tenants!Next]_(Tenants!vars) PROVE JobsInv'
  BY Zenon
<1>1. CASE UNCHANGED job
  BY <1>1 DEF JobsInv, Composed, OpenedByRoles
<1>2. ASSUME NEW j \in Jobs, NEW t \in Tasks, Tenants!Submit(j, t) PROVE JobsInv'
  <2>1. PICK k : k = job[j]
    BY Zenon
  <2>2. /\ k = [pc |-> k.pc, task |-> k.task, stored |-> k.stored, profile |-> k.profile,
                opened |-> k.opened, startedOn |-> k.startedOn]
        /\ k.pc = "none" /\ k.opened = {}
    BY <1>2, <2>1, Zenon DEF JobsInv, Tenants!Submit
  <2>3. \/ job' = [job EXCEPT ![j] = [k EXCEPT !.pc = "queued", !.task = t]]
        \/ \E c : job' = [job EXCEPT ![j] = [k EXCEPT !.pc = "queued", !.task = t, !.stored = c]]
    BY <1>2, <2>1 DEF Tenants!Submit
  <2>4. CASE job' = [job EXCEPT ![j] = [k EXCEPT !.pc = "queued", !.task = t]]
    <3>1. PICK m : m = [k EXCEPT !.pc = "queued", !.task = t]
      BY Zenon
    <3>2. /\ m = [pc |-> m.pc, task |-> m.task, stored |-> m.stored, profile |-> m.profile,
                  opened |-> m.opened, startedOn |-> m.startedOn]
          /\ m.pc = "queued" /\ m.opened = {}
      BY <2>2, <3>1, Zenon
    <3>3. OpenedByRoles(m)
      BY <3>2, Zenon DEF OpenedByRoles
    <3>. QED BY <2>4, <3>1, <3>2, <3>3, JobLemma, Zenon
  <2>5. ASSUME NEW c, job' = [job EXCEPT ![j] = [k EXCEPT !.pc = "queued", !.task = t, !.stored = c]]
        PROVE  JobsInv'
    <3>1. PICK m : m = [k EXCEPT !.pc = "queued", !.task = t, !.stored = c]
      BY Zenon
    <3>2. /\ m = [pc |-> m.pc, task |-> m.task, stored |-> m.stored, profile |-> m.profile,
                  opened |-> m.opened, startedOn |-> m.startedOn]
          /\ m.pc = "queued" /\ m.opened = {}
      BY <2>2, <3>1, Zenon
    <3>3. OpenedByRoles(m)
      BY <3>2, Zenon DEF OpenedByRoles
    <3>. QED BY <2>5, <3>1, <3>2, <3>3, JobLemma, Zenon
  <2>. QED BY <2>3, <2>4, <2>5, Zenon
<1>3. ASSUME NEW j \in Jobs, Tenants!Start(j) PROVE JobsInv'
  <2>1. PICK k : k = job[j]
    BY Zenon
  <2>2. /\ k = [pc |-> k.pc, task |-> k.task, stored |-> k.stored, profile |-> k.profile,
                opened |-> k.opened, startedOn |-> k.startedOn]
        /\ k.opened = {}
    BY <1>3, <2>1, Zenon DEF JobsInv, Tenants!Start
  <2>3. \/ job' = [job EXCEPT ![j] = [k EXCEPT !.pc = "refused"]]
        \/ \E c : /\ Tenants!TenantAccess(k.task, c.authority, Tenants!Selected(k.task, c))
                  /\ job' = [job EXCEPT ![j] = [k EXCEPT !.pc = "started",
                                                         !.profile = Tenants!Profile(k.task, c),
                                                         !.startedOn = plane.status]]
    <3>1. PICK c : IF /\ Tenants!Startable(k.task, c) /\ Tenants!Composable(k.task, c)
                      /\ Tenants!TenantAccess(k.task, c.authority, Tenants!Selected(k.task, c))
                   THEN job' = [job EXCEPT ![j].pc = "started",
                                           ![j].profile = Tenants!Profile(k.task, c),
                                           ![j].startedOn = plane.status]
                   ELSE job' = [job EXCEPT ![j].pc = "refused"]
      BY <1>3, <2>1, Zenon DEF Tenants!Start
    <3>2. PICK p : p = Tenants!Profile(k.task, c)
      BY Zenon
    <3>3. [job EXCEPT ![j].pc = "refused"] = [job EXCEPT ![j] = [k EXCEPT !.pc = "refused"]]
      BY <2>1, Zenon
    <3>4. [job EXCEPT ![j].pc = "started", ![j].profile = p, ![j].startedOn = plane.status]
            = [job EXCEPT ![j] = [k EXCEPT !.pc = "started", !.profile = p, !.startedOn = plane.status]]
      BY <2>1, Zenon
    <3> DEFINE Admitted == /\ Tenants!Startable(k.task, c) /\ Tenants!Composable(k.task, c)
                           /\ Tenants!TenantAccess(k.task, c.authority, Tenants!Selected(k.task, c))
    <3>5. CASE Admitted
      <4>1. job' = [job EXCEPT ![j].pc = "started", ![j].profile = p, ![j].startedOn = plane.status]
        BY <3>1, <3>2, <3>5, Zenon
      <4>2. job' = [job EXCEPT ![j] = [k EXCEPT !.pc = "started", !.profile = Tenants!Profile(k.task, c),
                                                !.startedOn = plane.status]]
        BY <3>2, <3>4, <4>1, Zenon
      <4>. QED BY <3>5, <4>2, Zenon
    <3>6. CASE ~Admitted
      <4>1. job' = [job EXCEPT ![j].pc = "refused"]
        BY <3>1, <3>6, Zenon
      <4>. QED BY <3>3, <4>1, Zenon
    <3>. QED BY <3>5, <3>6, Zenon
  <2>4. CASE job' = [job EXCEPT ![j] = [k EXCEPT !.pc = "refused"]]
    <3>1. PICK m : m = [k EXCEPT !.pc = "refused"]
      BY Zenon
    <3>2. /\ m = [pc |-> m.pc, task |-> m.task, stored |-> m.stored, profile |-> m.profile,
                  opened |-> m.opened, startedOn |-> m.startedOn]
          /\ m.pc = "refused" /\ m.opened = {}
      BY <2>2, <3>1, Zenon
    <3>3. OpenedByRoles(m)
      BY <3>2, Zenon DEF OpenedByRoles
    <3>. QED BY <2>4, <3>1, <3>2, <3>3, JobLemma, Zenon
  <2>5. ASSUME NEW c, Tenants!TenantAccess(k.task, c.authority, Tenants!Selected(k.task, c)),
               job' = [job EXCEPT ![j] = [k EXCEPT !.pc = "started",
                                                   !.profile = Tenants!Profile(k.task, c),
                                                   !.startedOn = plane.status]]
        PROVE  JobsInv'
    <3>1. PICK p : p = Tenants!Profile(k.task, c)
      BY Zenon
    <3>2. PICK m : m = [k EXCEPT !.pc = "started", !.profile = p, !.startedOn = plane.status]
      BY Zenon
    <3>3. /\ m = [pc |-> m.pc, task |-> m.task, stored |-> m.stored, profile |-> m.profile,
                  opened |-> m.opened, startedOn |-> m.startedOn]
          /\ m.pc = "started" /\ m.opened = {} /\ m.profile = p /\ m.task = k.task
      BY <2>2, <3>2, Zenon
    <3>4. OpenedByRoles(m)
      BY <3>3, Zenon DEF OpenedByRoles
    <3>5. Composed(m)
      BY <2>5, <3>1, <3>3, Zenon DEF Composed
    <3>. QED BY <2>5, <3>1, <3>2, <3>3, <3>4, <3>5, JobLemma, Zenon
  <2>. QED BY <2>3, <2>4, <2>5, Zenon
\* Enforce and Validate move a job on and change nothing else of it.
<1>4. ASSUME NEW j \in Jobs, NEW pc \in {"running", "rejected", "succeeded", "failed"},
             job[j].pc \in {"started", "running"}, job' = [job EXCEPT ![j].pc = pc]
      PROVE  JobsInv'
  <2>1. PICK k : k = job[j]
    BY Zenon
  <2>2. /\ k = [pc |-> k.pc, task |-> k.task, stored |-> k.stored, profile |-> k.profile,
                opened |-> k.opened, startedOn |-> k.startedOn]
        /\ Composed(k) /\ OpenedByRoles(k)
    BY <1>4, <2>1, Zenon DEF JobsInv
  <2>3. PICK m : m = [k EXCEPT !.pc = pc]
    BY Zenon
  <2>4. /\ m = [pc |-> m.pc, task |-> m.task, stored |-> m.stored, profile |-> m.profile,
                opened |-> m.opened, startedOn |-> m.startedOn]
        /\ m.pc = pc /\ m.opened = k.opened /\ m.profile = k.profile /\ m.task = k.task
    BY <2>2, <2>3, Zenon
  <2>5. Composed(m) /\ OpenedByRoles(m)
    <3>1. Composed(m)
      BY <2>2, <2>4, Zenon DEF Composed
    <3>2. OpenedByRoles(m)
      BY <2>2, <2>4 DEF OpenedByRoles
    <3>. QED BY <3>1, <3>2, Zenon
  <2>6. job' = [job EXCEPT ![j] = m]
    BY <1>4, <2>1, <2>3, Zenon
  <2>. QED BY <2>4, <2>5, <2>6, JobLemma, Zenon
<1>5. ASSUME NEW j \in Jobs, Tenants!Enforce(j) PROVE JobsInv'
  BY <1>4, <1>5, Zenon DEF Tenants!Enforce
<1>6. ASSUME NEW j \in Jobs, NEW out, Tenants!Validate(j, out) PROVE JobsInv'
  BY <1>4, <1>6, Zenon DEF Tenants!Validate
<1>7. ASSUME NEW j \in Jobs, NEW s, NEW mode, Tenants!Connect(j, s, mode) PROVE JobsInv'
  <2>1. PICK k : k = job[j]
    BY Zenon
  <2>2. /\ k = [pc |-> k.pc, task |-> k.task, stored |-> k.stored, profile |-> k.profile,
                opened |-> k.opened, startedOn |-> k.startedOn]
        /\ k.pc = "running" /\ Composed(k) /\ OpenedByRoles(k)
    BY <1>7, <2>1, Zenon DEF JobsInv, Tenants!Connect
  <2>3. /\ SourceTenant[s] = k.profile.tenant
        /\ \E r \in k.profile.roles : mode \in k.profile.authority.grants[r][s]
    BY <1>7, <2>1, Zenon DEF Tenants!Connect, Tenants!GrantedModes
  <2>4. PICK m : m = [k EXCEPT !.opened = k.opened \cup {<<s, mode>>}]
    BY Zenon
  <2>5. /\ m = [pc |-> m.pc, task |-> m.task, stored |-> m.stored, profile |-> m.profile,
                opened |-> m.opened, startedOn |-> m.startedOn]
        /\ m.pc = k.pc /\ m.opened = k.opened \cup {<<s, mode>>}
        /\ m.profile = k.profile /\ m.task = k.task
    BY <2>2, <2>4, Zenon
  <2>6. Composed(m)
    BY <2>2, <2>5, Zenon DEF Composed
  <2>7. OpenedByRoles(m)
    <3>1. PICK o : o = <<s, mode>>
      BY Zenon
    <3>2. o[1] = s /\ o[2] = mode
      BY <3>1, Zenon
    <3>. QED BY <2>2, <2>3, <2>5, <3>1, <3>2, Zenon DEF OpenedByRoles
  <2>8. job' = [job EXCEPT ![j] = m]
    BY <1>7, <2>1, <2>4, Zenon DEF Tenants!Connect
  <2>. QED BY <2>2, <2>5, <2>6, <2>7, <2>8, JobLemma
<1>8. ASSUME Tenants!Administer PROVE UNCHANGED job
  BY <1>8, Zenon DEF Tenants!Administer, Tenants!Change
<1>. QED BY <1>1, <1>2, <1>3, <1>5, <1>6, <1>7, <1>8, Zenon DEF Tenants!Next, Tenants!vars

\* The invariant of the jobs.
LEMMA JobsInvariance == Tenants!Spec => []JobsInv
  BY JobsInit, JobsStep, PTL DEF Tenants!Spec

\* Enforcer and validators find nothing wrong with a profile the Composer sealed.
LEMMA ComposedLemma ==
  ASSUME NEW k, Composed(k)
  PROVE  LET p == k.profile IN
         /\ Tenants!Enforced(p)
         /\ Tenants!TenantProfileValidator(p) /\ Tenants!NoCrossTenantScopeValidator(p)
         /\ Tenants!NoCrossAreaScopeValidator(p) /\ Tenants!KnowledgeScopeValidator(p)
<1>1. PICK c : /\ k.profile = Tenants!Profile(k.task, c)
               /\ Tenants!TenantAccess(k.task, c.authority, Tenants!Selected(k.task, c))
  BY Zenon DEF Composed
<1>2. PICK t : t = k.task
  BY Zenon
<1>3. PICK p : p = k.profile
  BY Zenon
<1>4. /\ p.tenant = Tenants!TenantOf(t) /\ p.area = Tenants!AreaOf(t) /\ p.host = t.host
      /\ p.member = t.member /\ p.principal = t.principal /\ p.roles = t.roles
      /\ p.sources = t.sources /\ p.selected = Tenants!Selected(t, c)
      /\ p.authority = IF Tenants!TenantOf(t) = "global" THEN Tenants!NoAuthority ELSE c.authority
  <2>1. p = Tenants!Profile(t, c)
    BY <1>1, <1>2, <1>3, Zenon
  <2>2. p.tenant = Tenants!TenantOf(t) /\ p.area = Tenants!AreaOf(t) /\ p.host = t.host
    BY <2>1, Zenon DEF Tenants!Profile
  <2>3. p.member = t.member /\ p.principal = t.principal /\ p.roles = t.roles
    BY <2>1, Zenon DEF Tenants!Profile
  <2>4. p.sources = t.sources /\ p.selected = Tenants!Selected(t, c)
    BY <2>1, Zenon DEF Tenants!Profile
  <2>5. p.authority = IF Tenants!TenantOf(t) = "global" THEN Tenants!NoAuthority ELSE c.authority
    BY <2>1, Zenon DEF Tenants!Profile
  <2>. QED BY <2>2, <2>3, <2>4, <2>5, Zenon
<1>5. CASE p.tenant = "global"
  <2>1. p.authority.tenant = "none"
    BY <1>4, <1>5 DEF Tenants!NoAuthority
  <2>2. Tenants!Enforced(p) /\ Tenants!TenantProfileValidator(p)
    BY <1>5, <2>1, Zenon DEF Tenants!Enforced, Tenants!TenantProfileValidator
  <2>3. /\ Tenants!NoCrossTenantScopeValidator(p) /\ Tenants!NoCrossAreaScopeValidator(p)
        /\ Tenants!KnowledgeScopeValidator(p)
    BY <1>5, Zenon DEF Tenants!NoCrossTenantScopeValidator, Tenants!NoCrossAreaScopeValidator,
                Tenants!KnowledgeScopeValidator
  <2>. QED BY <1>3, <2>2, <2>3, Zenon
<1>6. CASE p.tenant # "global"
  <2>1. PICK a : a = p.authority
    BY Zenon
  <2>2. /\ a.tenant # "none"
        /\ Tenants!IdentityHolds(t, a) /\ Tenants!MembershipHolds(t, a)
        /\ Tenants!RoleGrantsHold(t, a) /\ Tenants!ModulesHold(t, a, p.selected)
    BY <1>1, <1>2, <1>4, <1>6, <2>1, Zenon DEF Tenants!TenantAccess
  <2>3. Tenants!EnforcedIdentity(p) /\ Tenants!EnforcedMembership(p)
    BY <1>4, <2>1, <2>2, Zenon
    DEF Tenants!IdentityHolds, Tenants!MembershipHolds, Tenants!EnforcedIdentity, Tenants!EnforcedMembership
  <2>4. Tenants!EnforcedGrants(p) /\ Tenants!EnforcedModules(p)
    BY <1>4, <2>1, <2>2, Zenon
    DEF Tenants!RoleGrantsHold, Tenants!ModulesHold, Tenants!EnforcedGrants, Tenants!EnforcedModules
  <2>5. Tenants!Enforced(p)
    BY <1>6, <2>1, <2>2, <2>3, <2>4, Zenon DEF Tenants!Enforced
  <2>6. /\ Tenants!TenantProfileValidator(p) /\ Tenants!NoCrossTenantScopeValidator(p)
        /\ Tenants!NoCrossAreaScopeValidator(p) /\ Tenants!KnowledgeScopeValidator(p)
    BY <1>6, <2>1, <2>2, <2>3, <2>4, Zenon
    DEF Tenants!EnforcedIdentity, Tenants!EnforcedMembership, Tenants!EnforcedModules,
        Tenants!TenantProfileValidator, Tenants!NoCrossTenantScopeValidator,
        Tenants!NoCrossAreaScopeValidator, Tenants!KnowledgeScopeValidator
  <2>. QED BY <1>3, <2>5, <2>6, Zenon
<1>. QED BY <1>5, <1>6, Zenon

\* Composer, enforcer and validators judge a profile alike, whatever the tables of the Control
\* Plane say at each of the three moments: what RuntimeProfileComposer seals,
\* ProfileEnforcer._validate_tenant_authority and the tenant validators accept.
THEOREM ComposerAndEnforcerAgree == Tenants!Spec => []Tenants!ComposedIsEnforced
<1>1. ASSUME JobsInv PROVE Tenants!ComposedIsEnforced
  <2>1. ASSUME NEW j \in Jobs, job[j].pc = "started" PROVE Composed(job[j])
    BY <1>1, <2>1, Zenon DEF JobsInv
  <2>. QED BY <2>1, ComposedLemma, Zenon DEF Tenants!ComposedIsEnforced
<1>2. JobsInv => Tenants!ComposedIsEnforced
  BY <1>1, Zenon
<1>. QED BY <1>2, JobsInvariance, PTL

\* A tenant run holds only tools and opens only sources and modes that a role of its membership
\* gave, for any roles, bundles, tasks and changes of the tables.
THEOREM RolesBoundRuns == Tenants!Spec => []Tenants!NothingBeyondRoles
<1>1. ASSUME JobsInv PROVE Tenants!NothingBeyondRoles
  <2>. SUFFICES ASSUME NEW j \in Jobs, job[j].pc \in {"running", "succeeded"},
                       job[j].profile.tenant # "global"
                PROVE  LET p == job[j].profile IN
                       /\ \A x \in p.selected.tools :
                            \E r \in p.roles \cap p.authority.roles : x \in p.authority.tools[r]
                       /\ \A o \in job[j].opened :
                            /\ SourceTenant[o[1]] = p.tenant
                            /\ \E r \in p.roles \cap p.authority.roles : o[2] \in p.authority.grants[r][o[1]]
    BY Zenon DEF Tenants!NothingBeyondRoles
  <2>1. Composed(job[j]) /\ OpenedByRoles(job[j])
    BY <1>1, Zenon DEF JobsInv
  <2>2. PICK p : p = job[j].profile
    BY Zenon
  <2>3. Tenants!EnforcedMembership(p) /\ Tenants!EnforcedModules(p)
    BY <2>1, <2>2, ComposedLemma, Zenon DEF Tenants!Enforced
  <2>4. p.roles \cap p.authority.roles = p.roles
    BY <2>3, Zenon DEF Tenants!EnforcedMembership
  <2>5. \A x \in p.selected.tools : \E r \in p.roles : x \in p.authority.tools[r]
    BY <2>3, Zenon DEF Tenants!EnforcedModules, Tenants!AllowedTools
  <2>. QED BY <2>1, <2>2, <2>4, <2>5, Zenon DEF OpenedByRoles
<1>2. JobsInv => Tenants!NothingBeyondRoles
  BY <1>1, Zenon
<1>. QED BY <1>2, JobsInvariance, PTL

\* A task whose text fits two specialised types runs bare, whatever the Control Plane answers
\* and whatever tenant it claims.
THEOREM AmbiguousTasksRunBare == Tenants!Spec => []Tenants!AmbiguousRunsBare
<1>1. ASSUME JobsInv PROVE Tenants!AmbiguousRunsBare
  <2>. SUFFICES ASSUME NEW j \in Jobs, job[j].pc \in {"started", "running", "succeeded"},
                       Tenants!RequiresReview(job[j].task)
                PROVE  /\ job[j].profile.review /\ job[j].profile.budget = 0
                       /\ \A f \in DOMAIN job[j].profile.selected : job[j].profile.selected[f] = {}
    BY Zenon DEF Tenants!AmbiguousRunsBare
  <2>1. PICK t : t = job[j].task
    BY Zenon
  <2>2. PICK p : p = job[j].profile
    BY Zenon
  <2>3. PICK c : p = Tenants!Profile(t, c)
    BY <1>1, <2>1, <2>2, Zenon DEF JobsInv, Composed
  <2>4. Tenants!RequiresReview(t)
    BY <2>1, Zenon
  <2>5. p.review = Tenants!RequiresReview(t) /\ p.budget = 0
    BY <2>3, <2>4, Zenon DEF Tenants!Profile
  <2>6. PICK s : s = Tenants!Selected(t, c)
    BY Zenon
  <2>7. p.selected = s
    BY <2>3, <2>6, Zenon DEF Tenants!Profile
  <2>8. s = [tools |-> {}, knowledge |-> {}, memory |-> {}]
    BY <2>4, <2>6, Zenon DEF Tenants!Selected
  <2>9. \A f \in DOMAIN s : s[f] = {}
    BY <2>8
  <2>. QED BY <2>2, <2>4, <2>5, <2>7, <2>9, Zenon
<1>2. JobsInv => Tenants!AmbiguousRunsBare
  BY <1>1, Zenon
<1>. QED BY <1>2, JobsInvariance, PTL

-----------------------------------------------------------------------------
(* Staff accounts: the three tables of a user move together.               *)

CONSTANTS RoleCodes, Emails, Subjects, None, MaxUsers, MaxIdentities

VARIABLES users, roles, identities, asked, revoked, claims, login

Staff == INSTANCE StaffAccess

UserType == [email : Emails, active : BOOLEAN, admin : BOOLEAN]

RolesInv ==
    /\ users \in Seq(UserType)
    /\ roles \in Seq(SUBSET RoleCodes) /\ asked \in Seq(SUBSET RoleCodes)
    /\ Len(roles) = Len(users) /\ Len(asked) = Len(users)
    /\ Staff!NoRoleBeyondRequest

\* A row of app.users as the handlers write it.
LEMMA UserRow ==
  ASSUME NEW e \in Emails, NEW a \in BOOLEAN, NEW R \in SUBSET RoleCodes
  PROVE  /\ [email |-> e, active |-> a, admin |-> "admin" \in R] \in UserType
         /\ [email |-> e, active |-> a, admin |-> "admin" \in R].admin = ("admin" \in R)
BY DEF UserType

\* insert_user, upsert_user and save_roles, the sub-statements of upsert_user in either order.
LEMMA RolesStep == RolesInv /\ [Staff!Next]_(Staff!vars) => RolesInv'
<1>. SUFFICES ASSUME RolesInv, [Staff!Next]_(Staff!vars) PROVE RolesInv'
  BY Zenon
<1>1. CASE UNCHANGED <<users, roles, asked>>
  BY <1>1, Zenon DEF RolesInv, Staff!NoRoleBeyondRequest
<1>2. ASSUME NEW e \in Emails, NEW a \in BOOLEAN, NEW R \in SUBSET RoleCodes, Staff!InsertUser(e, a, R)
      PROVE  RolesInv'
  <2>1. PICK row : row = [email |-> e, active |-> a, admin |-> "admin" \in R]
    BY Zenon
  <2>2. row \in UserType /\ row.admin = ("admin" \in R)
    BY <2>1, UserRow, Zenon
  <2>3. users' = Append(users, row) /\ roles' = Append(roles, R) /\ asked' = Append(asked, R)
    BY <1>2, <2>1, Zenon DEF Staff!InsertUser
  <2>4. ASSUME NEW u \in DOMAIN users'
        PROVE  roles'[u] \subseteq asked'[u] /\ users'[u].admin = ("admin" \in asked'[u])
    <3>1. CASE u = Len(users) + 1
      <4>1. roles'[u] = R /\ asked'[u] = R /\ users'[u] = row
        BY <2>2, <2>3, <3>1 DEF RolesInv
      <4>. QED BY <2>2, <4>1, Zenon
    <3>2. CASE u \in DOMAIN users
      <4>1. roles'[u] = roles[u] /\ asked'[u] = asked[u] /\ users'[u] = users[u]
        BY <2>2, <2>3, <3>2 DEF RolesInv
      <4>. QED BY <3>2, <4>1, Zenon DEF RolesInv, Staff!NoRoleBeyondRequest
    <3>. QED BY <2>2, <2>3, <3>1, <3>2 DEF RolesInv
  <2>. QED BY <2>2, <2>3, <2>4 DEF RolesInv, Staff!NoRoleBeyondRequest
\* What both updates have in common.
<1>3. ASSUME NEW u \in DOMAIN users, NEW row \in UserType, NEW R \in SUBSET RoleCodes, NEW rows \in SUBSET R,
             row.admin = ("admin" \in R), users' = [users EXCEPT ![u] = row],
             roles' = [roles EXCEPT ![u] = rows], asked' = [asked EXCEPT ![u] = R]
      PROVE  RolesInv'
  <2>1. /\ users' \in Seq(UserType) /\ roles' \in Seq(SUBSET RoleCodes) /\ asked' \in Seq(SUBSET RoleCodes)
        /\ Len(roles') = Len(users') /\ Len(asked') = Len(users') /\ DOMAIN users' = DOMAIN users
    BY <1>3 DEF RolesInv
  <2>2. ASSUME NEW v \in DOMAIN users
        PROVE  roles'[v] \subseteq asked'[v] /\ users'[v].admin = ("admin" \in asked'[v])
    <3>1. CASE v = u
      <4>1. roles'[v] = rows /\ asked'[v] = R /\ users'[v] = row
        BY <1>3, <3>1 DEF RolesInv
      <4>. QED BY <1>3, <4>1, Zenon
    <3>2. CASE v # u
      <4>1. roles'[v] = roles[v] /\ asked'[v] = asked[v] /\ users'[v] = users[v]
        BY <1>3, <3>2 DEF RolesInv
      <4>. QED BY <4>1, Zenon DEF RolesInv, Staff!NoRoleBeyondRequest
    <3>. QED BY <3>1, <3>2, Zenon
  <2>. QED BY <2>1, <2>2, Zenon DEF RolesInv, Staff!NoRoleBeyondRequest
<1>4. ASSUME NEW u, NEW e \in Emails, NEW a \in BOOLEAN, NEW R \in SUBSET RoleCodes, Staff!UpdateUser(u, e, a, R)
      PROVE  RolesInv'
  <2>1. PICK row : row = [email |-> e, active |-> a, admin |-> "admin" \in R]
    BY Zenon
  <2>2. row \in UserType /\ row.admin = ("admin" \in R)
    BY <2>1, UserRow, Zenon
  <2>3. PICK rows \in Staff!RowsAfterReplace(roles[u], R) : roles' = [roles EXCEPT ![u] = rows]
    BY <1>4, Zenon DEF Staff!UpdateUser
  <2>4. rows \in SUBSET R
    BY <2>3, Zenon DEF Staff!RowsAfterReplace
  <2>5. u \in DOMAIN users /\ users' = [users EXCEPT ![u] = row] /\ asked' = [asked EXCEPT ![u] = R]
    BY <1>4, <2>1, Zenon DEF Staff!UpdateUser
  <2>. QED BY <1>3, <2>2, <2>3, <2>4, <2>5, Zenon
<1>5. ASSUME NEW u, NEW R \in SUBSET RoleCodes, Staff!SaveRoles(u, R)
      PROVE  RolesInv'
  <2>0. u \in DOMAIN users
    BY <1>5, Zenon DEF Staff!SaveRoles
  <2>1. users[u] \in UserType
    BY <2>0 DEF RolesInv
  <2>2. PICK row : row = [users[u] EXCEPT !.admin = "admin" \in R]
    BY Zenon
  <2>3. row = [email |-> users[u].email, active |-> users[u].active, admin |-> "admin" \in R]
    BY <2>1, <2>2, Zenon DEF UserType
  <2>5. row \in UserType /\ row.admin = ("admin" \in R)
    BY <2>1, <2>3, UserRow, Zenon DEF UserType
  <2>4. /\ users' = [users EXCEPT ![u] = row] /\ asked' = [asked EXCEPT ![u] = R]
        /\ roles' = [roles EXCEPT ![u] = R]
    BY <1>5, <2>2, Zenon DEF Staff!SaveRoles
  <2>. QED BY <1>3, <2>0, <2>4, <2>5, Zenon
<1>6. ASSUME NEW u, NEW e, Staff!Invite(u, e) PROVE UNCHANGED <<users, roles, asked>>
  BY <1>6, Zenon DEF Staff!Invite
<1>7. ASSUME NEW i, Staff!Revoke(i) PROVE UNCHANGED <<users, roles, asked>>
  BY <1>7, Zenon DEF Staff!Revoke
<1>8. ASSUME NEW s, NEW e, NEW v, Staff!MobileAppleSession(s, e, v) PROVE UNCHANGED <<users, roles, asked>>
  BY <1>8, Zenon DEF Staff!MobileAppleSession
<1>9. CASE UNCHANGED Staff!vars
  BY <1>1, <1>9, Zenon DEF Staff!vars
<1>. QED
  BY <1>1, <1>2, <1>4, <1>5, <1>6, <1>7, <1>8, <1>9, Zenon
  DEF Staff!Next, Staff!SelectedRoles

\* Whichever handler wrote last, and in whichever order PostgreSQL ran the sub-statements of its
\* statement, a user holds no role the last request left out and the administrator flag is the one
\* it asked for: insert_user, upsert_user and save_roles, for any number of users and roles.
THEOREM RolesFollowRequests == Staff!Spec => []Staff!NoRoleBeyondRequest
<1>1. Staff!Init => RolesInv
  BY DEF Staff!Init, RolesInv, Staff!NoRoleBeyondRequest
<1>2. RolesInv => Staff!NoRoleBeyondRequest
  BY Zenon DEF RolesInv
<1>. QED BY <1>1, <1>2, RolesStep, PTL DEF Staff!Spec

-----------------------------------------------------------------------------
(* Staff accounts: the identities of the mobile app.                       *)

IdentityType ==
    [user : Nat \cup {None}, subject : Subjects \cup {None}, email : Emails \cup {None},
     status : {"pending", "active", "revoked", "requested"}]

\* A subject is in one row.
OneRow ==
    \A i, j \in DOMAIN identities :
       identities[i].subject # None /\ identities[i].subject = identities[j].subject => i = j

\* A subject is in one row, and a revoked one keeps the row it was revoked in.
MobileInv ==
    /\ identities \in Seq(IdentityType)
    /\ OneRow
    /\ \A s \in revoked : \E i \in DOMAIN identities : identities[i].subject = s /\ identities[i].status = "revoked"
    /\ Staff!RevokedStaysOut
    /\ \A c \in claims : c.identity \in DOMAIN identities
    /\ Staff!InvitationsReachTheInvited

\* No step takes a row away, changes its address, or touches it once it is revoked.
RowsStay ==
    \A i \in DOMAIN identities :
       /\ i \in DOMAIN identities' /\ identities'[i].email = identities[i].email
       /\ identities[i].status = "revoked" => identities'[i] = identities[i]

\* A subject is revoked in a row, and an invitation claimed by its address.
NewRevocations ==
    \A s \in revoked' :
       \/ s \in revoked
       \/ \E i \in DOMAIN identities' : identities'[i].subject = s /\ identities'[i].status = "revoked"
NewClaims ==
    \A c \in claims' :
       \/ c \in claims
       \/ c.verified /\ c.identity \in DOMAIN identities' /\ identities'[c.identity].email = c.email

\* Only an active row lets its subject in.
LEMMA OutcomeLemma ==
  ASSUME NEW s, NEW invited, NEW row \in IdentityType
  PROVE  /\ Staff!Outcome(s, invited, row).subject = s
         /\ Staff!Outcome(s, invited, row).outcome = "authorized" => row.status = "active"
<1>1. row.status \in {"pending", "active", "revoked", "requested"}
  BY Zenon DEF IdentityType
<1>. QED BY <1>1, Zenon DEF Staff!Outcome, Staff!Authorizes

\* What a step of the two operator migrations or of a login has to show.
LEMMA MobileKept ==
  ASSUME MobileInv, RowsStay, identities' \in Seq(IdentityType), OneRow', NewRevocations, NewClaims,
         Staff!RevokedStaysOut'
  PROVE  MobileInv'
<1>1. \A s \in revoked' : \E i \in DOMAIN identities' : identities'[i].subject = s /\ identities'[i].status = "revoked"
  <2>. TAKE s \in revoked'
  <2>1. CASE s \in revoked
    <3>1. PICK i \in DOMAIN identities : identities[i].subject = s /\ identities[i].status = "revoked"
      BY <2>1, Zenon DEF MobileInv
    <3>2. i \in DOMAIN identities' /\ identities'[i] = identities[i]
      BY <3>1, Zenon DEF RowsStay
    <3>. QED BY <3>1, <3>2, Zenon
  <2>. QED BY <2>1, Zenon DEF NewRevocations
<1>2. \A c \in claims' : c.verified /\ c.identity \in DOMAIN identities' /\ identities'[c.identity].email = c.email
  BY Zenon DEF NewClaims, MobileInv, RowsStay, Staff!InvitationsReachTheInvited
<1>. QED BY <1>1, <1>2, Zenon DEF MobileInv, Staff!InvitationsReachTheInvited

\* A row inserted for an invitation or a request.
LEMMA AppendedRow ==
  ASSUME MobileInv, NEW row \in IdentityType, identities' = Append(identities, row),
         row.subject = None \/ \A i \in DOMAIN identities : identities[i].subject # row.subject
  PROVE  /\ RowsStay /\ identities' \in Seq(IdentityType) /\ OneRow'
<1>1. identities \in Seq(IdentityType)
  BY Zenon DEF MobileInv
<1>2. /\ identities' \in Seq(IdentityType) /\ DOMAIN identities' = DOMAIN identities \cup {Len(identities) + 1}
      /\ Len(identities) + 1 \notin DOMAIN identities
      /\ \A i \in DOMAIN identities : identities'[i] = identities[i]
      /\ identities'[Len(identities) + 1] = row
  BY <1>1
<1>3. RowsStay
  BY <1>2, Zenon DEF RowsStay
<1>4. ASSUME NEW i \in DOMAIN identities', NEW j \in DOMAIN identities',
             identities'[i].subject # None, identities'[i].subject = identities'[j].subject
      PROVE  i = j
  <2>1. CASE i \in DOMAIN identities /\ j \in DOMAIN identities
    BY <1>2, <1>4, <2>1, Zenon DEF MobileInv, OneRow
  <2>. QED BY <1>2, <1>4, <2>1, Zenon
<1>. QED BY <1>2, <1>3, <1>4, Zenon DEF OneRow

\* A login: an active row, a claimed invitation, a row of its own, or a request.
LEMMA SessionStep ==
  ASSUME None \notin Subjects, MobileInv, NEW s \in Subjects, NEW e \in Emails, NEW v \in BOOLEAN,
         Staff!MobileAppleSession(s, e, v)
  PROVE  MobileInv'
<1>. DEFINE claimed == Staff!ClaimableRows(s, e, v)
<1>. HIDE DEF claimed
<1>1. PICK invited : invited = (v /\ \E i \in Staff!Rows : identities[i].status = "pending" /\ identities[i].email = e)
  BY Zenon
<1>2. /\ identities \in Seq(IdentityType) /\ \A i \in DOMAIN identities : identities[i] \in IdentityType
  BY DEF MobileInv
<1>r. revoked' = revoked
  BY Zenon DEF Staff!MobileAppleSession
<1>3. ASSUME NEW row \in IdentityType, NEW t, login' = Staff!Outcome(s, t, row),
             row.status = "active" => s \notin revoked
      PROVE  login'.outcome = "authorized" => login'.subject \notin revoked'
  <2>1. /\ login'.subject = s
        /\ login'.outcome = "authorized" => row.status = "active"
    BY <1>3, OutcomeLemma
  <2>. QED BY <1>r, <1>3, <2>1, Zenon
<1>4. CASE UNCHANGED <<identities, claims>> /\ (login'.outcome = "authorized" => login'.subject \notin revoked')
  BY <1>r, <1>4, Zenon DEF MobileInv, OneRow, Staff!RevokedStaysOut, Staff!InvitationsReachTheInvited
<1>5. CASE /\ Staff!ActiveRows(s) # {}
           /\ login' = Staff!Outcome(s, invited, identities[CHOOSE i \in Staff!ActiveRows(s) : TRUE])
           /\ UNCHANGED <<identities, claims>>
  <2>1. PICK k \in Staff!ActiveRows(s) : k = CHOOSE i \in Staff!ActiveRows(s) : TRUE
    BY <1>5, Zenon
  <2>2. k \in DOMAIN identities /\ identities[k].subject = s /\ identities[k].status = "active"
    BY <2>1, Zenon DEF Staff!ActiveRows, Staff!Rows
  <2>3. s \notin revoked
    <3>1. ASSUME s \in revoked PROVE FALSE
      <4>1. PICK i \in DOMAIN identities : identities[i].subject = s /\ identities[i].status = "revoked"
        BY <3>1, Zenon DEF MobileInv
      <4>2. i = k
        BY <2>2, <4>1, Zenon DEF MobileInv, OneRow
      <4>. QED BY <2>2, <4>1, <4>2, Zenon
    <3>. QED BY <3>1, Zenon
  <2>. QED BY <1>2, <1>3, <1>4, <1>5, <2>1, <2>2, <2>3, Zenon
<1>6. CASE /\ login' = [subject |-> s, invited |-> invited, outcome |-> "error"]
           /\ UNCHANGED <<identities, claims>>
  <2>1. login'.outcome # "authorized"
    BY <1>6, Zenon
  <2>. QED BY <1>4, <1>6, <2>1, Zenon
<1>7. CASE /\ claimed # {} /\ ~Staff!ViolatesSubjectKey(s, claimed)
           /\ identities' = [i \in Staff!Rows |-> IF i \in claimed
                                                  THEN [identities[i] EXCEPT !.subject = s, !.status = "active"]
                                                  ELSE identities[i]]
           /\ claims' = claims \cup {[identity |-> i, email |-> e, verified |-> v] : i \in claimed}
           /\ login' = Staff!Outcome(s, invited, identities'[CHOOSE i \in claimed : TRUE])
  <2>1. /\ \A i \in claimed : /\ i \in DOMAIN identities /\ identities[i].status = "pending"
                              /\ identities[i].subject = None /\ identities[i].email = e
        /\ claimed # {} => v
    BY Zenon DEF claimed, Staff!ClaimableRows, Staff!Rows
  <2>2. \A i \in DOMAIN identities : identities[i].subject # s
    BY <1>7, Zenon DEF Staff!ViolatesSubjectKey, Staff!Rows
  <2>3. IsFiniteSet(claimed) /\ ~(Cardinality(claimed) > 1)
    <3>1. claimed \subseteq 1..Len(identities) /\ Len(identities) \in Nat
      BY <1>2, <2>1
    <3>2. IsFiniteSet(claimed)
      <4>1. IsFiniteSet(1..Len(identities))
        BY <3>1, FS_Interval
      <4>. QED BY <3>1, <4>1, FS_Subset, Zenon
    <3>3. ~(Cardinality(claimed) > 1)
      <4>1. \A S : Staff!Cardinality(S) = Cardinality(S)
        BY Zenon DEF Staff!Cardinality, Cardinality, Staff!IsFiniteSet, IsFiniteSet
      <4>. QED BY <1>7, <4>1, Zenon DEF Staff!ViolatesSubjectKey
    <3>. QED BY <3>2, <3>3, Zenon
  <2>4. ASSUME NEW i \in claimed, NEW j \in claimed PROVE i = j
    <3>1. ASSUME i # j PROVE FALSE
      <4>1. IsFiniteSet({i}) /\ Cardinality({i}) = 1
        BY FS_Singleton, Zenon
      <4>2. Cardinality({i} \cup {j}) = 2
        <5>1. j \notin {i}
          BY <3>1, Zenon
        <5>2. Cardinality({i} \cup {j}) = Cardinality({i}) + 1
          BY <4>1, <5>1, FS_AddElement, Zenon
        <5>. QED BY <4>1, <5>2
      <4>3. Cardinality({i} \cup {j}) <= Cardinality(claimed) /\ Cardinality(claimed) \in Nat
        BY <2>3, FS_Subset, FS_CardinalityType, Zenon
      <4>. QED BY <2>3, <4>2, <4>3
    <3>. QED BY <3>1, Zenon
  <2>5. /\ DOMAIN identities' = DOMAIN identities
        /\ \A i \in DOMAIN identities \ claimed : identities'[i] = identities[i]
    BY <1>7, Zenon DEF Staff!Rows
  <2>6. ASSUME NEW i \in claimed
        PROVE  /\ identities'[i] \in IdentityType /\ identities'[i].subject = s
               /\ identities'[i].email = identities[i].email
    <3>1. identities'[i] = [identities[i] EXCEPT !.subject = s, !.status = "active"]
      BY <1>7, <2>1, Zenon DEF Staff!Rows
    <3>. QED BY <1>2, <2>1, <3>1, Zenon DEF IdentityType
  <2>7. identities' \in Seq(IdentityType)
    <3>1. \A i \in DOMAIN identities' : identities'[i] \in IdentityType
      BY <1>2, <2>5, <2>6, Zenon
    <3>2. identities' = [i \in Staff!Rows |-> identities'[i]]
      BY <1>7, Zenon
    <3>3. Staff!Rows = 1..Len(identities) /\ Len(identities) \in Nat
      BY <1>2 DEF Staff!Rows
    <3>. QED BY <3>1, <3>2, <3>3
  <2>8. RowsStay
    <3>. SUFFICES ASSUME NEW i \in DOMAIN identities
                  PROVE  /\ i \in DOMAIN identities' /\ identities'[i].email = identities[i].email
                         /\ identities[i].status = "revoked" => identities'[i] = identities[i]
      BY Zenon DEF RowsStay
    <3>1. CASE i \in claimed
      <4>1. identities[i].status # "revoked"
        BY <2>1, <3>1, Zenon
      <4>. QED BY <2>5, <2>6, <3>1, <4>1, Zenon
    <3>. QED BY <2>5, <3>1, Zenon
  <2>9. ASSUME NEW i \in DOMAIN identities', NEW j \in DOMAIN identities',
               identities'[i].subject # None, identities'[i].subject = identities'[j].subject
        PROVE  i = j
    <3>1. CASE i \in claimed
      BY <2>2, <2>4, <2>5, <2>6, <2>9, <3>1, Zenon
    <3>2. CASE j \in claimed
      BY <2>2, <2>4, <2>5, <2>6, <2>9, <3>2, Zenon
    <3>3. CASE i \notin claimed /\ j \notin claimed
      BY <2>5, <2>9, <3>3, Zenon DEF MobileInv, OneRow
    <3>. QED BY <3>1, <3>2, <3>3, Zenon
  <2>10. Staff!RevokedStaysOut'
    <3>1. PICK k \in claimed : k = CHOOSE i \in claimed : TRUE
      BY <1>7, Zenon
    <3>2. s \notin revoked
      BY <2>2, Zenon DEF MobileInv
    <3>. QED BY <1>3, <1>7, <2>6, <3>1, <3>2, Zenon DEF Staff!RevokedStaysOut
  <2>11. ASSUME NEW c \in claims'
         PROVE  \/ c \in claims
                \/ c.verified /\ c.identity \in DOMAIN identities' /\ identities'[c.identity].email = c.email
    <3>1. ASSUME c \notin claims
          PROVE  c.verified /\ c.identity \in DOMAIN identities' /\ identities'[c.identity].email = c.email
      <4>1. PICK i \in claimed : c = [identity |-> i, email |-> e, verified |-> v]
        BY <1>7, <3>1, Zenon
      <4>2. c.identity = i /\ c.email = e /\ c.verified = v
        BY <4>1, Zenon
      <4>3. v
        BY <2>1, <4>1, Zenon
      <4>. QED BY <2>1, <2>5, <2>6, <4>2, <4>3, Zenon
    <3>. QED BY <3>1, Zenon
  <2>12. NewRevocations /\ NewClaims /\ OneRow'
    BY <1>r, <2>9, <2>11, Zenon DEF NewRevocations, NewClaims, OneRow
  <2>. QED BY <2>7, <2>8, <2>10, <2>12, MobileKept, Zenon
<1>8. CASE /\ claimed = {} /\ {i \in Staff!Rows : identities[i].subject = s} = {}
           /\ identities' = Append(identities, [user |-> None, subject |-> s, email |-> IF v THEN e ELSE None, status |-> "requested"])
           /\ login' = Staff!Outcome(s, invited, [user |-> None, subject |-> s, email |-> IF v THEN e ELSE None, status |-> "requested"])
           /\ UNCHANGED claims
  <2>1. PICK row : row = [user |-> None, subject |-> s, email |-> IF v THEN e ELSE None, status |-> "requested"]
    BY Zenon
  <2>2. row \in IdentityType /\ row.status # "active" /\ row.subject = s
    BY <2>1, Zenon DEF IdentityType
  <2>3. \A i \in DOMAIN identities : identities[i].subject # row.subject
    BY <1>8, <2>2, Zenon DEF Staff!Rows
  <2>4. Staff!RevokedStaysOut'
    BY <1>3, <1>8, <2>1, <2>2, Zenon DEF Staff!RevokedStaysOut
  <2>5. /\ RowsStay /\ identities' \in Seq(IdentityType) /\ OneRow'
    BY <1>8, <2>1, <2>2, <2>3, AppendedRow, Zenon
  <2>6. NewRevocations /\ NewClaims
    BY <1>r, <1>8, Zenon DEF NewRevocations, NewClaims
  <2>. QED BY <2>4, <2>5, <2>6, MobileKept, Zenon
<1>9. CASE /\ Staff!ActiveRows(s) = {} /\ {i \in Staff!Rows : identities[i].subject = s} # {}
           /\ login' = Staff!Outcome(s, invited, identities[CHOOSE i \in {i \in Staff!Rows : identities[i].subject = s} : TRUE])
           /\ UNCHANGED <<identities, claims>>
  <2>1. PICK k \in {i \in Staff!Rows : identities[i].subject = s} :
               k = CHOOSE i \in {i \in Staff!Rows : identities[i].subject = s} : TRUE
    BY <1>9, Zenon
  <2>2. k \in DOMAIN identities /\ identities[k].status # "active"
    BY <1>9, <2>1, Zenon DEF Staff!ActiveRows, Staff!Rows
  <2>. QED BY <1>2, <1>3, <1>4, <1>9, <2>1, <2>2, Zenon
<1>. QED BY <1>1, <1>5, <1>6, <1>7, <1>8, <1>9, Zenon DEF claimed, Staff!MobileAppleSession

\* Every step of the staff directory keeps what the sessions rest on.
LEMMA MobileStep ==
  ASSUME None \notin Subjects, MobileInv, [Staff!Next]_(Staff!vars)
  PROVE  MobileInv'
<1>1. CASE UNCHANGED <<identities, revoked, claims, login>>
  BY <1>1, Zenon DEF MobileInv, OneRow, Staff!RevokedStaysOut, Staff!InvitationsReachTheInvited
<1>2. ASSUME NEW u \in Staff!UserIds, NEW e \in Emails, Staff!Invite(u, e) PROVE MobileInv'
  <2>1. PICK row : row = [user |-> u, subject |-> None, email |-> e, status |-> "pending"]
    BY Zenon
  <2>2. row \in IdentityType /\ row.subject = None
    BY <1>2, <2>1 DEF IdentityType, Staff!UserIds
  <2>3. identities' = Append(identities, row)
    BY <1>2, <2>1, Zenon DEF Staff!Invite
  <2>4. revoked' = revoked /\ claims' = claims /\ login' = login
    BY <1>2, Zenon DEF Staff!Invite
  <2>5. /\ RowsStay /\ identities' \in Seq(IdentityType) /\ OneRow'
    BY <2>2, <2>3, AppendedRow, Zenon
  <2>6. Staff!RevokedStaysOut'
    BY <2>4, Zenon DEF MobileInv, Staff!RevokedStaysOut
  <2>7. NewRevocations /\ NewClaims
    BY <2>4, Zenon DEF NewRevocations, NewClaims
  <2>. QED BY <2>5, <2>6, <2>7, MobileKept, Zenon
<1>3. ASSUME NEW k \in DOMAIN identities, Staff!Revoke(k) PROVE MobileInv'
  <2>1. identities \in Seq(IdentityType) /\ identities[k] \in IdentityType
    BY <1>3 DEF MobileInv
  <2>2. PICK row : row = [identities[k] EXCEPT !.status = "revoked"]
    BY Zenon
  <2>3. /\ row \in IdentityType /\ row.status = "revoked"
        /\ row.subject = identities[k].subject /\ row.email = identities[k].email
    BY <2>1, <2>2, Zenon DEF IdentityType
  <2>4. /\ identities[k].status = "active" /\ identities' = [identities EXCEPT ![k] = row]
        /\ revoked' = revoked \cup {identities[k].subject} /\ login' = Staff!NoLogin /\ claims' = claims
    BY <1>3, <2>2, Zenon DEF Staff!Revoke
  <2>5. /\ identities' \in Seq(IdentityType) /\ DOMAIN identities' = DOMAIN identities /\ identities'[k] = row
        /\ \A i \in DOMAIN identities : i # k => identities'[i] = identities[i]
    BY <1>3, <2>1, <2>3, <2>4
  <2>6. \A i \in DOMAIN identities : identities'[i].subject = identities[i].subject /\ identities'[i].email = identities[i].email
    BY <2>3, <2>5, Zenon
  <2>7. identities[k].status # "revoked"
    BY <2>4, Zenon
  <2>8. RowsStay
    BY <2>5, <2>6, <2>7, Zenon DEF RowsStay
  <2>9. OneRow'
    BY <2>5, <2>6, Zenon DEF MobileInv, OneRow
  <2>10. Staff!RevokedStaysOut'
    BY <2>4, Zenon DEF Staff!NoLogin, Staff!RevokedStaysOut
  <2>11. NewRevocations /\ NewClaims
    BY <1>3, <2>3, <2>4, <2>5, Zenon DEF NewRevocations, NewClaims
  <2>. QED BY <2>5, <2>8, <2>9, <2>10, <2>11, MobileKept, Zenon
<1>4. ASSUME NEW e, NEW a, NEW R, Staff!InsertUser(e, a, R) PROVE UNCHANGED <<identities, revoked, claims, login>>
  BY <1>4, Zenon DEF Staff!InsertUser
<1>5. ASSUME NEW u, NEW e, NEW a, NEW R, Staff!UpdateUser(u, e, a, R) PROVE UNCHANGED <<identities, revoked, claims, login>>
  BY <1>5, Zenon DEF Staff!UpdateUser
<1>6. ASSUME NEW u, NEW R, Staff!SaveRoles(u, R) PROVE UNCHANGED <<identities, revoked, claims, login>>
  BY <1>6, Zenon DEF Staff!SaveRoles
<1>7. CASE UNCHANGED Staff!vars
  BY <1>1, <1>7, Zenon DEF Staff!vars
<1>. QED
  BY <1>1, <1>2, <1>3, <1>4, <1>5, <1>6, <1>7, SessionStep, Zenon DEF Staff!Next, Staff!Rows

\* A subject an operator has revoked is not let in again, whatever invitations are sent to its
\* address afterwards: mobile_apple_session leaves a revoked row alone, and the unique key on
\* apple_subject refuses a second row.
THEOREM RevokedSubjectsStayOut ==
  ASSUME None \notin Subjects
  PROVE  Staff!Spec => []Staff!RevokedStaysOut
<1>1. Staff!Init => MobileInv
  BY DEF Staff!Init, MobileInv, OneRow, Staff!RevokedStaysOut, Staff!InvitationsReachTheInvited, Staff!NoLogin
<1>2. MobileInv /\ [Staff!Next]_(Staff!vars) => MobileInv'
  BY MobileStep, Zenon
<1>3. MobileInv => Staff!RevokedStaysOut
  BY Zenon DEF MobileInv
<1>. QED BY <1>1, <1>2, <1>3, PTL DEF Staff!Spec

\* An invitation is claimed only by a login whose verified address is the invited one, and the
\* address of a row never changes afterwards: mobile_apple_session.
THEOREM InvitationsReachTheirAddress ==
  ASSUME None \notin Subjects
  PROVE  Staff!Spec => []Staff!InvitationsReachTheInvited
<1>1. Staff!Init => MobileInv
  BY DEF Staff!Init, MobileInv, OneRow, Staff!RevokedStaysOut, Staff!InvitationsReachTheInvited, Staff!NoLogin
<1>2. MobileInv /\ [Staff!Next]_(Staff!vars) => MobileInv'
  BY MobileStep, Zenon
<1>3. MobileInv => Staff!InvitationsReachTheInvited
  BY Zenon DEF MobileInv
<1>. QED BY <1>1, <1>2, <1>3, PTL DEF Staff!Spec

=============================================================================
