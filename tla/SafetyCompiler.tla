---- MODULE SafetyCompiler ----
(***************************************************************************)
(* The semantic drift guard of runtime/safety_compiler.py: a guard policy  *)
(* is a list of contrastive pairs, and a learned prior that asks for       *)
(* authority is compiled into a promotion decision.  The policy file is    *)
(* edited over time; every edit is validated before a compiler exists.     *)
(*                                                                         *)
(* A context is a function from some of the context keys to their values;  *)
(* wording and identifiers other than the pair's are left out.             *)
(***************************************************************************)
EXTENDS Naturals, Sequences, FiniteSetsExt

CONSTANTS Deltas,       \* the authority deltas a pair or a prior can name
          UnknownDelta, \* a delta outside the vocabulary
          Priors,       \* learned priors: [source, target, deltas]
          Reviews,      \* sets of reviewed policy artifacts
          Pairs,        \* pairs an editor may add: [id, positive, forbidden, deltas, gate]
          MaxPairs      \* bound on the length of the policy

VARIABLES guard,   \* the contrastive pairs of the installed policy
          edits    \* number of edits that were refused

vars == <<guard, edits>>

Priority == [freeze_prior |-> 1, needs_more_evidence |-> 2, needs_human_review |-> 3, reject |-> 4]

BlockingGates == DOMAIN Priority

\* _validate_guard_policy, for a policy whose fixed header fields are right.
PolicyIsValid(pairs) ==
    /\ pairs # <<>>
    /\ \A i \in DOMAIN pairs :
          /\ pairs[i].deltas # {}
          /\ pairs[i].deltas \subseteq Deltas
          /\ pairs[i].gate \in BlockingGates

ContextContains(actual, expected) ==
    \A k \in DOMAIN expected : k \in DOMAIN actual /\ actual[k] = expected[k]

Matches(pair, prior) ==
    /\ ContextContains(prior.source, pair.positive)
    /\ ContextContains(prior.target, pair.forbidden)
    /\ prior.deltas \cap pair.deltas # {}

\* The places of the pairs that match, in the order of the file.
MatchingPairs(pairs, prior) == {i \in DOMAIN pairs : Matches(pairs[i], prior)}

\* With the last match deciding instead of the strongest one.
StrongestGateMutant(pairs, matched) == pairs[Max(matched)].gate

StrongestGate(pairs, matched) ==
    CHOOSE g \in {pairs[i].gate : i \in matched} :
       \A i \in matched : Priority[pairs[i].gate] <= Priority[g]

Compile(pairs, prior, reviewed) ==
    LET matched == MatchingPairs(pairs, prior)
    IN  IF prior.deltas = {}
        THEN [decision |-> "allow_ranking_only", allowed |-> TRUE]
        ELSE IF matched # {}
        THEN [decision |-> StrongestGate(pairs, matched), allowed |-> FALSE]
        ELSE IF reviewed = {}
        THEN [decision |-> "reject", allowed |-> FALSE]
        ELSE [decision |-> "allow_ranking_only", allowed |-> TRUE]

\* contrastive_pair_coverage_report: the deltas no pair names.
CoverageGaps(pairs) == Deltas \ UNION {pairs[i].deltas : i \in DOMAIN pairs}

Init == guard \in {<<pair>> : pair \in {p \in Pairs : PolicyIsValid(<<p>>)}} /\ edits = 0

\* An edited policy file replaces the installed one if a compiler can be built
\* from it; SafetyCompiler raises otherwise and the old policy stays.
InstallPolicy(pairs) ==
    /\ Len(guard) < MaxPairs
    /\ IF PolicyIsValid(pairs)
       THEN guard' = pairs /\ UNCHANGED edits
       ELSE edits < 1 /\ edits' = edits + 1 /\ UNCHANGED guard

AddPair == \E pair \in Pairs : InstallPolicy(Append(guard, pair))

\* Pairs are kept in the order of the file, which an editor may change.
Reorder == \E i, j \in DOMAIN guard :
    /\ i < j
    /\ guard' = [guard EXCEPT ![i] = guard[j], ![j] = guard[i]]
    /\ UNCHANGED edits

Next == AddPair \/ Reorder

Spec == Init /\ [][Next]_vars

-----------------------------------------------------------------------------

\* Whatever is reviewed, and in whatever order the file lists the pairs, a prior
\* that matches a pair is blocked at least as strongly as that pair demands
\* (compile_learned_authority_prior, _strongest_gate); pairs added later never
\* weaken it.
DecisionIsStrongest ==
    \A prior \in Priors, reviewed \in Reviews :
       LET d == Compile(guard, prior, reviewed)
       IN  \A i \in DOMAIN guard :
              Matches(guard[i], prior) =>
                 ~d.allowed /\ Priority[d.decision] >= Priority[guard[i].gate]

\* The coverage report is honest: a delta it does not list as a gap is blocked
\* for some context even after a review, so a pair really guards it.
CoverageIsHonest ==
    \A delta \in Deltas \ CoverageGaps(guard) :
       \E i \in DOMAIN guard :
          ~Compile(guard, [source |-> guard[i].positive, target |-> guard[i].forbidden,
                           deltas |-> {delta}], {"reviewed"}).allowed
====
