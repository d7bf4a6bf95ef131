---- MODULE MCPolicy ----
(***************************************************************************)
(* The parts that decide what a run may do: denial ledger, safety compiler,*)
(* capability gaps, module registry and tenant authority.  They share no   *)
(* state, so a property of one holds of all of them together exactly when  *)
(* it holds of that one alone; scene, chosen at the start, says which part *)
(* moves.  The variables of the others stay as they are.                   *)
(***************************************************************************)
EXTENDS DenialLedger, Integers

VARIABLES
    scene,
    guard, edits,                                      \* safety compiler
    profile, counters, refused, gaps, events, calls,   \* capability gaps
    registry, found,                                   \* module registry
    plane, job, changes                                \* tenant authority

guardVars == <<guard, edits>>
gapVars == <<profile, counters, refused, gaps, events, calls>>
registryVars == <<registry, found>>
tenantVars == <<plane, job, changes>>

----
(* Denial ledger: two principals ask for a scope, a scope below it, or a tool, under two closure versions. *)

SomeRequests ==
    {[profile |-> "p1", principal |-> u, predicate |-> "denied", kind |-> ki[1], id |-> ki[2], policy |-> "q1", version |-> v] :
        u \in {"u1", "u2"}, v \in {"v1", "v2"}, ki \in {<<"data_scope", "root">>, <<"data_scope", "leaf">>, <<"tool", "root">>}}
SomeEntries ==
    {[version |-> v, kind |-> "data_scope", ancestor |-> "root", descendant |-> "leaf", policy |-> "q1"] : v \in {"v1", "v2"}}

----
(* Safety compiler: pairs that overlap, differ in their gates, or are invalid. *)

Ctx(e, r) == [environment |-> e, risk_level |-> r]
Env(e) == [environment |-> e]
Pair(id, positive, forbidden, deltas, gate) ==
    [id |-> id, positive |-> positive, forbidden |-> forbidden, deltas |-> deltas, gate |-> gate]

SomePairs ==
    {Pair("p1", Env("dev"), Env("prod"), {"tool_addition"}, "reject"),
     Pair("p2", Env("dev"), Ctx("prod", "high"), {"tool_addition", "scope_expansion"}, "needs_human_review"),
     Pair("p3", Ctx("dev", "low"), Env("prod"), {"scope_expansion"}, "freeze_prior"),
     Pair("p4", Env("dev"), Env("prod"), {"unknown_delta"}, "reject"),
     Pair("p5", Env("dev"), Env("prod"), {}, "reject"),
     Pair("p6", Env("dev"), Env("dev"), {"budget_increase"}, "allow_ranking_only")}

SomePriors ==
    {[source |-> s, target |-> t, deltas |-> d] :
        s \in {Ctx("dev", "low"), Ctx("prod", "low")},
        t \in {Ctx("prod", "high"), Ctx("prod", "low"), Ctx("dev", "low")},
        d \in {{}, {"tool_addition"}, {"scope_expansion"}, {"tool_addition", "budget_increase"}}}

Guard == INSTANCE SafetyCompiler WITH
    Deltas <- {"tool_addition", "scope_expansion", "budget_increase"}, UnknownDelta <- "unknown_delta", Priors <- SomePriors,
    Reviews <- {{}, {"adr"}}, Pairs <- SomePairs, MaxPairs <- 4

----
(* Capability gaps: every set of grants against a tool that is granted, denied, unknown or without adapter. *)

SomeProfiles ==
    {[generation |-> 1, risk_level |-> risk, tools |-> tools, policies |-> policies, data_scopes |-> scopes, skills |-> <<>>,
      pinned |-> <<>>, limits |-> [max_tool_calls |-> l[1], max_data_reads |-> l[2], max_recompositions |-> 1]] :
        tools \in {{"git-read"}, {"git-read", "filesystem-write", "shell"}}, policies \in {{}, {"write-approval-required"}},
        scopes \in {{}, {"repository-readonly"}, {"repository-readonly", "repository-write"}}, risk \in {"low", "high"},
        l \in {<<1, 2>>, <<2, 1>>}}

Gaps == INSTANCE CapabilityGaps WITH
    Profiles <- SomeProfiles, Adapters <- {"git-read", "filesystem-write", "test-runner"},
    Requested <- {"git-read", "filesystem-write", "test-runner", "shell"}, MaxInvocations <- 3

----
(* Module registry: graphs, versions, and modules that are scored and filtered. *)

Module(n, v, kind, class, refs) ==
    [name |-> n, version |-> v, kind |-> kind, class |-> class, refs |-> refs, mode |-> "direct", allPolicies |-> FALSE,
     inputs |-> {}, domains |-> {"law"}, taskTypes |-> {"research"}, base |-> 50, modifiers |-> <<>>]
ToTool(T) == {[target |-> x, kind |-> "tool"] : x \in T}

\* All graphs over three names and one that is never loaded.
GraphModules ==
    {Module("a", <<1, 0>>, "skill", "analysis", ToTool(T)) : T \in SUBSET {"a", "b", "c", "d"}}
    \cup {Module("b", <<1, 0>>, "tool", "execution", ToTool(T)) : T \in SUBSET {"a", "b", "c", "d"}}
    \cup {Module("c", <<1, 0>>, kind, "retrieval", ToTool(T)) : T \in SUBSET {"a", "b"}, kind \in {"tool", "policy"}}

\* Two versions of each of two names.
VersionedModules ==
    {Module(n, v, "tool", class, ToTool(T)) :
        n \in {"a", "b"}, v \in {<<0, 9>>, <<0, 10>>}, class \in {"analysis", "execution"}, T \in SUBSET {"a", "b"}}

Mod(s, w) == [signal |-> s, weight |-> w]
ScoredModules ==
    {[Module("a", <<1, 0>>, "skill", class, {[target |-> "p", kind |-> "policy"]})
        EXCEPT !.base = base, !.modifiers = mods, !.mode = mode, !.allPolicies = all, !.inputs = {"repo"}] :
        class \in {"analysis", "execution", "validation", "policy", "retrieval"}, base \in {0, 50, 95}, all \in BOOLEAN,
        mode \in {"direct", "dependency_only"},
        mods \in {<<>>, <<Mod(<<"task_type", "research">>, 20), Mod(<<"phrase", "why">>, -60)>>,
                  <<Mod(<<"constraint", "why">>, 10), Mod(<<"capability_class", "execution">>, 5), Mod(<<"domain", "law">>, 5)>>,
                  <<Mod(<<"risk_level", "high">>, -10), Mod(<<"input", "repo">>, 10), Mod(<<"other", "repo">>, 50)>>}}

Denying(names, kinds, classes, allowed) == [names |-> names, kinds |-> kinds, classes |-> classes, allowed |-> allowed]
NoExecution == {Denying({}, {}, {}, {}), Denying({}, {}, {"execution"}, {})}
AnyDenial == {Denying(ns, ks, cs, al) : ns \in {{}, {"a"}}, ks \in {{}, {"skill"}}, cs \in {{}, {"execution"}}, al \in {{}, {"p"}}}

Asked == [taskType |-> "research", risk |-> "high", domains |-> {"law"}, inputs |-> {"repo"}, hints |-> {}, phrases |-> {"why"},
          constraints |-> {}, feedback |-> {}]
SomeSignals ==
    {[t EXCEPT !.feedback = f] : f \in SUBSET {"F1", "F2", "R8"},
        t \in {Asked, [Asked EXCEPT !.phrases = {}, !.constraints = {"why"}, !.hints = {"execution"}],
               [Asked EXCEPT !.risk = "low", !.phrases = {}]}}
SomeQueries ==
    [kinds : {{}, {"skill"}, {"tool"}}, classes : {{}, {"execution"}}, domains : {{}, {"law", "tax"}, {"tax"}},
     taskTypes : {{}, {"research"}, {"general-task"}}, requireInputs : BOOLEAN, inputs : {{}, {"repo"}}]

Graphs == INSTANCE ModuleRegistry WITH
    Modules <- GraphModules, Queries <- {}, Signals <- {}, Contexts <- NoExecution,
    Selections <- (SUBSET {"a", "b", "c", "d"}) \ {{}}, answer <- found
Versions == INSTANCE ModuleRegistry WITH
    Modules <- VersionedModules, Queries <- {}, Signals <- {}, Contexts <- NoExecution,
    Selections <- {{"a"}, {"b"}, {"a", "b"}}, answer <- found
Scores == INSTANCE ModuleRegistry WITH
    Modules <- ScoredModules, Queries <- SomeQueries, Signals <- SomeSignals, Contexts <- AnyDenial, Selections <- {}, answer <- found

----
(* Tenant authority: who asks, and what is asked. *)

Task(tenant, roles, sources, matches) ==
    [tenant |-> tenant, area |-> "", host |-> "h1", member |-> "m1", principal |-> "p1", roles |-> roles, sources |-> sources,
     matches |-> matches, question |-> FALSE, repository |-> TRUE]
Ordinary == Task("acme", {"sales"}, {"crm"}, {"research"})

\* Spellings, other people, other hosts, more roles and sources than the membership has; a text that
\* fits two categories, a question about a fix, a review without repository.
SomeTasks ==
    {Ordinary, [Ordinary EXCEPT !.tenant = "Acme"], [Ordinary EXCEPT !.area = "other"], [Ordinary EXCEPT !.tenant = "Global"],
     [Ordinary EXCEPT !.host = "h2"], [Ordinary EXCEPT !.principal = "p2"],
     Task("acme", {"sales", "admin"}, {"crm"}, {"research"}), Task("acme", {"sales"}, {"crm", "wiki"}, {"research"}),
     Task("acme", {"sales"}, {"crm"}, {"code-review", "fix"}),
     [Task("acme", {"sales"}, {"crm"}, {"research", "fix"}) EXCEPT !.question = TRUE],
     [Task("acme", {"sales"}, {"crm"}, {"code-review"}) EXCEPT !.repository = FALSE]}

Tenants == INSTANCE TenantAuthority WITH
    Jobs <- {"j1"}, Tasks <- SomeTasks, Tenant <- "acme",
    Slug <- [acme |-> "acme", Acme |-> "acme", global |-> "global", Global |-> "global", other |-> "other"],
    Area <- "acme", Hostname <- "h1", Member <- "m1", Principal <- "p1", Roles <- {"sales", "admin"}, Tools <- {"t1", "t2"},
    Sources <- {"crm", "wiki"}, Scopes <- {"k1"}, Modes <- {"read", "write"}, SourceTenant <- [crm |-> "acme", wiki |-> "other"],
    Derived <- [sales |-> {"t1"}, admin |-> {"t1", "t2"}],
    Grants <- [sales |-> [crm |-> {"read"}, wiki |-> {}], admin |-> [crm |-> {"read", "write"}, wiki |-> {}]],
    MaxChanges <- 1

----
\* A part that is not played is absent.
PolicyInit ==
    /\ scene \in {"ledger", "guard", "gaps", "graphs", "versions", "scores", "tenants"}
    /\ Init /\ Graphs!Init
    /\ IF scene = "guard" THEN Guard!Init ELSE guard = <<>> /\ edits = 0
    /\ IF scene = "gaps" THEN Gaps!Init
       ELSE profile = <<>> /\ counters = <<>> /\ refused = <<>> /\ gaps = <<>> /\ events = <<>> /\ calls = 0
    /\ IF scene = "tenants" THEN Tenants!Init ELSE plane = <<>> /\ job = <<>> /\ changes = 0

PolicyNext ==
    \/ scene = "ledger" /\ Next /\ UNCHANGED <<scene, guardVars, gapVars, registryVars, tenantVars>>
    \/ scene = "guard" /\ Guard!Next /\ UNCHANGED <<scene, vars, gapVars, registryVars, tenantVars>>
    \/ scene = "gaps" /\ Gaps!Next /\ UNCHANGED <<scene, vars, guardVars, registryVars, tenantVars>>
    \/ scene = "graphs" /\ Graphs!Next /\ UNCHANGED <<scene, vars, guardVars, gapVars, tenantVars>>
    \/ scene = "versions" /\ Versions!Next /\ UNCHANGED <<scene, vars, guardVars, gapVars, tenantVars>>
    \/ scene = "scores" /\ Scores!Next /\ UNCHANGED <<scene, vars, guardVars, gapVars, tenantVars>>
    \/ scene = "tenants" /\ Tenants!Next /\ UNCHANGED <<scene, vars, guardVars, gapVars, registryVars>>

PolicySpec == PolicyInit /\ [][PolicyNext]_<<scene, vars, guardVars, gapVars, registryVars, tenantVars>>

----
(* Properties of the parts, beside those of the ledger. *)

\* Whatever is reviewed, and in whatever order the file lists the pairs, a prior that matches a pair
\* is blocked at least as strongly as that pair demands (compile_learned_authority_prior,
\* _strongest_gate); pairs added later never weaken it, and a delta the coverage report does not list
\* as a gap is really blocked somewhere.
DecisionIsStrongest == scene = "guard" => Guard!DecisionIsStrongest /\ Guard!CoverageIsHonest

\* Learning from denials never hides one: whatever the enforcer refuses is recorded, in order, with its
\* code and stop reason; each link of an event leads to a candidate for that reason, and every
\* candidate is one some event names (capability_gap.py, tool_gateway.py).
DenialsAreTraced == scene = "gaps" => Gaps!DenialsAreRecorded /\ Gaps!GapsFollowDenials

\* The registry answers for the newest versions: validate_graph collects the closure of the selection,
\* reports a cycle exactly when there is one, and a graph it finds valid is closed, well-kinded and
\* free of denied capability classes down to the last dependency; more feedback about errors never
\* raises a score, whichever entries come on top of which (InMemoryModuleRegistry.score).
RegistryIsExact ==
    /\ scene \in {"graphs", "versions"} => Graphs!ReachableIsClosure /\ Graphs!CyclesAreCycles /\ Graphs!ValidIsUsable
    /\ scene = "scores" => Scores!FeedbackNeverHelps

\* Composer, enforcer and validators hold the same view of authority: what the Composer seals is
\* never rejected by the enforcer, and no tenant validator fails it after it has run.
ComposedIsEnforced == scene = "tenants" => Tenants!ComposedIsEnforced

\* Whatever was proposed and however the tables change, a tenant run holds only tools and opened
\* sources that a role of its membership gave when its context was made, and a task whose text fits
\* two specialised types runs without tools, scopes and budget.
NothingBeyondAuthority == scene = "tenants" => Tenants!NothingBeyondRoles /\ Tenants!AmbiguousRunsBare
====
