---- MODULE TenantAuthority ----
(***************************************************************************)
(* From task to tenant run: the analyzer reads the task, the Composer      *)
(* checks the Control Plane's tenant authority and seals it into the       *)
(* profile, the enforcer checks the profile once more before it runs, data *)
(* sources are opened from the sealed copy, and the validators look at it  *)
(* a last time.  Meanwhile administrators change tenant, membership and    *)
(* role bundles.  A context is fetched at the start or was stored with the *)
(* queue item.                                                             *)
(***************************************************************************)
EXTENDS Naturals, FiniteSets

CONSTANTS
    Jobs,
    Tasks,          \* tasks that are submitted
    Tenant,         \* the tenant modelled; every other name is unknown to the Control Plane
    Slug,           \* spelling -> identifier, _slugify
    Area, Hostname, Member, Principal,   \* the tenant's area and host, its membership and the member
    Roles, Tools, Sources, Scopes, Modes,
    SourceTenant,   \* Sources -> the tenant that owns the source
    Derived,        \* Roles -> tools of the bundle at first
    Grants,         \* Roles -> (source -> modes) at first
    MaxChanges      \* bound: administrative changes

VARIABLES
    plane,    \* the Control Plane's tenant tables
    job,      \* each job: task, stored context, profile, opened sources
    changes

vars == <<plane, job, changes>>

NoContext == [status |-> "none"]
NoProfile == [review |-> FALSE]
NoJob == [pc |-> "none", task |-> [tenant |-> "none"], stored |-> NoContext, profile |-> NoProfile, opened |-> {},
          startedOn |-> "none"]

Init ==
    /\ plane = [status |-> "active", active |-> TRUE, roles |-> Roles, tools |-> Derived, grants |-> Grants, scopes |-> Scopes]
    /\ job = [j \in Jobs |-> NoJob]
    /\ changes = 0

----
(* Changes of the tenant's tables in D1, by administrators and operators (external) *)

Change(p) ==
    /\ changes < MaxChanges /\ changes' = changes + 1
    /\ plane' = p /\ p # plane
    /\ UNCHANGED job

Administer ==
    \/ \E s \in {"setup", "active", "disabled", "archived"} : Change([plane EXCEPT !.status = s])
    \/ Change([plane EXCEPT !.active = ~@])
    \/ \E r \in Roles : Change([plane EXCEPT !.roles = @ \ {r}])
    \/ \E r \in Roles, t \in Tools : Change([plane EXCEPT !.tools[r] = @ \ {t}])
    \/ \E r \in Roles, s \in Sources : Change([plane EXCEPT !.grants[r][s] = {}])
    \/ \E k \in Scopes : Change([plane EXCEPT !.scopes = @ \ {k}])

----
(* TaskAnalyzer: a task is its claims and the categories whose terms its text matches. *)

\* _classify_task: "fix" does not count in a question.
Categories(t) == IF t.question THEN t.matches \ {"fix"} ELSE t.matches
TypeOf(c) == IF c = "fix" THEN "task-execution" ELSE c
TypesMatched(t) == {TypeOf(c) : c \in Categories(t)}
RequiresReview(t) == Cardinality(TypesMatched(t)) > 1
TaskType(t) == IF Cardinality(TypesMatched(t)) = 1 THEN CHOOSE c \in TypesMatched(t) : TRUE ELSE "general-task"
MissingInformation(t) == TaskType(t) = "code-review" /\ ~t.repository
RequiresKnowledge(t) == TaskType(t) = "research"

\* _auth_claims: tenant and area are turned into identifiers, the area is the tenant unless given.
TenantOf(t) == Slug[t.tenant]
AreaOf(t) == IF t.area = "" THEN TenantOf(t) ELSE Slug[t.area]

----
(* The Control Plane's answer: loadTenantAuthority of the Control API *)

Authority(t) ==
    [tenant |-> Tenant, area |-> Area, host |-> Hostname, status |-> plane.status, member |-> Member, principal |-> Principal,
     active |-> plane.active, roles |-> plane.roles, tools |-> plane.tools, grants |-> plane.grants, scopes |-> plane.scopes]

NoAuthority == [tenant |-> "none"]

\* Candidates, tools of the dependency graph, policy effects and scopes are whatever scoring and
\* policies give; a tenant request is answered with the authority of that tenant, or denied.
Answers(t) ==
    {[status |-> s, authority |-> IF s # "denied" /\ TenantOf(t) = Tenant THEN Authority(t) ELSE NoAuthority,
      candidates |-> c, graph |-> g, effect |-> e, knowledge |-> k, memory |-> m] :
        s \in {"ready", "denied", "invalid_graph", "no_policies"}, c \in SUBSET Tools, g \in SUBSET Tools,
        e \in [Tools -> {"allow", "deny", "none"}], k \in SUBSET Scopes, m \in {{}, Scopes}}

----
(* assert_runtime_tenant_is_startable compares the claim as it was spelled. *)

Startable(t, c) ==
    \/ t.tenant = "global"
    \/ IF c.authority.tenant = "none" THEN c.status = "denied"
       ELSE c.authority.tenant = t.tenant /\ c.authority.status \in {"setup", "active"}

----
(* RuntimeProfileComposer *)

Composable(t, c) ==
    /\ ~MissingInformation(t)
    /\ c.status = "ready"
    /\ c.candidates # {} \/ RequiresReview(t)
    /\ \/ RequiresReview(t)
       \/ /\ RequiresKnowledge(t) /\ c.memory # {} => c.knowledge # {}
          /\ \A x \in c.candidates : c.effect[x] \in {"allow", "none"}
          /\ \A x \in c.graph : c.effect[x] = "allow"

Selected(t, c) ==
    IF RequiresReview(t) THEN [tools |-> {}, knowledge |-> {}, memory |-> {}]
    ELSE [tools |-> c.candidates \cup c.graph, knowledge |-> c.knowledge, memory |-> c.memory]

\* TenantAccessValidator, its five checks.
IdentityHolds(t, a) == a.tenant = TenantOf(t) /\ a.area = AreaOf(t) /\ a.host = t.host /\ a.status \in {"setup", "active"}
MembershipHoldsMutant(t, a) == a.member = t.member /\ a.principal = t.principal /\ a.active
MembershipHolds(t, a) == a.member = t.member /\ a.principal = t.principal /\ a.active /\ t.roles \subseteq a.roles
GrantedSources(a, roles) == {s \in Sources : \E r \in roles : a.grants[r][s] # {}}
RoleGrantsHold(t, a) ==
    /\ \A s \in GrantedSources(a, t.roles) : SourceTenant[s] = TenantOf(t)
    /\ t.sources \subseteq GrantedSources(a, t.roles)
AllowedTools(a, roles) == UNION {a.tools[r] : r \in roles}
ModulesHold(t, a, sel) ==
    /\ sel.tools \subseteq AllowedTools(a, t.roles)
    /\ sel.knowledge \subseteq a.scopes /\ sel.memory \subseteq a.scopes
TenantAccess(t, a, sel) ==
    \/ TenantOf(t) = "global"
    \/ /\ a.tenant # "none"
       /\ IdentityHolds(t, a) /\ MembershipHolds(t, a) /\ RoleGrantsHold(t, a) /\ ModulesHold(t, a, sel)

Profile(t, c) ==
    [review |-> RequiresReview(t), tenant |-> TenantOf(t), area |-> AreaOf(t), host |-> t.host, member |-> t.member, principal |-> t.principal,
     roles |-> t.roles, sources |-> t.sources, taskType |-> TaskType(t), selected |-> Selected(t, c),
     budget |-> IF RequiresReview(t) THEN 0 ELSE 1,
     authority |-> IF TenantOf(t) = "global" THEN NoAuthority ELSE c.authority]

----
(* ProfileEnforcer._validate_tenant_authority, written a second time over the sealed profile *)

EnforcedIdentity(p) ==
    p.authority.tenant = p.tenant /\ p.authority.area = p.area /\ p.authority.host = p.host /\ p.authority.status \in {"setup", "active"}
EnforcedMembership(p) ==
    p.authority.member = p.member /\ p.authority.principal = p.principal /\ p.authority.active /\ p.roles \subseteq p.authority.roles
EnforcedGrants(p) ==
    /\ \A s \in GrantedSources(p.authority, p.roles) : SourceTenant[s] = p.tenant
    /\ p.sources \subseteq GrantedSources(p.authority, p.roles)
EnforcedModules(p) ==
    /\ p.selected.tools \subseteq AllowedTools(p.authority, p.roles)
    /\ p.selected.knowledge \subseteq p.authority.scopes /\ p.selected.memory \subseteq p.authority.scopes
Enforced(p) ==
    IF p.tenant = "global" THEN p.authority.tenant = "none"
    ELSE /\ p.authority.tenant # "none"
         /\ EnforcedIdentity(p) /\ EnforcedMembership(p) /\ EnforcedGrants(p) /\ EnforcedModules(p)

----
(* The tenant validators *)

TenantProfileValidator(p) ==
    IF p.tenant = "global" THEN p.authority.tenant = "none"
    ELSE p.authority.tenant = p.tenant /\ p.authority.area = p.area /\ p.authority.host = p.host /\ p.authority.member = p.member /\ p.authority.principal = p.principal
NoCrossTenantScopeValidator(p) ==
    p.tenant = "global" \/ (p.authority.tenant # "none" /\ p.selected.knowledge \cup p.selected.memory \subseteq p.authority.scopes)
NoCrossAreaScopeValidator(p) == p.tenant = "global" \/ (p.authority.tenant # "none" /\ p.authority.area = p.area)
KnowledgeScopeValidator(p) ==
    p.tenant = "global" \/ (p.authority.tenant # "none" /\ p.selected.knowledge \subseteq p.authority.scopes)
\* RuntimeOutputContractValidator: the output names the type of the task and has its parts.
OutputContractValidator(p, out) == out.complete /\ out.taskType = p.taskType

----
(* Jobs *)

\* enqueue; the context may be stored with the item, and is checked when it is.
Submit(j, t) ==
    /\ job[j].pc = "none"
    /\ \/ job' = [job EXCEPT ![j].pc = "queued", ![j].task = t]
       \/ \E c \in Answers(t) :
            /\ Startable(t, c)
            /\ job' = [job EXCEPT ![j].pc = "queued", ![j].task = t, ![j].stored = c]
    /\ UNCHANGED <<plane, changes>>

\* entrypoint.start with the stored context, or one fetched now.
Start(j) ==
    LET t == job[j].task IN
    /\ job[j].pc = "queued"
    /\ \E c \in IF job[j].stored = NoContext THEN Answers(t) ELSE {job[j].stored} :
          IF /\ Startable(t, c) /\ Composable(t, c)
             /\ TenantAccess(t, c.authority, Selected(t, c))
          THEN job' = [job EXCEPT ![j].pc = "started", ![j].profile = Profile(t, c), ![j].startedOn = plane.status]
          ELSE job' = [job EXCEPT ![j].pc = "refused"]
    /\ UNCHANGED <<plane, changes>>

Enforce(j) ==
    /\ job[j].pc = "started"
    /\ job' = [job EXCEPT ![j].pc = IF Enforced(job[j].profile) THEN "running" ELSE "rejected"]
    /\ UNCHANGED <<plane, changes>>

\* TenantDataSourceConnector.connect
GrantedModesMutant(p, s) == UNION {p.authority.grants[r][s] : r \in Roles}
GrantedModes(p, s) == UNION {p.authority.grants[r][s] : r \in p.roles}
Connect(j, s, mode) ==
    LET p == job[j].profile IN
    /\ job[j].pc = "running"
    /\ p.tenant # "global" /\ s \in p.sources /\ SourceTenant[s] = p.tenant
    /\ mode \in GrantedModes(p, s)
    /\ job' = [job EXCEPT ![j].opened = @ \cup {<<s, mode>>}]
    /\ UNCHANGED <<plane, changes>>

Validate(j, out) ==
    LET p == job[j].profile IN
    /\ job[j].pc = "running"
    /\ job' = [job EXCEPT ![j].pc =
           IF /\ TenantProfileValidator(p) /\ NoCrossTenantScopeValidator(p) /\ NoCrossAreaScopeValidator(p)
              /\ KnowledgeScopeValidator(p) /\ OutputContractValidator(p, out)
           THEN "succeeded" ELSE "failed"]
    /\ UNCHANGED <<plane, changes>>

Outputs == [taskType : {"code-review", "research", "task-execution", "general-task"}, complete : BOOLEAN]

Next ==
    \/ Administer
    \/ \E j \in Jobs :
         \/ \E t \in Tasks : Submit(j, t)
         \/ Start(j) \/ Enforce(j)
         \/ \E s \in Sources, mode \in Modes : Connect(j, s, mode)
         \/ \E out \in Outputs : Validate(j, out)

Spec == Init /\ [][Next]_vars

----
(* Properties *)

\* Composer, enforcer and validators hold the same view of authority: what the Composer seals is
\* never rejected by the enforcer, and no tenant validator fails it after it has run.
ComposedIsEnforced ==
    \A j \in Jobs : job[j].pc = "started" =>
       LET p == job[j].profile IN
       /\ Enforced(p)
       /\ TenantProfileValidator(p) /\ NoCrossTenantScopeValidator(p) /\ NoCrossAreaScopeValidator(p) /\ KnowledgeScopeValidator(p)

\* Whatever was proposed and however the tables change, a tenant run holds only tools and opened
\* sources that a role of its membership gave when its context was made, the source's mode included.
NothingBeyondRoles ==
    \A j \in Jobs : job[j].pc \in {"running", "succeeded"} /\ job[j].profile.tenant # "global" =>
       LET p == job[j].profile IN
       /\ \A x \in p.selected.tools : \E r \in p.roles \cap p.authority.roles : x \in p.authority.tools[r]
       /\ \A o \in job[j].opened : SourceTenant[o[1]] = p.tenant /\ \E r \in p.roles \cap p.authority.roles : o[2] \in p.authority.grants[r][o[1]]

\* A task whose text fits two specialised types runs without tools, scopes and budget, whatever the
\* Control Plane answers.
AmbiguousRunsBare ==
    \A j \in Jobs : job[j].pc \in {"started", "running", "succeeded"} /\ RequiresReview(job[j].task) =>
       /\ job[j].profile.review /\ job[j].profile.budget = 0
       /\ \A f \in DOMAIN job[j].profile.selected : job[j].profile.selected[f] = {}

----
(* Statements of the documents that the code does not keep. *)

\* "Control Plane tenant status must also block new starts for disabled or archived tenants."
DisabledTenantsDoNotStart ==
    \A j \in Jobs : job[j].startedOn \in {"disabled", "archived"} => job[j].profile.tenant = "global"
====
