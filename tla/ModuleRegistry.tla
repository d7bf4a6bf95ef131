---- MODULE ModuleRegistry ----
(***************************************************************************)
(* The in-memory module registry: module versions are loaded, then asked   *)
(* for candidates, scores, policy decisions and the validity of the        *)
(* dependency graph below a selection.  The graph is searched the way the  *)
(* code does, by two recursive walks; the properties compare the walks     *)
(* with transitive closure.                                                *)
(***************************************************************************)
EXTENDS Integers, FiniteSets, Sequences, FiniteSetsExt, SequencesExt

CONSTANTS
    Modules,    \* module records that may be loaded
    Queries, Signals, Contexts, Selections   \* arguments of the queries

VARIABLES
    registry,   \* <<name, version>> -> module
    answer      \* the last query and its result

vars == <<registry, answer>>

Nothing == [op |-> "none"]

Init == registry = <<>> /\ answer = Nothing

----
(* Loading and resolving *)

Key(m) == <<m.name, m.version>>
Names == {k[1] : k \in DOMAIN registry}

Load(m) ==
    /\ Key(m) \notin DOMAIN registry   \* DuplicateModuleError
    /\ registry' = [k \in DOMAIN registry \cup {Key(m)} |-> IF k = Key(m) THEN m ELSE registry[k]]
    /\ UNCHANGED answer

\* _semver_key: versions are compared number by number; text would put 10 before 9.
SemverLess(v, w) == v[1] < w[1] \/ (v[1] = w[1] /\ v[2] < w[2])

Resolve(n) ==
    LET versions == {k[2] : k \in {x \in DOMAIN registry : x[1] = n}}
    IN  registry[<<n, CHOOSE v \in versions : \A w \in versions : ~SemverLess(v, w)>>]

References(n) == Resolve(n).refs

----
(* Discovery, scores and policy *)

MatchesQuery(m, q) ==
    /\ m.mode # "dependency_only"
    /\ q.kinds = {} \/ m.kind \in q.kinds
    /\ q.classes = {} \/ m.class \in q.classes
    /\ q.domains = {} \/ m.domains \cap q.domains # {}
    /\ q.taskTypes = {} \/ m.taskTypes \cap q.taskTypes # {}
    /\ q.requireInputs => m.inputs \subseteq q.inputs

Discover(q) ==
    /\ answer' = [op |-> "discover", found |-> {k \in DOMAIN registry : MatchesQuery(registry[k], q)}]
    /\ UNCHANGED registry

\* _signal_matches; a signal is a prefix and a value.
SignalMatches(s, m, t) ==
    \/ s[1] = "task_type" /\ s[2] = t.taskType
    \/ s[1] = "risk_level" /\ s[2] = t.risk
    \/ s[1] = "domain" /\ s[2] \in t.domains
    \/ s[1] = "input" /\ s[2] \in t.inputs
    \/ s[1] = "capability_class" /\ s[2] \in {m.class} \cup t.hints
    \/ s[1] \in {"phrase", "trigger"} /\ s[2] \in t.phrases \cup t.constraints
    \/ s[1] = "constraint" /\ s[2] \in t.constraints

\* _error_feedback_penalty, in hundredths: the largest one counts.
Penalty(feedback, class) ==
    CASE feedback = "F1" /\ class \in {"analysis", "execution"} -> 12
      [] feedback = "F1" /\ class = "retrieval" -> 6
      [] feedback = "F2" /\ class = "validation" -> 16
      [] feedback = "F2" /\ class = "execution" -> 10
      [] feedback = "R8" /\ class \in {"policy", "instruction"} -> 20
      [] OTHER -> 0

FeedbackPenalty(m, t) == Max({0} \cup {Penalty(f, m.class) : f \in t.feedback})

Clamp(x) == IF x < 0 THEN 0 ELSE IF x > 100 THEN 100 ELSE x

Score(m, t) ==
    IF m.mode = "dependency_only" THEN 0
    ELSE LET applied == {i \in DOMAIN m.modifiers : SignalMatches(m.modifiers[i].signal, m, t)}
         IN  Clamp(FoldSet(LAMBDA i, sum : sum + m.modifiers[i].weight, m.base, applied) - FeedbackPenalty(m, t))

ScoreModule(k, t) ==
    /\ answer' = [op |-> "score", module |-> registry[k], signals |-> t, score |-> Score(registry[k], t)]
    /\ UNCHANGED registry

Effect(m, c) ==
    IF m.name \in c.names \/ m.kind \in c.kinds \/ m.class \in c.classes THEN "deny"
    ELSE IF m.allPolicies /\ ~({r.target : r \in {x \in m.refs : x.kind = "policy"}} \subseteq c.allowed)
    THEN "needs_clarification" ELSE "allow"

FilterCandidate(k, c) ==
    /\ answer' = [op |-> "filter", module |-> registry[k], context |-> c, effect |-> Effect(registry[k], c)]
    /\ UNCHANGED registry

----
(* The dependency graph below a selection *)

\* _collect_reachable: missing names are passed over, every other reference is followed once.
RECURSIVE CollectReachableMutant(_, _)
CollectReachableMutant(n, reachable) ==
    IF n \in reachable \/ n \notin Names THEN reachable
    ELSE IF \E r \in References(n) : r.target \notin Names THEN reachable \cup {n}
    ELSE FoldSet(LAMBDA r, acc : CollectReachableMutant(r.target, acc), reachable \cup {n}, References(n))
RECURSIVE CollectReachable(_, _)
CollectReachable(n, reachable) ==
    IF n \in reachable \/ n \notin Names THEN reachable
    ELSE FoldSet(LAMBDA r, acc : CollectReachable(r.target, acc), reachable \cup {n}, References(n))

\* _cycle_errors: a name met while it is being visited closes a cycle, which is reported as the path to it.
RECURSIVE Visit(_, _, _)
Visit(n, walk, graph) ==
    IF Contains(walk.path, n)
    THEN [walk EXCEPT !.cycles = @ \cup {Append(SubSeq(walk.path, CHOOSE i \in DOMAIN walk.path : walk.path[i] = n, Len(walk.path)), n)}]
    ELSE IF n \in walk.visited THEN walk
    ELSE LET targets == {r.target : r \in References(n)} \cap graph
             done == FoldSet(LAMBDA x, acc : Visit(x, acc, graph), [walk EXCEPT !.path = Append(@, n)], targets)
         IN  [done EXCEPT !.path = Front(@), !.visited = @ \cup {n}]

Cycles(reachable) ==
    FoldSet(LAMBDA n, walk : Visit(n, walk, reachable), [path |-> <<>>, visited |-> {}, cycles |-> {}], reachable).cycles

BadReferences(reachable) ==
    {<<n, r>> \in UNION {{n} \X References(n) : n \in reachable} : r.target \notin Names \/ Resolve(r.target).kind # r.kind}

DeniedModules(selected, reachable, c) == {n \in reachable : Resolve(n).class \in c.classes}

ValidateGraph(selected, c) ==
    LET reachable == FoldSet(LAMBDA n, acc : CollectReachable(n, acc), {}, selected)
        cycles == Cycles(reachable)
    IN  /\ answer' = [op |-> "validate", selected |-> selected, context |-> c, reachable |-> reachable, cycles |-> cycles,
                      valid |-> /\ selected \subseteq Names /\ BadReferences(reachable) = {}
                                /\ DeniedModules(selected, reachable, c) = {} /\ cycles = {}]
        /\ UNCHANGED registry

\* The caller has its answer before it asks again.
Return == answer # Nothing /\ answer' = Nothing /\ UNCHANGED registry

Ask ==
    \/ \E m \in Modules : Load(m)
    \/ \E q \in Queries : Discover(q)
    \/ \E k \in DOMAIN registry : \E t \in Signals : ScoreModule(k, t)
    \/ \E k \in DOMAIN registry : \E c \in Contexts : FilterCandidate(k, c)
    \/ \E selected \in Selections, c \in Contexts : ValidateGraph(selected, c)

Next == (answer = Nothing /\ Ask) \/ Return

Spec == Init /\ [][Next]_vars

----
(* Properties *)

\* Reference definitions: the newest version by number, and reachability as the least set closed
\* under the references of newest versions.
Newest(n) ==
    CHOOSE m \in {registry[k] : k \in DOMAIN registry} :
        /\ m.name = n
        /\ \A k \in DOMAIN registry : k[1] = n => k[2][1] < m.version[1] \/ (k[2][1] = m.version[1] /\ k[2][2] <= m.version[2])
Edges == {<<a, b>> \in Names \X Names : \E r \in Newest(a).refs : r.target = b}
Closed(S) == \A e \in Edges : e[1] \in S => e[2] \in S
Closure(S) == CHOOSE C \in SUBSET Names :
    /\ S \cap Names \subseteq C /\ Closed(C)
    /\ \A D \in SUBSET Names : S \cap Names \subseteq D /\ Closed(D) => C \subseteq D

\* validate_graph collects what the selection needs and no more: the closure of the references of
\* the newest versions, whatever cycles and gaps the graph has.
ReachableIsClosure == answer.op = "validate" => answer.reachable = Closure(answer.selected)

\* Cycles are reported when there is one, and each one reported goes round along references.
CyclesAreCycles ==
    answer.op = "validate" =>
       /\ \A c \in answer.cycles : c[1] = c[Len(c)] /\ \A i \in 1 .. Len(c) - 1 : <<c[i], c[i + 1]>> \in Edges
       /\ answer.cycles = {} <=> \A a \in answer.reachable :
             a \notin Closure({e[2] : e \in {x \in Edges : x[1] = a}})

\* A graph found valid is closed, of the kinds its references expect, and free of the denied
\* capability classes down to the last dependency.
ValidIsUsable ==
    answer.op = "validate" /\ answer.valid =>
       \A n \in answer.selected \cup answer.reachable :
          /\ n \in Names /\ Newest(n).class \notin answer.context.classes
          /\ \A r \in Newest(n).refs : r.target \in answer.reachable /\ Newest(r.target).kind = r.kind

\* More feedback about errors never raises a score, and a score stays within its range.
FeedbackNeverHelps ==
    answer.op = "score" =>
       /\ answer.score \in 0 .. 100
       /\ \A less \in SUBSET answer.signals.feedback : answer.score <= Score(answer.module, [answer.signals EXCEPT !.feedback = less])
====
