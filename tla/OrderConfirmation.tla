---- MODULE OrderConfirmation ----
(***************************************************************************)
(* Supplier confirmations (AB) of one order: entry, matching against the   *)
(* order, decisions on the exceptions.  Entry, reading the match context   *)
(* and writing the result are separate transactions; the synchronisation   *)
(* of CaratOrders may replace the order's positions between them.  Prices  *)
(* and dates of order positions are columns filled outside this code.      *)
(***************************************************************************)
EXTENDS Integers, FiniteSets, Sequences, FiniteSetsExt

CONSTANTS
    None,         \* SQL NULL
    Orders,       \* contents the order may have: sequences of positions
    Entries,      \* texts a seller enters: sequences of lines
    Threads,      \* concurrent requests
    MaxRequests,  \* bound: requests served
    MaxSyncs,     \* bound: synchronisations of the order
    BufferDays    \* days of delay from which a delivery date is red (7 in the code)

VARIABLES
    order,          \* app.supplier_order_positions: [version, rows]
    confirmations,  \* app.supplier_order_confirmations with positions and inbox item
    exceptions,     \* app.supplier_order_confirmation_exceptions, by id
    decisions,      \* app.supplier_order_confirmation_decisions, in order
    drafts,         \* exceptions with a supplier communication and follow-up
    thread, served

vars == <<order, confirmations, exceptions, decisions, drafts, thread, served>>

Idle == [pc |-> "idle", id |-> 0, exc |-> 0, act |-> "none", version |-> 0, rows |-> <<>>]

Init ==
    /\ order \in {[version |-> 0, rows |-> o] : o \in Orders}
    /\ confirmations = <<>> /\ exceptions = <<>> /\ decisions = <<>>
    /\ drafts = {}
    /\ thread = [t \in Threads |-> Idle]
    /\ served = 0

----
(* recompute_supplier_confirmation_matching, the part in Python *)

Rank(severity) == CASE severity = "green" -> 0 [] severity = "yellow" -> 1 [] severity = "red" -> 2
Worst(a, b) == IF Rank(a) >= Rank(b) THEN a ELSE b

\* A dictionary by article code: the last position of an article wins; no code, no entry.
Candidate(rows, line) ==
    IF line.article = None THEN 0
    ELSE Max({0} \cup {i \in DOMAIN rows : rows[i].article = line.article})

\* Each comparison yields an exception or none: <<type, severity, match_status>>.  The code calls an
\* unreadable price an unreadable field too.
QuantityFinding(o, l) ==
    IF o.quantity = None THEN {}
    ELSE IF l.quantity = None THEN {<<"unreadable_field", "red", "manual_review_required">>}
    ELSE IF l.quantity # o.quantity THEN {<<"quantity", "yellow", "matched_with_warning">>} ELSE {}

PriceFinding(o, l) ==
    IF o.price = None THEN {}
    ELSE IF l.price = None THEN {<<"unreadable_price", "red", "manual_review_required">>}
    ELSE IF l.price # o.price THEN {<<"net_price", "yellow", "matched_with_warning">>} ELSE {}

\* An earlier date is no finding; calendar weeks count when a date is missing.
DeliveryFinding(o, l) ==
    IF o.date # None /\ l.date # None
    THEN IF l.date - o.date >= BufferDays THEN {<<"delivery_date", "red", "manual_review_required">>}
         ELSE IF l.date > o.date THEN {<<"delivery_date", "yellow", "matched_with_warning">>} ELSE {}
    ELSE IF o.week # None /\ l.week # None /\ o.week # l.week
    THEN {<<"delivery_date", "yellow", "matched_with_warning">>} ELSE {}

LineFindings(rows, l) ==
    LET c == Candidate(rows, l) IN
    IF c = 0 THEN {<<"extra_position", "red", "manual_review_required">>}
    ELSE QuantityFinding(rows[c], l) \cup PriceFinding(rows[c], l) \cup DeliveryFinding(rows[c], l)

LineSeverityMutant(rows, l) ==
    LET c == Candidate(rows, l) IN
    IF c = 0 THEN "red"
    ELSE IF PriceFinding(rows[c], l) # {} THEN "yellow"
    ELSE FoldSet(LAMBDA f, s : Worst(f[2], s), "green", LineFindings(rows, l))

\* severity is raised as the comparisons go along and never lowered.
LineSeverity(rows, l) ==
    LET c == Candidate(rows, l)
        raise(s, fs) == FoldSet(LAMBDA f, w : Worst(f[2], w), s, fs)
    IN IF c = 0 THEN "red"
       ELSE raise(raise(raise("green", QuantityFinding(rows[c], l)), PriceFinding(rows[c], l)), DeliveryFinding(rows[c], l))

Matched(rows, lines) == {Candidate(rows, lines[i]) : i \in DOMAIN lines} \ {0}

Missing(rows, lines) == DOMAIN rows \ Matched(rows, lines)

\* The rows inserted as exceptions.
FoundExceptions(k, rows, lines) ==
    (UNION {{[conf |-> k, line |-> i, pos |-> Candidate(rows, lines[i]), type |-> f[1], severity |-> f[2], status |-> "open"] :
                f \in LineFindings(rows, lines[i])} : i \in DOMAIN lines})
    \cup {[conf |-> k, line |-> 0, pos |-> i, type |-> "missing_position", severity |-> "red", status |-> "open"] :
             i \in Missing(rows, lines)}

\* A set of rows, inserted one after the other; their order does not matter.
Inserts(S) == CHOOSE f \in [1..Cardinality(S) -> S] : IsInjective(f)

RollUp(k, rows, lines) ==
    IF rows # <<>> /\ Matched(rows, lines) = {} THEN "context_revision_required"
    ELSE IF FoundExceptions(k, rows, lines) # {} THEN "exceptions_open" ELSE "matched"

----
(* Requests *)

Finish(t) == thread' = [thread EXCEPT ![t] = Idle]

\* create_supplier_order_confirmation: inbox item, confirmation and lines in one statement.
CreateConfirmation(t, entry) ==
    /\ thread[t].pc = "idle" /\ served < MaxRequests
    /\ confirmations' = Append(confirmations,
          [lines |-> entry, status |-> "matching_in_progress", severity |-> [i \in DOMAIN entry |-> "yellow"],
           rows |-> <<>>, review |-> FALSE, inbox |-> "context_confirmed"])
    /\ thread' = [thread EXCEPT ![t] = [Idle EXCEPT !.pc = "fetch", !.id = Len(confirmations) + 1]]
    /\ served' = served + 1
    /\ UNCHANGED <<order, exceptions, decisions, drafts>>

FetchMatchContext(t) ==
    /\ thread[t].pc = "fetch"
    /\ thread' = [thread EXCEPT ![t].pc = "match", ![t].version = order.version, ![t].rows = order.rows]
    /\ UNCHANGED <<order, confirmations, exceptions, decisions, drafts, served>>

\* The write names order positions by id: if they are gone, the foreign keys reject it.  The inbox
\* item's review flag looks at the exceptions before the statement, of which there are none.
WriteMatching(t) ==
    LET r == thread[t]
        k == r.id
        lines == confirmations[k].lines
    IN /\ r.pc = "match"
       /\ IF r.version # order.version /\ r.rows # <<>>
          THEN UNCHANGED <<confirmations, exceptions>>
          ELSE /\ confirmations' = [confirmations EXCEPT
                     ![k].status = RollUp(k, r.rows, lines), ![k].rows = r.rows,
                     ![k].severity = [i \in DOMAIN lines |-> LineSeverity(r.rows, lines[i])],
                     ![k].review = \E e \in DOMAIN exceptions : exceptions[e].conf = k /\ exceptions[e].status = "open",
                     ![k].inbox = IF RollUp(k, r.rows, lines) = "context_revision_required"
                                  THEN "context_revision_required" ELSE "matching_complete"]
               /\ exceptions' = exceptions \o Inserts(FoundExceptions(k, r.rows, lines))
       /\ Finish(t)
       /\ UNCHANGED <<order, decisions, drafts, served>>

\* The five request_ actions behave alike.
NewStatus(act) ==
    CASE act = "accept" -> "accepted" [] act = "reject" -> "rejected"
      [] act = "request_corrected_ab" -> "waiting_for_supplier" [] OTHER -> "resolved"

\* decide_supplier_confirmation_exception.  The exception must belong to the confirmation; when it
\* does not, "ex.id <> NULL" is never true, no open exception is counted and the confirmation is
\* approved all the same, before the caller is told 404.
DecideException(t, k, x, act) ==
    LET found == x \in DOMAIN exceptions /\ exceptions[x].conf = k
        open  == IF found THEN {e \in DOMAIN exceptions \ {x} : exceptions[e].conf = k /\ exceptions[e].status = "open"}
                 ELSE {}
    IN /\ thread[t].pc = "idle" /\ served < MaxRequests /\ k \in DOMAIN confirmations
       /\ confirmations' = [confirmations EXCEPT ![k].status =
             IF NewStatus(act) = "waiting_for_supplier" THEN "suspended" ELSE IF open = {} THEN "approved" ELSE @]
       /\ IF found
          THEN /\ exceptions' = [exceptions EXCEPT ![x].status = NewStatus(act)]
               /\ decisions' = Append(decisions, [exc |-> x, old |-> exceptions[x].status, new |-> NewStatus(act)])
          ELSE UNCHANGED <<exceptions, decisions>>
       /\ thread' = IF found /\ NewStatus(act) = "waiting_for_supplier"
                    THEN [thread EXCEPT ![t] = [Idle EXCEPT !.pc = "draft", !.id = k, !.exc = x]] ELSE thread
       /\ served' = served + 1
       /\ UNCHANGED <<order, drafts>>

CreateDraft(t) ==
    /\ thread[t].pc = "draft"
    /\ drafts' = drafts \cup {thread[t].exc}
    /\ Finish(t)
    /\ UNCHANGED <<order, confirmations, exceptions, decisions, served>>

\* CaratOrders: the order's positions are deleted and inserted again; references become NULL.
Synchronise(o) ==
    /\ order.version < MaxSyncs
    /\ order' = [version |-> order.version + 1, rows |-> o]
    /\ UNCHANGED <<confirmations, exceptions, decisions, drafts, thread, served>>

Crash ==
    /\ \E t \in Threads : thread[t].pc # "idle"
    /\ thread' = [t \in Threads |-> Idle]
    /\ UNCHANGED <<order, confirmations, exceptions, decisions, drafts, served>>

Next ==
    \/ \E t \in Threads, e \in Entries : CreateConfirmation(t, e)
    \/ \E t \in Threads : FetchMatchContext(t) \/ WriteMatching(t) \/ CreateDraft(t)
    \/ \E t \in Threads, k \in 1..MaxRequests, x \in 1..(Len(exceptions) + 1),
          act \in {"accept", "reject", "resolve", "request_corrected_ab"} : DecideException(t, k, x, act)
    \/ \E o \in Orders : Synchronise(o)
    \/ Crash

Spec == Init /\ [][Next]_vars

----
(* Properties *)

Written(k) == confirmations[k].rows # <<>>
Of(k) == {e \in DOMAIN exceptions : exceptions[e].conf = k}

\* A matched line carries the colour of the worst exception recorded for it, and green when there
\* is none: a later comparison never softens what an earlier one found.
SeverityIsWorstException ==
    \A k \in DOMAIN confirmations : Written(k) =>
       \A i \in DOMAIN confirmations[k].lines :
          confirmations[k].severity[i] =
             FoldSet(LAMBDA e, w : Worst(exceptions[e].severity, w), "green", {e \in Of(k) : exceptions[e].line = i})

\* Every position of the order the confirmation was matched with is accounted for: some line was
\* compared with it, or it is reported missing.  Repeated article codes and lines without a code
\* included.
NothingGoesMissing ==
    \A k \in DOMAIN confirmations : \A p \in DOMAIN confirmations[k].rows :
       \/ p \in Matched(confirmations[k].rows, confirmations[k].lines)
       \/ \E e \in Of(k) : exceptions[e].type = "missing_position" /\ exceptions[e].pos = p

\* The audit trail is complete: the decisions on an exception form a chain from open to the status
\* it has now.
DecisionsAreTraced ==
    \A e \in DOMAIN exceptions :
       LET own == {i \in DOMAIN decisions : decisions[i].exc = e}
           last == Max({0} \cup own)
       IN /\ exceptions[e].status = IF own = {} THEN "open" ELSE decisions[last].new
          /\ \A i \in own : decisions[i].old = LET before == {j \in own : j < i}
                                               IN IF before = {} THEN "open" ELSE decisions[Max(before)].new

----
(* Statements of the documents that the code does not keep. *)

\* "no silent approval of price increases or article-number changes": an approved confirmation has
\* no price difference, extra or missing article that is still open.
NoSilentApproval ==
    \A k \in DOMAIN confirmations : confirmations[k].status = "approved" =>
       \A e \in Of(k) : exceptions[e].type \in {"net_price", "extra_position", "missing_position"} => exceptions[e].status # "open"

\* "only exact 1:1 position agreement can become green automatically": a green line agrees with its
\* order position in quantity, price and delivery, and no other line claims that position.
OnlyExactIsGreen ==
    \A k \in DOMAIN confirmations : Written(k) =>
       \A i \in DOMAIN confirmations[k].lines : confirmations[k].severity[i] = "green" =>
          LET l == confirmations[k].lines[i]
              c == Candidate(confirmations[k].rows, l)
              o == confirmations[k].rows[c]
          IN /\ l.quantity = o.quantity /\ l.price = o.price /\ l.date = o.date
             /\ \A j \in DOMAIN confirmations[k].lines : Candidate(confirmations[k].rows, confirmations[k].lines[j]) = c => j = i
====
