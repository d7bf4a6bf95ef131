---- MODULE CaratOrders ----
(***************************************************************************)
(* Documents of one case, the CARAT imports read from them, and the        *)
(* supplier orders made from selected positions.  An upload is three steps *)
(* (object storage, document row, analysis), a selection three statements  *)
(* (selection, order synchronisation, transfer mark).  Requests interleave *)
(* between them and the server may die there.  An import has the id of its *)
(* document.  The requester sees the case (CaseDesk has visibility).       *)
(***************************************************************************)
EXTENDS Naturals, FiniteSets, Sequences

CONSTANTS
    Positions,    \* positions of a PRJZ file
    SupplierName, \* SupplierName[p]: the name as CARAT writes it
    Normalized,   \* Normalized[n]: lower case, punctuation replaced
    Pseudo,       \* planning and image positions: Bilddaten, Decke, Wand
    Threads,      \* concurrent requests
    MaxRequests,  \* bound: requests served
    MaxDocs       \* bound: documents

VARIABLES
    docs,     \* app.customer_case_documents: [carat, status, current, object]
    imports,  \* imports[d]: "none", or the status of the import of document d
    sel,      \* sel[d][p]: selection_status of the position
    orders,   \* app.supplier_orders: [imp, supplier, status, positions, count]
    objects,  \* keys in object storage
    thread, served,
    dirty,    \* history: imports whose selection changed since their last synchronisation
    done      \* history: the import of the last transfer that was answered with success

vars == <<docs, imports, sel, orders, objects, thread, served, dirty, done>>

Idle == [pc |-> "idle", id |-> 0, ask |-> {}, act |-> "none", carat |-> FALSE, key |-> 0]

Init ==
    /\ docs = <<>> /\ imports = <<>> /\ sel = <<>> /\ orders = <<>>
    /\ objects = {}
    /\ thread = [t \in Threads |-> Idle]
    /\ served = 0
    /\ dirty = {} /\ done = 0

Finish(t) == thread' = [thread EXCEPT ![t] = Idle]

Start(t, request) ==
    /\ thread[t].pc = "idle" /\ served < MaxRequests
    /\ served' = served + 1
    /\ thread' = [thread EXCEPT ![t] = request]
    /\ UNCHANGED <<docs, imports, sel, orders, objects, dirty, done>>

----
(* create_customer_case_document_metadata, store_carat_prjz_analysis *)

\* id names the document to replace (0: none); "latest" asks for the current CARAT project.
Upload(t, carat, id, act) ==
    Start(t, [Idle EXCEPT !.pc = "object", !.carat = carat, !.id = id, !.act = act, !.key = served + 1])

PutObject(t) ==
    /\ thread[t].pc = "object"
    /\ objects' = objects \cup {thread[t].key}
    /\ thread' = [thread EXCEPT ![t].pc = "row"]
    /\ UNCHANGED <<docs, imports, sel, orders, served, dirty, done>>

\* The named document, whatever its status; else the latest current CARAT project if asked for.
Replacement(r) ==
    LET current == {d \in DOMAIN docs : docs[d].carat /\ docs[d].status # "archived" /\ docs[d].current}
    IN IF r.id \in DOMAIN docs THEN r.id
       ELSE IF r.carat /\ r.act = "latest" /\ current # {} THEN CHOOSE d \in current : \A e \in current : e <= d
       ELSE 0

\* One statement: the old document is replaced, its orders are canceled, the new one is current.
InsertDocument(t) ==
    LET r   == thread[t]
        old == Replacement(r)
        new == Len(docs) + 1
        row == [carat |-> r.carat, status |-> "received", current |-> TRUE, object |-> r.key]
        marked == IF old = 0 THEN docs ELSE [docs EXCEPT ![old].status = "replaced", ![old].current = FALSE]
    IN /\ r.pc = "row" /\ new <= MaxDocs
       /\ docs' = Append(marked, row)
       /\ orders' = [o \in DOMAIN orders |-> IF old # 0 /\ imports[old] # "none" /\ orders[o].imp = old
                                             THEN [orders[o] EXCEPT !.status = "canceled"] ELSE orders[o]]
       /\ imports' = Append(imports, "none")
       /\ sel' = Append(sel, [p \in Positions |-> "none"])
       /\ thread' = [thread EXCEPT ![t] = IF r.carat THEN [@ EXCEPT !.pc = "analysis", !.id = new] ELSE Idle]
       /\ UNCHANGED <<objects, served, dirty, done>>

\* The parser reads the positions, or fails and leaves an import without any.
StoreAnalysis(t) ==
    LET d == thread[t].id IN
    /\ thread[t].pc = "analysis"
    /\ \/ /\ imports' = [imports EXCEPT ![d] = "analysis_ready"]
          /\ sel' = [sel EXCEPT ![d] = [p \in Positions |-> "candidate"]]
       \/ /\ imports' = [imports EXCEPT ![d] = "failed"]
          /\ UNCHANGED sel
    /\ Finish(t)
    /\ UNCHANGED <<docs, orders, objects, served, dirty, done>>

ArchiveDocument(d) ==
    /\ d \in DOMAIN docs /\ served < MaxRequests
    /\ docs' = [docs EXCEPT ![d].status = "archived", ![d].current = FALSE]
    /\ served' = served + 1
    /\ UNCHANGED <<imports, sel, orders, objects, thread, dirty, done>>

----
(* select_carat_import_positions, sync_supplier_orders_from_carat_selection *)

Select(t, d, ask, act) == Start(t, [Idle EXCEPT !.pc = "select", !.id = d, !.ask = ask, !.act = act])

Taken(d) == {p \in Positions : sel[d][p] \in {"selected", "transferred"}}

\* A transfer first drops the selection left over from an unfinished one.
SelectionAfter(d, ask, act) ==
    [p \in Positions |->
       IF act = "transfer"
       THEN IF sel[d][p] = "selected" THEN "candidate"
            ELSE IF sel[d][p] = "candidate" /\ p \in ask THEN "selected" ELSE sel[d][p]
       ELSE IF sel[d][p] \in {"selected", "transferred"} /\ p \in ask THEN "candidate" ELSE sel[d][p]]

\* import_status reads the snapshot, so the import's status trails its selection by one request.
SelectPositions(t) ==
    LET r == thread[t]
        d == r.id
    IN /\ r.pc = "select"
       /\ IF d \in DOMAIN docs /\ imports[d] # "none"
          THEN /\ sel' = [sel EXCEPT ![d] = SelectionAfter(d, r.ask, r.act)]
               /\ imports' = [imports EXCEPT ![d] = IF Taken(d) # {} THEN "partially_transferred" ELSE "analysis_ready"]
               /\ dirty' = dirty \cup {d}
               /\ thread' = [thread EXCEPT ![t].pc = "sync"]
          ELSE Finish(t) /\ UNCHANGED <<sel, imports, dirty>>
       /\ UNCHANGED <<docs, orders, objects, served, done>>

Orderable(d) == Taken(d) \ Pseudo
SupplierOf(p) == Normalized[SupplierName[p]]

\* Two spellings of one supplier: ON CONFLICT DO UPDATE may not touch a row twice, the statement fails.
SpellingClash(d) ==
    \E p, q \in Orderable(d) : SupplierOf(p) = SupplierOf(q) /\ SupplierName[p] # SupplierName[q]

Ordered(d, s) == \E o \in DOMAIN orders : orders[o].imp = d /\ orders[o].supplier = s

\* One order for each supplier that has none for this import, canceled ones counting.
NewOrders(d) ==
    LET missing == {s \in {SupplierOf(p) : p \in Orderable(d)} : ~Ordered(d, s)}
    IN {[imp |-> d, supplier |-> s, status |-> "ordered", positions |-> {}, count |-> 0] : s \in missing}

RefreshedMutant(d, o) ==
    IF o.imp # d THEN o
    ELSE [o EXCEPT !.positions = @ \cup {p \in Orderable(d) : SupplierOf(p) = o.supplier}]

\* The orders of the snapshot get the selected positions; a count of the snapshot's rows.
Refreshed(d, o) ==
    IF o.imp # d THEN o
    ELSE [o EXCEPT !.positions = {p \in Orderable(d) : SupplierOf(p) = o.supplier}, !.count = Cardinality(o.positions)]

SyncSupplierOrders(t) ==
    LET d == thread[t].id IN
    /\ thread[t].pc = "sync"
    /\ IF SpellingClash(d)
       THEN Finish(t) /\ UNCHANGED <<orders, dirty>>
       ELSE /\ \E fresh \in [1..Cardinality(NewOrders(d)) -> NewOrders(d)] :
                  /\ {fresh[i] : i \in DOMAIN fresh} = NewOrders(d)
                  /\ orders' = [o \in DOMAIN orders |-> Refreshed(d, orders[o])] \o fresh
            /\ dirty' = dirty \ {d}
            /\ IF thread[t].act = "transfer" THEN thread' = [thread EXCEPT ![t].pc = "mark"] ELSE Finish(t)
    /\ UNCHANGED <<docs, imports, sel, objects, served, done>>

MarkTransferred(t) ==
    LET d == thread[t].id IN
    /\ thread[t].pc = "mark"
    /\ sel' = [sel EXCEPT ![d] = [p \in Positions |-> IF @[p] = "selected" THEN "transferred" ELSE @[p]]]
    /\ done' = d
    /\ Finish(t)
    /\ UNCHANGED <<docs, imports, orders, objects, served, dirty>>

Crash ==
    /\ \E t \in Threads : thread[t].pc # "idle"
    /\ thread' = [t \in Threads |-> Idle]
    /\ UNCHANGED <<docs, imports, sel, orders, objects, served, dirty, done>>

Next ==
    \/ \E t \in Threads, carat \in BOOLEAN, id \in 0..MaxDocs, act \in {"keep", "latest"} : Upload(t, carat, id, act)
    \/ \E t \in Threads, d \in 1..MaxDocs, ask \in SUBSET Positions, act \in {"transfer", "reset"} : Select(t, d, ask, act)
    \/ \E d \in 1..MaxDocs : ArchiveDocument(d)
    \/ \E t \in Threads : \/ PutObject(t) \/ InsertDocument(t) \/ StoreAnalysis(t)
                          \/ SelectPositions(t) \/ SyncSupplierOrders(t) \/ MarkTransferred(t)
    \/ Crash

Spec == Init /\ [][Next]_vars

----
(* Properties *)

\* A document row names an object that is in storage, wherever the server died: the object is put
\* before the row is inserted.
DocumentsHaveObjects == \A d \in DOMAIN docs : docs[d].object \in objects

\* There is at most one order for a supplier and an import, however often the selection is sent and
\* whatever was canceled: sync_supplier_orders_from_carat_selection refreshes instead of repeating.
OneOrderPerSupplier ==
    \A o, p \in DOMAIN orders : o # p => orders[o].imp # orders[p].imp \/ orders[o].supplier # orders[p].supplier

\* Once the selection of an import has been synchronised, its orders hold selected positions of
\* their own supplier only: nothing that was reset, no image or planning position.  Concurrent
\* selections, crashes before the transfer mark and leftovers of unfinished transfers included.
OrdersHoldSelectedOnly ==
    \A o \in DOMAIN orders : orders[o].imp \notin dirty =>
       orders[o].positions \subseteq {p \in Orderable(orders[o].imp) : SupplierOf(p) = orders[o].supplier}

----
(* Statements of the documents that the code does not keep. *)

\* "When users select CARAT import positions, the Hetzner Admin API creates or refreshes supplier
\* orders and supplier order positions": after a transfer answered with success every transferred
\* position is in an order.
TransfersFillOrders ==
    done # 0 /\ done \notin dirty /\ (\A t \in Threads : thread[t].pc = "idle") =>
       \A p \in Orderable(done) : \E o \in DOMAIN orders : orders[o].imp = done /\ p \in orders[o].positions

\* "Replacing ... cancels supplier orders that were generated from that replaced import": no order
\* of a replaced document is live.
ReplacedOrdersAreCanceled ==
    \A o \in DOMAIN orders : docs[orders[o].imp].status = "replaced" => orders[o].status = "canceled"
====
