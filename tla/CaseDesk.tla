---- MODULE CaseDesk ----
(***************************************************************************)
(* Customers, leads and cases of the tenant CRM's Admin API.  A handler is *)
(* a thread of a ThreadingHTTPServer; it reads the requester's context,    *)
(* then issues one psql call after the other.  Each call is a transaction, *)
(* other requests run between them, and the server may die there.          *)
(* Home and mobile number are one field here: both are matched and indexed *)
(* the same way.  No handler clears is_active, so every row is active.  A  *)
(* form's postal code stands for a complete address.  Statements are       *)
(* atomic here; row locks inside one of them are the database's business.  *)
(***************************************************************************)
EXTENDS Naturals, FiniteSets, Sequences

CONSTANTS
    Users,           \* staff; the owner and responsible columns
    Admins,          \* the users with the admin flag or role
    Forms,           \* customer forms: [name, email, phone, postal], Blank where empty
    Blank,           \* the empty string, SQL NULL after NULLIF
    CaseStatuses,    \* the values the CHECK of app.customer_cases admits
    AskedStatuses,   \* case_status values the case form sends
    Threads,         \* concurrent requests
    MaxRequests,     \* bound: requests served
    MaxRows,         \* bound: rows of app.customers and of app.customer_cases
    MatchLimit       \* LIMIT of the duplicate query (5 in the code)

VARIABLES
    customers,  \* app.customers with the billing address, by id
    cases,      \* app.customer_cases by id
    filed,      \* sections and notes: rows [table, of, by]
    leads,      \* app.leads: the owner of each
    events,     \* app.communication_events: [type, case], in order
    scope,      \* the users each user stands in for: themself and current delegations
    thread,     \* the request each thread works on
    served,     \* number of requests started
    reply       \* history: the last answer and what was asked

tables == <<customers, cases, filed, leads, events>>
vars == <<customers, cases, filed, leads, events, scope, thread, served, reply>>

Idle == [pc |-> "idle", op |-> "none", id |-> 0, user |-> CHOOSE u \in Users : TRUE, ids |-> {},
         admin |-> FALSE, form |-> CHOOSE f \in Forms : TRUE, allow |-> FALSE, case |-> FALSE,
         seen |-> {}, to |-> CHOOSE u \in Users : TRUE, status |-> "active"]
NoReply == [op |-> "none", code |-> "none", why |-> "none"]

Init ==
    /\ customers = <<>>
    /\ cases = <<>>
    /\ filed = {}
    /\ leads = <<>>
    /\ events = <<>>
    /\ scope = [u \in Users |-> {u}]
    /\ thread = [t \in Threads |-> Idle]
    /\ served = 0
    /\ reply = NoReply

----
(* Visibility, as the WHERE clauses spell it *)

CustomerVisible(r, c) == r.admin \/ customers[c].owner \in r.ids

CaseVisible(r, k) ==
    \/ r.admin
    \/ cases[k].owner \in r.ids
    \/ cases[k].responsible \in r.ids
    \/ cases[k].customer # 0 /\ customers[cases[k].customer].owner \in r.ids

\* The customer's sections are also open to the people who own or work on one of the cases.
CustomerFileVisible(r, c) ==
    \/ CustomerVisible(r, c)
    \/ \E k \in DOMAIN cases : /\ cases[k].customer = c
                               /\ cases[k].owner \in r.ids \/ cases[k].responsible \in r.ids

Answer(t, code, why) ==
    /\ thread' = [thread EXCEPT ![t] = Idle]
    /\ reply' = [op |-> thread[t].op, code |-> code, why |-> why]

Proceed(t, pc) ==
    /\ thread' = [thread EXCEPT ![t].pc = pc]
    /\ UNCHANGED reply

----
(* Starting a request: require_primary_user reads the context once *)

Start(t, u, request) ==
    /\ thread[t].pc = "idle" /\ served < MaxRequests
    /\ served' = served + 1
    /\ thread' = [thread EXCEPT ![t] = [request EXCEPT !.user = u, !.ids = scope[u], !.admin = u \in Admins]]
    /\ UNCHANGED <<customers, cases, filed, leads, events, scope, reply>>

SaveCustomer(t, u, c, f, allow, withCase, to) ==
    Start(t, u, [Idle EXCEPT !.pc = "email", !.op = "customer", !.id = c, !.form = f, !.allow = allow,
                             !.case = withCase, !.to = to])

CreateCase(t, u, c, to, s) ==
    Start(t, u, [Idle EXCEPT !.pc = "write", !.op = "new_case", !.id = c, !.to = to, !.status = s])

SaveCase(t, u, k, to, s) ==
    Start(t, u, [Idle EXCEPT !.pc = "write", !.op = "case", !.id = k, !.to = to, !.status = s])

SetCaseArchiveState(t, u, k, archived) ==
    Start(t, u, [Idle EXCEPT !.pc = "write", !.op = "archive", !.id = k,
                             !.status = IF archived THEN "archived" ELSE "active"])

SaveSection(t, u, table, id) == Start(t, u, [Idle EXCEPT !.pc = "write", !.op = table, !.id = id])

SaveLead(t, u, to) == Start(t, u, [Idle EXCEPT !.pc = "write", !.op = "lead", !.to = to])

\* A delegation begins or ends; no handler of the API writes it.
Delegate(u, d) ==
    /\ scope' = [scope EXCEPT ![u] = IF d \in @ THEN @ \ {d} ELSE @ \cup {d}]
    /\ UNCHANGED <<customers, cases, filed, leads, events, thread, served, reply>>

\* The server process dies; psql calls already answered are committed, the others never start.
Crash ==
    /\ \E t \in Threads : thread[t].pc # "idle"
    /\ thread' = [t \in Threads |-> Idle]
    /\ UNCHANGED <<customers, cases, filed, leads, events, scope, served, reply>>

----
(* save_customer: two duplicate queries, then one writing statement *)

EmailMatch(f, c) == f.email # Blank /\ customers[c].email = f.email
PhoneMatch(f, c) == f.phone # Blank /\ customers[c].phone = f.phone
NameMatch(f, c) == f.postal # Blank /\ customers[c].name = f.name /\ customers[c].postal = f.postal

\* match_type names the first condition that holds.
MatchType(f, c) ==
    CASE EmailMatch(f, c) -> "email" [] PhoneMatch(f, c) -> "phone" [] OTHER -> "name_postal_code"

Candidates(r) ==
    {c \in DOMAIN customers \ {r.id} : EmailMatch(r.form, c) \/ PhoneMatch(r.form, c) \/ NameMatch(r.form, c)}

\* ORDER BY display_name, id LIMIT 5: some MatchLimit of the candidates, the names being abstract.
Matches(r) ==
    {S \in SUBSET Candidates(r) : IF Cardinality(Candidates(r)) <= MatchLimit
                                  THEN S = Candidates(r) ELSE Cardinality(S) = MatchLimit}

\* normalize_bool answers with a string, and in Python every string but "" is true.
NormalizeBool(b) == IF b THEN "true" ELSE "false"
Truthy(v) == v # ""

CheckEmail(t) ==
    /\ thread[t].pc = "email"
    /\ IF /\ \E c \in DOMAIN customers \ {thread[t].id} : EmailMatch(thread[t].form, c)
          /\ ~Truthy(NormalizeBool(thread[t].allow)) /\ thread[t].id = 0
       THEN Answer(t, "409", "email")
       ELSE thread' = [thread EXCEPT ![t].pc = "all", ![t].seen = DOMAIN customers] /\ UNCHANGED reply
    /\ UNCHANGED <<customers, cases, filed, leads, events, scope, served>>

CheckOthersMutant(t) ==
    /\ thread[t].pc = "all"
    /\ \E S \in Matches(thread[t]) :
          IF \E c \in S : MatchType(thread[t].form, c) # "email"
          THEN /\ Answer(t, "409", "phone")
               /\ events' = Append(events, [type |-> "customer_updated", case |-> 0])
          ELSE Proceed(t, "write") /\ UNCHANGED events
    /\ UNCHANGED <<customers, cases, filed, leads, scope, served>>

CheckOthers(t) ==
    /\ thread[t].pc = "all"
    /\ \E S \in Matches(thread[t]) :
          LET others == {MatchType(thread[t].form, c) : c \in S} \ {"email"}
          IN IF others # {}
             THEN Answer(t, "409", IF "phone" \in others THEN "phone" ELSE "name")
             ELSE Proceed(t, "write")
    /\ UNCHANGED <<customers, cases, filed, leads, events, scope, served>>

\* The unique index on the normalised number.
BreaksPhoneKeyMutant(r) == FALSE
BreaksPhoneKey(r) == \E c \in DOMAIN customers \ {r.id} : PhoneMatch(r.form, c)

CustomerRow(r) ==
    [name |-> r.form.name, email |-> r.form.email, phone |-> r.form.phone, postal |-> r.form.postal,
     owner |-> r.to, allow |-> r.allow, edit |-> r.id # 0, seen |-> r.seen]

\* An address needs street, postal code and town: without one the row in place stays.
EditedRow(r) ==
    [CustomerRow(r) EXCEPT !.postal = IF r.form.postal = Blank THEN customers[r.id].postal ELSE @]

NewCase(r, c) == [customer |-> c, owner |-> r.to, responsible |-> r.to, status |-> r.status, stamp |-> FALSE]

\* One statement: update or insert the customer, its address and contact, insert the case and the
\* event.  The case and the event do not depend on the customer having been found; an address does,
\* its customer_id being NOT NULL.
WriteCustomer(t) ==
    LET r      == thread[t]
        isNew  == r.id = 0
        found  == isNew \/ (r.id \in DOMAIN customers /\ CustomerVisible(r, r.id))
        fails  == IF found THEN BreaksPhoneKey(r) ELSE r.form.postal # Blank
        target == IF isNew THEN Len(customers) + 1 ELSE IF found THEN r.id ELSE 0
        event  == [type |-> IF isNew THEN "customer_created" ELSE "customer_updated",
                   case |-> IF r.case THEN Len(cases) + 1 ELSE 0]
    IN /\ r.pc = "write" /\ r.op = "customer"
       /\ (isNew => Len(customers) < MaxRows) /\ (r.case => Len(cases) < MaxRows)
       /\ \/ /\ fails
             /\ Answer(t, "400", "database_error")
             /\ UNCHANGED <<customers, cases, events>>
          \/ /\ ~fails
             /\ customers' = IF isNew THEN Append(customers, CustomerRow(r))
                             ELSE IF found THEN [customers EXCEPT ![r.id] = EditedRow(r)] ELSE customers
             /\ cases' = IF r.case THEN Append(cases, NewCase(r, target)) ELSE cases
             /\ events' = Append(events, event)
             /\ Answer(t, IF found THEN "200" ELSE "404", "none")
       /\ UNCHANGED <<filed, leads, scope, served>>

----
(* Cases: one statement each *)

WriteNewCase(t) ==
    LET r == thread[t] IN
    /\ r.pc = "write" /\ r.op = "new_case" /\ Len(cases) < MaxRows
    /\ IF r.id \notin DOMAIN customers \/ ~CustomerVisible(r, r.id)
       THEN Answer(t, "404", "none") /\ UNCHANGED <<cases, events>>
       ELSE IF r.status \notin CaseStatuses
       THEN Answer(t, "400", "database_error") /\ UNCHANGED <<cases, events>>
       ELSE /\ cases' = Append(cases, NewCase(r, r.id))
            /\ events' = Append(events, [type |-> "customer_case_created", case |-> Len(cases) + 1])
            /\ Answer(t, "200", "none")
    /\ UNCHANGED <<customers, filed, leads, scope, served>>

\* owner_user_id = COALESCE(owner, responsible): every row has an owner here.
WriteCase(t) ==
    LET r == thread[t] IN
    /\ r.pc = "write" /\ r.op = "case"
    /\ IF r.id \notin DOMAIN cases \/ ~CaseVisible(r, r.id)
       THEN Answer(t, "404", "none") /\ UNCHANGED cases
       ELSE IF r.status \notin CaseStatuses
       THEN Answer(t, "400", "database_error") /\ UNCHANGED cases
       ELSE /\ cases' = [cases EXCEPT ![r.id].responsible = r.to, ![r.id].status = r.status]
            /\ Answer(t, "200", "none")
    /\ UNCHANGED <<customers, filed, leads, events, scope, served>>

WriteArchiveState(t) ==
    LET r == thread[t] IN
    /\ r.pc = "write" /\ r.op = "archive"
    /\ IF r.id \notin DOMAIN cases \/ ~CaseVisible(r, r.id)
       THEN Answer(t, "404", "none") /\ UNCHANGED <<cases, events>>
       ELSE IF r.status \notin CaseStatuses
       THEN Answer(t, "400", "archive_rejected") /\ UNCHANGED <<cases, events>>
       ELSE /\ cases' = [cases EXCEPT ![r.id].status = r.status, ![r.id].stamp = r.status = "archived"]
            /\ events' = Append(events, [type |-> IF r.status = "archived" THEN "case_archived" ELSE "case_restored",
                                         case |-> r.id])
            /\ Answer(t, "200", "none")
    /\ UNCHANGED <<customers, filed, leads, scope, served>>

\* Sections are upserted, notes inserted; both only for a visible case, customer or lead.
WriteFiled(t) ==
    LET r == thread[t]
        visible == CASE r.op = "customer_section" -> r.id \in DOMAIN customers /\ CustomerFileVisible(r, r.id)
                     [] r.op \in {"case_section", "case_note"} -> r.id \in DOMAIN cases /\ CaseVisible(r, r.id)
                     [] OTHER -> r.id \in DOMAIN leads /\ (r.admin \/ {leads[r.id].owner, leads[r.id].by} \cap r.ids # {})
    IN /\ r.pc = "write" /\ r.op \in {"customer_section", "case_section", "case_note", "lead_note"}
       /\ IF visible
          THEN /\ filed' = filed \cup {[table |-> r.op, of |-> r.id, by |-> r.user]}
               /\ Answer(t, "200", "none")
          ELSE Answer(t, "404", "none") /\ UNCHANGED filed
       /\ UNCHANGED <<customers, cases, leads, events, scope, served>>

WriteLead(t) ==
    LET r == thread[t] IN
    /\ r.pc = "write" /\ r.op = "lead" /\ Len(leads) < MaxRows
    /\ leads' = Append(leads, [owner |-> r.to, by |-> r.user])
    /\ filed' = filed \cup {[table |-> "lead_note", of |-> Len(leads) + 1, by |-> r.user]}
    /\ Answer(t, "200", "none")
    /\ UNCHANGED <<customers, cases, events, scope, served>>

CustomerStep(t) == CheckEmail(t) \/ CheckOthers(t) \/ WriteCustomer(t)
CaseStep(t) == WriteNewCase(t) \/ WriteCase(t) \/ WriteArchiveState(t) \/ WriteFiled(t) \/ WriteLead(t)

CustomerNext ==
    \/ \E t \in Threads, u \in Users, c \in 0..MaxRows, f \in Forms, allow \in BOOLEAN :
          SaveCustomer(t, u, c, f, allow, ~allow, u)
    \/ \E t \in Threads : CustomerStep(t)
    \/ Crash

CaseNext ==
    \/ \E t \in Threads, u, to \in Users, c \in 1..MaxRows, s \in AskedStatuses : CreateCase(t, u, c, to, s)
    \/ \E t \in Threads, u, to \in Users, k \in 1..MaxRows, s \in AskedStatuses : SaveCase(t, u, k, to, s)
    \/ \E t \in Threads, u \in Users, k \in 1..MaxRows, archived \in BOOLEAN : SetCaseArchiveState(t, u, k, archived)
    \/ \E t \in Threads, u \in Users, table \in {"customer_section", "case_section", "case_note", "lead_note"},
          id \in 1..MaxRows : SaveSection(t, u, table, id)
    \/ \E t \in Threads, u, to \in Users : SaveLead(t, u, to)
    \/ \E t \in Threads, u, to \in Users, f \in Forms : SaveCustomer(t, u, 0, f, FALSE, TRUE, to)
    \/ \E u, d \in Users : u # d /\ Delegate(u, d)
    \/ \E t \in Threads : CustomerStep(t) \/ CaseStep(t)

CustomerSpec == Init /\ [][CustomerNext]_vars
CaseSpec == Init /\ [][CaseNext]_vars

----
(* Properties *)

\* No two customers carry the same telephone number, although the duplicate queries and the insert
\* of save_customer are separate transactions, may overlap with another save, and filter out a match
\* that is also an e-mail match.
PhonesAreUnique ==
    \A c, d \in DOMAIN customers :
       c # d /\ customers[c].phone # Blank => customers[c].phone # customers[d].phone

\* A step that ends a request with a refusal (400 or 409) has written nothing, and one that ends it
\* because customer or case is not found has changed no existing row.
RefusalWritesNothing ==
    \A t \in Threads : thread[t].pc # "idle" /\ thread'[t].pc = "idle" =>
       /\ reply'.code \in {"400", "409"} => tables' = tables
       /\ reply'.code = "404" => /\ customers' = customers /\ filed' = filed
                                /\ \A k \in DOMAIN cases : cases'[k] = cases[k]

\* A step leaves the owner of every case as it is: save_customer_case moves the responsible user only.
OwnersStay == \A k \in DOMAIN cases : cases'[k].owner = cases[k].owner

----
(* Statements of the documents that the code does not keep. *)

\* "If the email already exists, the API returns a warning": two customers with one e-mail address
\* exist only because one was saved with the override, or edited, or because they were saved side
\* by side, each query before the other's insert.
EmailTwinsWereWarned ==
    \A c, d \in DOMAIN customers :
       c # d /\ customers[c].email # Blank /\ customers[c].email = customers[d].email
         => \/ customers[c].allow \/ customers[d].allow
            \/ customers[c].edit \/ customers[d].edit
            \/ c \notin customers[d].seen /\ d \notin customers[c].seen

\* "The system must allow different customers with the same name": a save is never refused because
\* another customer has the name.
SameNameAllowed == reply.why # "name"

\* A case the requester may see can be archived: the handler that writes case_archived events is not
\* turned down by the database.
ArchivingWorks == reply.why # "archive_rejected"
====
