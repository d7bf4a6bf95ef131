---- MODULE WorkDesk ----
(***************************************************************************)
(* Tasks and incoming e-mail of the tenant CRM's Admin API: a request      *)
(* resolves the case it names in one transaction, writes in a second, and  *)
(* stores its attachment after that.  Other requests run in between and    *)
(* the server may die there.  Delegations do not change here (CaseDesk has *)
(* them): the scope of a user is a constant.  Statements are atomic.       *)
(***************************************************************************)
EXTENDS Naturals, FiniteSets, Sequences

CONSTANTS
    Users, Admins,
    Scope,           \* Scope[u]: the users u stands in for
    Cases,           \* app.customer_cases, all active; positive numbers
    Owner,           \* Owner[c]: owner_user_id of a case
    Emails,          \* app.email_messages
    NoUser,          \* SQL NULL in assigned_user_id
    Searches,        \* the sets of cases a search text may match; {} when none is given
    Channels,        \* sets of reminder channels a task form asks for
    Threads,         \* concurrent requests
    MaxRequests,     \* bound: requests served
    MaxTasks,        \* bound: rows of app.tasks
    MaxSuggestions   \* bound: rows of app.email_assignment_suggestions

VARIABLES
    tasks,        \* app.tasks with assignments and reminders, by id
    emails,       \* app.email_messages with the linked cases
    suggestions,  \* app.email_assignment_suggestions, by id
    events,       \* app.communication_events, in order
    disk,         \* attachment files, named by the request that wrote them
    attachments,  \* app.task_attachments: [task, file]
    thread,       \* the request each thread works on
    served,       \* number of requests started
    assigned      \* history: assignments of each e-mail

vars == <<tasks, emails, suggestions, events, disk, attachments, thread, served, assigned>>

Idle == [pc |-> "idle", op |-> "none", id |-> 0, user |-> CHOOSE u \in Users : TRUE, to |-> CHOOSE u \in Users : TRUE,
         hits |-> {}, case |-> 0, channels |-> {}, file |-> 0, do |-> "none"]

FreshEmail == [user |-> NoUser, links |-> {}, archived |-> FALSE, deleted |-> FALSE]

Init ==
    /\ tasks = <<>>
    /\ emails = [e \in Emails |-> FreshEmail]
    /\ suggestions = <<>>
    /\ events = <<>>
    /\ disk = {}
    /\ attachments = {}
    /\ thread = [t \in Threads |-> Idle]
    /\ served = 0
    /\ assigned = [e \in Emails |-> 0]

----
(* Visibility *)

\* A case is open to its owner and to everyone with a task on it, trashed tasks included.
CaseVisible(u, c) ==
    \/ u \in Admins
    \/ Owner[c] \in Scope[u]
    \/ \E k \in DOMAIN tasks : tasks[k].case = c /\ tasks[k].to \cap Scope[u] # {}

TaskVisible(u, k) ==
    /\ k \in DOMAIN tasks /\ ~tasks[k].deleted
    /\ u \in Admins \/ tasks[k].by \in Scope[u] \/ tasks[k].to \cap Scope[u] # {}

\* cs: the cases whose owner may see the e-mail too.
EmailVisible(u, e, cs) ==
    /\ ~emails[e].deleted
    /\ \/ u \in Admins
       \/ emails[e].user = NoUser \/ emails[e].user \in Scope[u]
       \/ \E c \in cs : Owner[c] \in Scope[u]

----
(* Requests *)

Start(t, request) ==
    /\ thread[t].pc = "idle" /\ served < MaxRequests
    /\ served' = served + 1
    /\ thread' = [thread EXCEPT ![t] = request]
    /\ UNCHANGED <<tasks, emails, suggestions, events, disk, attachments, assigned>>

\* hits: the cases the search text matches, or the one case named; {} when none is given.
SaveTask(t, u, k, to, hits, channels, attach) ==
    Start(t, [Idle EXCEPT !.pc = "resolve", !.op = "task", !.id = k, !.user = u, !.to = to, !.hits = hits,
                          !.channels = channels, !.file = IF attach THEN served + 1 ELSE 0])

AssignEmail(t, u, e, hits) ==
    Start(t, [Idle EXCEPT !.pc = "resolve", !.op = "assign", !.do = e, !.user = u, !.hits = hits])

SetLifecycle(t, u, op, id, e, action) ==
    Start(t, [Idle EXCEPT !.pc = "write", !.op = op, !.id = id, !.do = e, !.user = u, !.file = action])

DecideSuggestion(t, u, s) == Start(t, [Idle EXCEPT !.pc = "write", !.op = "decide", !.id = s, !.user = u])

Finish(t) == thread' = [thread EXCEPT ![t] = Idle]

\* resolve_customer_case_id: none, one, or an ambiguous search; a task may do without a case.
ResolveCase(t) ==
    LET r == thread[t]
        found == {c \in r.hits : CaseVisible(r.user, c)}
    IN /\ r.pc = "resolve"
       /\ \/ /\ Cardinality(found) = 1
             /\ thread' = [thread EXCEPT ![t].pc = "write", ![t].case = CHOOSE c \in found : TRUE]
          \/ found = {} /\ r.op = "task" /\ thread' = [thread EXCEPT ![t].pc = "write"]
          \/ found = {} /\ r.op = "assign" /\ Finish(t)
          \/ Cardinality(found) > 1 /\ Finish(t)
       /\ UNCHANGED <<tasks, emails, suggestions, events, disk, attachments, served, assigned>>

----
(* Tasks *)

Log(type, task, email, case) == Append(events, [type |-> type, task |-> task, email |-> email, case |-> case])

\* After the statement: the attachment, or the answer.
AfterTask(t, k) ==
    thread' = [thread EXCEPT ![t] = IF thread[t].file = 0 THEN Idle ELSE [@ EXCEPT !.pc = "file", !.id = k]]

CreateTask(t) ==
    LET r == thread[t] IN
    /\ r.pc = "write" /\ r.op = "task" /\ r.id = 0 /\ Len(tasks) < MaxTasks
    /\ tasks' = Append(tasks, [case |-> r.case, by |-> r.user, to |-> {r.to}, reminders |-> {r.to} \X r.channels,
                               archived |-> FALSE, deleted |-> FALSE])
    /\ events' = Log("task_created", Len(tasks) + 1, "none", r.case)
    /\ AfterTask(t, Len(tasks) + 1)
    /\ UNCHANGED <<emails, suggestions, disk, attachments, served, assigned>>

\* deleted_reminders and the inserts (ON CONFLICT DO NOTHING) are sub-statements of one statement:
\* whichever runs first, the deletion removes the rows of the snapshot.
RemindersAfterMutant(old, new) == {new \cup old}
RemindersAfter(old, new) == {new, new \ old}

UpdateTask(t) ==
    LET r == thread[t]
        k == r.id
    IN /\ r.pc = "write" /\ r.op = "task" /\ k # 0
       /\ IF TaskVisible(r.user, k)
          THEN /\ \E rem \in RemindersAfter(tasks[k].reminders, {r.to} \X r.channels) :
                    tasks' = [tasks EXCEPT ![k] = [@ EXCEPT !.case = r.case, !.to = {r.to}, !.reminders = rem]]
               /\ events' = Log("task_updated", k, "none", r.case)
               /\ AfterTask(t, k)
          ELSE Finish(t) /\ UNCHANGED <<tasks, events>>
       /\ UNCHANGED <<emails, suggestions, disk, attachments, served, assigned>>

SetTaskLifecycle(t) ==
    LET r == thread[t] IN
    /\ r.pc = "write" /\ r.op = "task_life"
    /\ IF TaskVisible(r.user, r.id)
       THEN /\ tasks' = [tasks EXCEPT ![r.id] = IF r.file = 1 THEN [@ EXCEPT !.archived = TRUE]
                                                             ELSE [@ EXCEPT !.deleted = TRUE]]
            /\ events' = Log(IF r.file = 1 THEN "task_archived" ELSE "task_moved_to_trash", r.id, "none", tasks[r.id].case)
       ELSE UNCHANGED <<tasks, events>>
    /\ Finish(t)
    /\ UNCHANGED <<emails, suggestions, disk, attachments, served, assigned>>

\* save_task_attachment: the file first, the row that names it second.
WriteFile(t) ==
    /\ thread[t].pc = "file"
    /\ disk' = disk \cup {thread[t].file}
    /\ thread' = [thread EXCEPT ![t].pc = "row"]
    /\ UNCHANGED <<tasks, emails, suggestions, events, attachments, served, assigned>>

InsertAttachment(t) ==
    /\ thread[t].pc = "row"
    /\ attachments' = attachments \cup {[task |-> thread[t].id, file |-> thread[t].file]}
    /\ Finish(t)
    /\ UNCHANGED <<tasks, emails, suggestions, events, disk, served, assigned>>

----
(* E-mail *)

\* Pending suggestions of the e-mail become accepted if they are among the
\* named ones and rejected otherwise.
Decided(e, accepted) ==
    [s \in DOMAIN suggestions |->
       IF suggestions[s].email # e \/ suggestions[s].status # "pending" THEN suggestions[s]
       ELSE [suggestions[s] EXCEPT !.status = IF s \in accepted THEN "accepted" ELSE "rejected"]]

\* The second statement looks the case up again; the e-mail is marked assigned and the suggestions
\* are decided even when the case is no longer visible.
WriteAssignment(t) ==
    LET r == thread[t]
        e == r.do
        target == {c \in {r.case} : CaseVisible(r.user, c)}
    IN /\ r.pc = "write" /\ r.op = "assign"
       /\ IF EmailVisible(r.user, e, emails[e].links)
          THEN /\ emails' = [emails EXCEPT ![e].user = r.user, ![e].links = @ \cup target]
               /\ suggestions' = Decided(e, {s \in DOMAIN suggestions : suggestions[s].case \in target})
               /\ events' = IF target = {} THEN events ELSE Log("email_assigned", 0, e, r.case)
               /\ assigned' = [assigned EXCEPT ![e] = @ + 1]
          ELSE UNCHANGED <<emails, suggestions, events, assigned>>
       /\ Finish(t)
       /\ UNCHANGED <<tasks, disk, attachments, served>>

\* Only "accept" is routed.  A suggestion may name no case (0): then there is nothing to link.
DecideEmailSuggestion(t) ==
    LET r == thread[t]
        s == r.id
        e == suggestions[s].email
        named == {suggestions[s].case} \ {0}
    IN /\ r.pc = "write" /\ r.op = "decide"
       /\ IF /\ s \in DOMAIN suggestions
             /\ suggestions[s].status = "pending" /\ EmailVisible(r.user, e, named)
          THEN /\ emails' = [emails EXCEPT ![e].user = r.user, ![e].links = @ \cup named]
               /\ suggestions' = Decided(e, {s})
               /\ events' = Log("email_assignment_suggestion_accepted", 0, e, suggestions[s].case)
               /\ assigned' = [assigned EXCEPT ![e] = @ + 1]
          ELSE UNCHANGED <<emails, suggestions, events, assigned>>
       /\ Finish(t)
       /\ UNCHANGED <<tasks, disk, attachments, served>>

\* One event per linked case, or one without a case.
SetEmailLifecycle(t) ==
    LET r == thread[t]
        e == r.do
        type == IF r.file = 1 THEN "email_archived" ELSE "email_moved_to_trash"
        rows == {[type |-> type, task |-> 0, email |-> e, case |-> c] :
                   c \in IF emails[e].links = {} THEN {0} ELSE emails[e].links}
    IN /\ r.pc = "write" /\ r.op = "email_life"
       /\ IF EmailVisible(r.user, e, emails[e].links)
          THEN /\ emails' = [emails EXCEPT ![e] = IF r.file = 1 THEN [@ EXCEPT !.archived = TRUE]
                                                               ELSE [@ EXCEPT !.deleted = TRUE]]
               /\ events' = events \o CHOOSE q \in [1..Cardinality(rows) -> rows] : {q[i] : i \in DOMAIN q} = rows
          ELSE UNCHANGED <<emails, events>>
       /\ Finish(t)
       /\ UNCHANGED <<tasks, suggestions, disk, attachments, served, assigned>>

\* Suggestions come from outside: nothing in the repository inserts one.
Suggest(e, c) ==
    /\ Len(suggestions) < MaxSuggestions
    /\ suggestions' = Append(suggestions, [email |-> e, case |-> c, status |-> "pending"])
    /\ UNCHANGED <<tasks, emails, events, disk, attachments, thread, served, assigned>>

Crash ==
    /\ \E t \in Threads : thread[t].pc # "idle"
    /\ thread' = [t \in Threads |-> Idle]
    /\ UNCHANGED <<tasks, emails, suggestions, events, disk, attachments, served, assigned>>

TaskNext ==
    \/ \E t \in Threads, u, to \in Users, k \in 0..MaxTasks, hits \in Searches, ch \in Channels :
          SaveTask(t, u, k, to, hits, ch, ch = {})
    \/ \E t \in Threads, u \in Users, k \in 1..MaxTasks, action \in 1..2 : SetLifecycle(t, u, "task_life", k, "none", action)
    \/ \E t \in Threads : \/ ResolveCase(t) \/ CreateTask(t) \/ UpdateTask(t) \/ SetTaskLifecycle(t)
                          \/ WriteFile(t) \/ InsertAttachment(t)
    \/ Crash

EmailNext ==
    \/ \E t \in Threads, u, to \in Users, k \in 0..MaxTasks, c \in Cases : SaveTask(t, u, k, to, {c}, {}, FALSE)
    \/ \E t \in Threads, u \in Users, e \in Emails, hits \in Searches : AssignEmail(t, u, e, hits)
    \/ \E t \in Threads, u \in Users, e \in Emails, action \in 1..2 : SetLifecycle(t, u, "email_life", 0, e, action)
    \/ \E t \in Threads, u \in Users, s \in 1..MaxSuggestions : DecideSuggestion(t, u, s)
    \/ \E e \in Emails, c \in Cases \cup {0} : Suggest(e, c)
    \/ \E t \in Threads : \/ ResolveCase(t) \/ CreateTask(t) \/ UpdateTask(t)
                          \/ WriteAssignment(t) \/ DecideEmailSuggestion(t) \/ SetEmailLifecycle(t)

TaskSpec == Init /\ [][TaskNext]_vars
EmailSpec == Init /\ [][EmailNext]_vars

----
(* Properties *)

\* Whoever is reminded of a task is the person it is assigned to: an edit that hands the task over
\* takes the old reminders with it, in either order of update_task's sub-statements.
RemindersFollowAssignee ==
    \A k \in DOMAIN tasks : \A r \in tasks[k].reminders : r[1] \in tasks[k].to

\* An attachment row names a file that is on disk, wherever the server died: the file is written
\* before the row.
AttachmentsHaveFiles == \A a \in attachments : a.file \in disk /\ a.task \in DOMAIN tasks

\* An accepted suggestion is backed by the link it proposed, however assign_email and
\* decide_email_suggestion interleave and whatever is suggested later.
AcceptedSuggestionsAreLinked ==
    \A s \in DOMAIN suggestions : suggestions[s].status = "accepted" /\ suggestions[s].case # 0
       => suggestions[s].case \in emails[suggestions[s].email].links

----
(* Statements of the documents that the code does not keep. *)

\* Every assignment of an e-mail leaves an event behind: "Side-effecting CRM actions expose status,
\* reason, confirmation path, and audit evidence".
AssignmentsAreAudited ==
    \A e \in Emails :
       assigned[e] <= Cardinality({i \in DOMAIN events :
                        /\ events[i].email = e
                        /\ events[i].type \in {"email_assigned", "email_assignment_suggestion_accepted"}})
====
