---- MODULE MCWorkDesk ----
(***************************************************************************)
(* Tasks and e-mails, CARAT orders and order confirmations of the tenant   *)
(* administration, over tables of their own: a property of one holds of    *)
(* all together exactly when it holds of that one alone.  scene, chosen at *)
(* the start, says which part moves; thread and served are those of the    *)
(* part that is played.                                                    *)
(***************************************************************************)
EXTENDS Integers, Sequences, FiniteSets, TLC

CONSTANT Threads

VARIABLES
    scene, thread, served,
    tasks, emails, suggestions, events, disk, attachments, assigned,   \* WorkDesk
    docs, imports, sel, orders, objects, dirty, done,                  \* CaratOrders
    order, confirmations, exceptions, decisions, drafts                \* OrderConfirmation

workVars == <<tasks, emails, suggestions, events, disk, attachments, assigned>>
caratVars == <<docs, imports, sel, orders, objects, dirty, done>>
confirmationVars == <<order, confirmations, exceptions, decisions, drafts>>

\* Threads are interchangeable.
ThreadSymmetry == Permutations(Threads)

----
(* Tasks and e-mails: two users who each own one of two cases and stand in for nobody else. *)

OwnScope == [u \in {"u1", "u2"} |-> {u}]
SplitOwners == <<"u1", "u2">>

TaskDesk == INSTANCE WorkDesk WITH
    Users <- {"u1", "u2"}, Admins <- {}, Scope <- OwnScope, Cases <- {1, 2}, Owner <- SplitOwners, Emails <- {},
    NoUser <- "nobody", Searches <- {{}, {1, 2}}, Channels <- {{}, {"overview"}}, MaxRequests <- 3, MaxTasks <- 1,
    MaxSuggestions <- 0
EmailDesk == INSTANCE WorkDesk WITH
    Users <- {"u1", "u2"}, Admins <- {}, Scope <- OwnScope, Cases <- {1, 2}, Owner <- SplitOwners, Emails <- {"m1"},
    NoUser <- "nobody", Searches <- {{1}, {1, 2}}, Channels <- {{}}, MaxRequests <- 3, MaxTasks <- 1, MaxSuggestions <- 2

----
(* CARAT orders: positions 1 and 2 belong to one supplier spelled two ways, 3 is an image position. *)

Carat == INSTANCE CaratOrders WITH
    Positions <- {1, 2, 3}, SupplierName <- <<"Acme", "A-CME", "Bilddaten">>,
    Normalized <- ("Acme" :> "acme") @@ ("A-CME" :> "acme") @@ ("Bilddaten" :> "bilddaten"),
    Pseudo <- {3}, MaxRequests <- 4, MaxDocs <- 1

----
(* Order confirmations; -1 is SQL NULL. *)

Row(a, q, p, w, d) == [article |-> a, quantity |-> q, price |-> p, week |-> w, date |-> d]

\* Two rows of one article and one of another; a single row.
SomeOrders == {<<Row(1, 1, 5, -1, 10), Row(1, 2, 5, 3, -1), Row(2, -1, -1, -1, -1)>>, <<Row(1, 1, 5, -1, 10)>>}

\* An exact line; a dear and unreadable one; late by a week; early; of another article; without a code.
SomeEntries == {<<Row(1, 1, 5, -1, 10)>>, <<Row(1, -1, 6, 4, 17), Row(2, 1, 1, 1, 1)>>,
                <<Row(1, 2, 5, 4, 9), Row(3, 1, 5, -1, -1)>>, <<Row(-1, 1, 5, -1, -1)>>}

Confirmations == INSTANCE OrderConfirmation WITH
    None <- -1, Orders <- SomeOrders, Entries <- SomeEntries, MaxRequests <- 3, MaxSyncs <- 1, BufferDays <- 7

----
\* A part that is not played is absent.
NoWork ==
    /\ tasks = <<>> /\ emails = <<>> /\ suggestions = <<>> /\ events = <<>> /\ disk = {} /\ attachments = {} /\ assigned = <<>>
NoCarat == docs = <<>> /\ imports = <<>> /\ sel = <<>> /\ orders = <<>> /\ objects = {} /\ dirty = {} /\ done = 0
NoConfirmations == order = <<>> /\ confirmations = <<>> /\ exceptions = <<>> /\ decisions = <<>> /\ drafts = {}

DeskInit ==
    \/ scene = "tasks" /\ TaskDesk!Init /\ NoCarat /\ NoConfirmations
    \/ scene = "emails" /\ EmailDesk!Init /\ NoCarat /\ NoConfirmations
    \/ scene = "carat" /\ Carat!Init /\ NoWork /\ NoConfirmations
    \/ scene = "confirmations" /\ Confirmations!Init /\ NoWork /\ NoCarat

DeskNext ==
    \/ scene = "tasks" /\ TaskDesk!TaskNext /\ UNCHANGED <<scene, caratVars, confirmationVars>>
    \/ scene = "emails" /\ EmailDesk!EmailNext /\ UNCHANGED <<scene, caratVars, confirmationVars>>
    \/ scene = "carat" /\ Carat!Next /\ UNCHANGED <<scene, workVars, confirmationVars>>
    \/ scene = "confirmations" /\ Confirmations!Next /\ UNCHANGED <<scene, workVars, caratVars>>

DeskSpec == DeskInit /\ [][DeskNext]_<<scene, thread, served, workVars, caratVars, confirmationVars>>

----
(* Properties. *)

\* Work follows its assignment: whoever is reminded of a task is the person it is assigned to, in
\* either order of update_task's sub-statements; an accepted suggestion is backed by the link it
\* proposed, however assign_email and decide_email_suggestion interleave; an attachment row names a
\* file that is on disk, wherever the server died.
WorkFollowsAssignment ==
    scene \in {"tasks", "emails"} =>
        TaskDesk!RemindersFollowAssignee /\ TaskDesk!AttachmentsHaveFiles /\ TaskDesk!AcceptedSuggestionsAreLinked

\* Orders mirror the selection: once it has been synchronised, the orders of an import hold selected
\* positions of their own supplier only, there is one order for a supplier and an import, and every
\* document has its object; concurrent selections, crashes before the transfer mark and leftovers of
\* unfinished transfers included.
OrdersMirrorSelection ==
    scene = "carat" => Carat!OrdersHoldSelectedOnly /\ Carat!OneOrderPerSupplier /\ Carat!DocumentsHaveObjects

\* A confirmation is judged in full: a line has the colour of the worst exception recorded for it,
\* every position of the order is compared or reported missing, and the decisions on an exception form
\* a chain from open to the status it has now; a synchronisation between the two transactions of the
\* matching included.
ConfirmationsAreJudged ==
    scene = "confirmations" =>
        Confirmations!SeverityIsWorstException /\ Confirmations!NothingGoesMissing /\ Confirmations!DecisionsAreTraced
====
