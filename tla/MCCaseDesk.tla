---- MODULE MCCaseDesk ----
(***************************************************************************)
(* Staff access, customers and cases of the tenant administration.  Both   *)
(* are modelled over tables of their own, so a property of one holds of    *)
(* both together exactly when it holds of that one alone; scene, chosen at *)
(* the start, says which part moves, and with which constants.             *)
(***************************************************************************)
EXTENDS Integers, Sequences, FiniteSets, TLC

CONSTANTS Threads, None

VARIABLES
    scene,
    users, roles, identities, asked, revoked, claims, login,                   \* StaffAccess
    customers, cases, filed, leads, events, scope, thread, served, reply       \* CaseDesk

staffVars == <<users, roles, identities, asked, revoked, claims, login>>
caseVars == <<customers, cases, filed, leads, events, scope, thread, served, reply>>

\* Threads are interchangeable.
ThreadSymmetry == Permutations(Threads)

----
(* Staff: roles of two users; the mobile logins of one. *)

Roles == INSTANCE StaffAccess WITH
    RoleCodes <- {"admin", "employee", "sales"}, Emails <- {"e1", "e2"}, Subjects <- {}, MaxUsers <- 2, MaxIdentities <- 0
Mobile == INSTANCE StaffAccess WITH
    RoleCodes <- {"admin"}, Emails <- {"e1", "e2"}, Subjects <- {"s1", "s2"}, MaxUsers <- 1, MaxIdentities <- 3

----
(* Customers and cases: two users, forms that share names, e-mail addresses, numbers and postal codes. *)

Form(n, e, p, z) == [name |-> n, email |-> e, phone |-> p, postal |-> z]

\* One form per kind of coincidence, and one that matches by e-mail and by phone at once.
CollidingForms == {Form("n1", "e1", "p1", "z1"), Form("n1", "", "", "z1"), Form("n2", "e1", "p1", ""), Form("n2", "e1", "", "")}

\* Cases need customers, not coincidences.
PlainForms == {Form("n1", "e1", "", ""), Form("n2", "", "", "")}

\* customer_cases_case_status of migration 0005.
SchemaStatuses == {"active", "paused", "won", "lost", "closed"}

Customers == INSTANCE CaseDesk WITH
    Users <- {"u1", "u2"}, Admins <- {}, Forms <- CollidingForms, Blank <- "", CaseStatuses <- SchemaStatuses,
    AskedStatuses <- {"active"}, MaxRequests <- 3, MaxRows <- 2, MatchLimit <- 1
CaseFiles == INSTANCE CaseDesk WITH
    Users <- {"u1", "u2"}, Admins <- {}, Forms <- PlainForms, Blank <- "", CaseStatuses <- SchemaStatuses,
    AskedStatuses <- {"paused"}, MaxRequests <- 3, MaxRows <- 1, MatchLimit <- 5

----
DeskInit ==
    /\ scene \in {"roles", "mobile", "customers", "cases"}
    /\ Roles!Init
    /\ IF scene = "customers" THEN Customers!Init ELSE CaseFiles!Init

DeskNext ==
    \/ scene = "roles" /\ Roles!Next /\ UNCHANGED <<scene, caseVars>>
    \/ scene = "mobile" /\ Mobile!Next /\ UNCHANGED <<scene, caseVars>>
    \/ scene = "customers" /\ Customers!CustomerNext /\ UNCHANGED <<scene, staffVars>>
    \/ scene = "cases" /\ CaseFiles!CaseNext /\ UNCHANGED <<scene, staffVars>>

DeskSpec == DeskInit /\ [][DeskNext]_<<scene, staffVars, caseVars>>

----
(* Properties. *)

\* Access follows what administrators saved: whatever order the sub-statements of upsert_user and
\* save_roles run in, no user holds a role the last request left out, and the administrator flag is the
\* one it asked for; a subject an operator revoked is never let in again, not even by another
\* invitation; and an invitation is claimed only by a login whose verified address is the invited one.
AccessFollowsRequests ==
    /\ scene = "roles" => Roles!NoRoleBeyondRequest
    /\ scene = "mobile" => Mobile!RevokedStaysOut /\ Mobile!InvitationsReachTheInvited

\* No two customers carry the same telephone number, although the duplicate queries and the insert
\* of save_customer are separate transactions, may overlap with another save, and filter out a match
\* that is also an e-mail match.
PhonesAreUnique == Customers!PhonesAreUnique

\* A request that is refused has written nothing at all, one whose customer or case is not found has
\* changed no existing row, and no request ever changes the owner of a case, however often the case
\* is reassigned: save_customer and the case handlers.
FilesKept == Customers!RefusalWritesNothing /\ Customers!OwnersStay
RequestsKeepFiles == [][FilesKept]_caseVars
====
