---- MODULE StaffAccess ----
(***************************************************************************)
(* Staff accounts of the tenant CRM: users and their role rows, and the    *)
(* Apple identities of the mobile app.  One psql call is one transaction   *)
(* (psql_json), so every handler here is one atomic step; inside a         *)
(* statement the sub-statements of a WITH read one snapshot and run in an  *)
(* order PostgreSQL leaves open.                                           *)
(***************************************************************************)
EXTENDS Naturals, FiniteSets, Sequences

CONSTANTS
    RoleCodes,      \* the role table, "admin" among them
    Emails,         \* e-mail addresses of users and of Apple logins
    Subjects,       \* stable Apple subjects
    None,           \* SQL NULL
    MaxUsers,       \* bound: users ever created
    MaxIdentities   \* bound: rows of mobile_app_identities

VARIABLES
    users,          \* app.users: id -> [email, active, admin]
    roles,          \* app.user_roles: id -> set of role codes
    identities,     \* app.mobile_app_identities, in insertion order
    asked,          \* history: the roles of the last request for each user
    revoked,        \* history: subjects an operator has revoked
    claims,         \* history: [identity, email, verified] of every claimed invitation
    login           \* history: the last mobile login and its outcome

vars == <<users, roles, identities, asked, revoked, claims, login>>

UserIds == 1..MaxUsers
NoLogin == [subject |-> None, invited |-> FALSE, outcome |-> "none"]

\* The form sends check boxes for the three codes; the statement joins the role table.
SelectedRoles == SUBSET RoleCodes

Init ==
    /\ users = <<>>
    /\ roles = <<>>
    /\ identities = <<>>
    /\ asked = <<>>
    /\ revoked = {}
    /\ claims = {}
    /\ login = NoLogin

----
(* Users and roles *)

InsertUser(email, active, R) ==
    /\ Len(users) < MaxUsers
    /\ users' = Append(users, [email |-> email, active |-> active, admin |-> "admin" \in R])
    /\ roles' = Append(roles, R)
    /\ asked' = Append(asked, R)
    /\ UNCHANGED <<identities, revoked, claims, login>>

\* removed_roles deletes the user's rows and inserted_roles inserts the requested ones ON CONFLICT
\* DO NOTHING, in one statement.  Deleting first leaves the request; inserting first finds a
\* conflict for every role the user keeps, and the deletion then removes that row.
RowsAfterReplace(held, R) == {R, R \ held}

UpdateUser(u, email, active, R) ==
    /\ u \in DOMAIN users
    /\ users' = [users EXCEPT ![u] = [email |-> email, active |-> active, admin |-> "admin" \in R]]
    /\ \E rows \in RowsAfterReplace(roles[u], R) : roles' = [roles EXCEPT ![u] = rows]
    /\ asked' = [asked EXCEPT ![u] = R]
    /\ UNCHANGED <<identities, revoked, claims, login>>

SaveRolesMutant(u, R) ==
    /\ u \in DOMAIN users
    /\ roles' = [roles EXCEPT ![u] = R]
    /\ asked' = [asked EXCEPT ![u] = R]
    /\ UNCHANGED <<users, identities, revoked, claims, login>>

\* Three statements in one transaction: delete, insert, set the flag.
SaveRoles(u, R) ==
    /\ u \in DOMAIN users
    /\ roles' = [roles EXCEPT ![u] = R]
    /\ users' = [users EXCEPT ![u].admin = "admin" \in R]
    /\ asked' = [asked EXCEPT ![u] = R]
    /\ UNCHANGED <<identities, revoked, claims, login>>

----
(* The mobile app *)

\* An invitation is inserted, and an identity revoked, by an operator's migration.
Invite(u, email) ==
    /\ u \in DOMAIN users
    /\ Len(identities) < MaxIdentities
    /\ \A i \in DOMAIN identities :
          identities[i].user = u /\ identities[i].email = email => identities[i].status = "revoked"
    /\ identities' = Append(identities, [user |-> u, subject |-> None, email |-> email, status |-> "pending"])
    /\ UNCHANGED <<users, roles, asked, revoked, claims, login>>

Revoke(i) ==
    /\ identities[i].status = "active"
    /\ identities' = [identities EXCEPT ![i].status = "revoked"]
    /\ revoked' = revoked \cup {identities[i].subject}
    /\ login' = NoLogin
    /\ UNCHANGED <<users, roles, asked, claims>>

Rows == DOMAIN identities
ActiveRows(s) == {i \in Rows : identities[i].subject = s /\ identities[i].status = "active"}
ClaimableRows(s, email, verified) ==
    IF ActiveRows(s) # {} \/ ~verified THEN {}
    ELSE {i \in Rows : /\ identities[i].status = "pending"
                       /\ identities[i].subject = None
                       /\ identities[i].email = email}
Authorizes(row) == row.status = "active" /\ row.user # None /\ users[row.user].active

Outcome(s, invited, row) ==
    [subject |-> s, invited |-> invited, outcome |-> IF Authorizes(row) THEN "authorized" ELSE row.status]

\* The unique index on apple_subject rejects the statement when two rows would carry the subject.
ViolatesSubjectKey(s, claimed) ==
    \/ Cardinality(claimed) > 1
    \/ claimed # {} /\ \E i \in Rows : identities[i].subject = s

MobileAppleSession(s, email, verified) ==
    LET claimed == ClaimableRows(s, email, verified)
        invited == verified /\ \E i \in Rows : identities[i].status = "pending" /\ identities[i].email = email
        known   == {i \in Rows : identities[i].subject = s}
        stamped == [i \in Rows |-> IF i \in claimed
                                   THEN [identities[i] EXCEPT !.subject = s, !.status = "active"]
                                   ELSE identities[i]]
        fresh   == [user |-> None, subject |-> s, email |-> IF verified THEN email ELSE None,
                    status |-> "requested"]
    IN /\ \/ /\ ActiveRows(s) # {}
             /\ login' = Outcome(s, invited, identities[CHOOSE i \in ActiveRows(s) : TRUE])
             /\ UNCHANGED <<identities, claims>>
          \/ /\ ViolatesSubjectKey(s, claimed)
             /\ login' = [subject |-> s, invited |-> invited, outcome |-> "error"]
             /\ UNCHANGED <<identities, claims>>
          \/ /\ claimed # {} /\ ~ViolatesSubjectKey(s, claimed)
             /\ identities' = stamped
             /\ claims' = claims \cup {[identity |-> i, email |-> email, verified |-> verified] : i \in claimed}
             /\ login' = Outcome(s, invited, stamped[CHOOSE i \in claimed : TRUE])
          \/ /\ claimed = {} /\ known = {} /\ Len(identities) < MaxIdentities
             /\ identities' = Append(identities, fresh)
             /\ login' = Outcome(s, invited, fresh)
             /\ UNCHANGED claims
          \/ /\ claimed = {} /\ known # {} /\ ActiveRows(s) = {}
             /\ login' = Outcome(s, invited, identities[CHOOSE i \in known : TRUE])
             /\ UNCHANGED <<identities, claims>>
       /\ UNCHANGED <<users, roles, asked, revoked>>

Next ==
    \/ \E e \in Emails, a \in BOOLEAN, R \in SelectedRoles : InsertUser(e, a, R)
    \/ \E u \in UserIds, e \in Emails, a \in BOOLEAN, R \in SelectedRoles : UpdateUser(u, e, a, R)
    \/ \E u \in UserIds, R \in SelectedRoles : SaveRoles(u, R)
    \/ \E u \in UserIds, e \in Emails : Invite(u, e)
    \/ \E i \in Rows : Revoke(i)
    \/ \E s \in Subjects, e \in Emails, v \in BOOLEAN : MobileAppleSession(s, e, v)

Spec == Init /\ [][Next]_vars

----
(* Properties *)

\* Whatever order the sub-statements run in, and whichever of the two handlers wrote last, no user
\* holds a role the last request left out, and the administrator flag is the one it asked for:
\* upsert_user and save_roles keep flag and rows from granting more than was saved.
NoRoleBeyondRequest ==
    \A u \in DOMAIN users : roles[u] \subseteq asked[u] /\ users[u].admin = ("admin" \in asked[u])

\* A subject an operator has revoked is never let in again, not even by claiming another invitation
\* for its address: mobile_apple_session never moves a revoked row, and the subject key forbids a
\* second one.
RevokedStaysOut == login.outcome = "authorized" => login.subject \notin revoked

\* An invitation is claimed only by a login whose verified address is the invited one.
InvitationsReachTheInvited ==
    \A c \in claims : c.verified /\ identities[c.identity].email = c.email

----
(* Statements of the documents that the code does not keep. *)

\* "after first Apple login, the stable Apple subject is stored and future access is subject-based":
\* a verified login for which an invitation is pending ends with the subject stored in an active row,
\* unless an operator has revoked the subject.
FirstLoginStoresSubject ==
    login.invited /\ login.subject \notin revoked
      => \E i \in Rows : identities[i].subject = login.subject /\ identities[i].status = "active"
====
