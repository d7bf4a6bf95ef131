---- MODULE MailImport ----
(***************************************************************************)
(* The mail importer: passes over one IMAP folder that copy new messages   *)
(* into PostgreSQL.  A pass reads the account's high-water mark, lists     *)
(* higher UIDs, stores message by message and moves the mark at the end.   *)
(* The timer's pass may overlap one started by hand.  A folder that is     *)
(* rebuilt gets a new UIDVALIDITY and numbers its messages anew.           *)
(***************************************************************************)
EXTENDS Naturals, FiniteSets, Sequences, FiniteSetsExt

CONSTANTS
    Messages,
    Anonymous,     \* messages without a Message-ID header
    Importers,     \* passes that may run at the same time
    MaxMessages,   \* --max-messages: messages a pass handles
    MaxRebuilds,   \* bound: times the folder is rebuilt
    MaxFaults      \* bound: failed fetches, database errors and crashes

VARIABLES
    folder,    \* [validity, mails]: the message with UID n is mails[n]
    account,   \* app.email_accounts: import_uidvalidity (0 for NULL), last_imported_uid, status
    stored,    \* app.email_messages: [ext, msg]
    attached,  \* messages whose attachment has file and row
    pass,      \* the state of each importer
    lost,      \* history: messages a fetch did not deliver
    faults

vars == <<folder, account, stored, attached, pass, lost, faults>>

NoPass == [pc |-> "idle", validity |-> 0, last |-> 0, todo |-> <<>>, high |-> 0, msg |-> "none"]

Init ==
    /\ folder = [validity |-> 1, mails |-> <<>>]
    /\ account = [validity |-> 0, last |-> 0, status |-> "new"]
    /\ stored = {} /\ attached = {}
    /\ pass = [i \in Importers |-> NoPass]
    /\ lost = {} /\ faults = 0

Mails == {folder.mails[n] : n \in DOMAIN folder.mails}

\* The IMAP server.
Deliver(m) ==
    /\ m \notin Mails
    /\ folder' = [folder EXCEPT !.mails = Append(@, m)]
    /\ UNCHANGED <<account, stored, attached, pass, lost, faults>>

\* The folder is rebuilt, without the older messages that were moved or deleted; sessions on it break.
Rebuild ==
    /\ folder.validity <= MaxRebuilds
    /\ \E k \in 0..Len(folder.mails) :
          folder' = [validity |-> folder.validity + 1, mails |-> SubSeq(folder.mails, k + 1, Len(folder.mails))]
    /\ pass' = [i \in Importers |-> IF pass[i].pc = "idle" THEN NoPass ELSE [NoPass EXCEPT !.pc = "error"]]
    /\ UNCHANGED <<account, stored, attached, lost, faults>>

----
(* import_account *)

StartUid(a) == IF a.validity # 0 /\ a.validity # folder.validity THEN 1 ELSE a.last + 1

FirstMax(uids) == SubSeq(uids, 1, IF Len(uids) < MaxMessages THEN Len(uids) ELSE MaxMessages)

\* The answer to "UID SEARCH UID n:*", which names the last message even below n, without what is
\* below n.
SearchNewUids(start) ==
    [k \in 1..(IF start > Len(folder.mails) THEN 0 ELSE Len(folder.mails) - start + 1) |-> start + k - 1]

\* Account, UIDVALIDITY, SELECT and SEARCH.
Begin(i) ==
    /\ pass[i].pc = "idle"
    /\ pass' = [pass EXCEPT ![i] = [NoPass EXCEPT
                  !.pc = "fetch", !.validity = folder.validity, !.last = account.last,
                  !.todo = FirstMax(SearchNewUids(StartUid(account))), !.high = account.last]]
    /\ UNCHANGED <<folder, account, stored, attached, lost, faults>>

HighestMutant(high, uid) == Max({high, Len(folder.mails)})
\* The mark never goes down within a pass, whatever numbering it came from.
Highest(high, uid) == Max({high, uid})

Fetch(i) ==
    LET p == pass[i]
        uid == Head(p.todo)
        fetched == folder.mails[uid]
    IN /\ p.pc = "fetch" /\ p.todo # <<>>
       /\ \/ /\ pass' = [pass EXCEPT ![i].pc = "insert", ![i].msg = fetched, ![i].high = Highest(p.high, uid)]
             /\ UNCHANGED <<lost, faults>>
          \/ /\ faults < MaxFaults /\ faults' = faults + 1
             /\ lost' = lost \cup {fetched}
             /\ pass' = [pass EXCEPT ![i].todo = Tail(p.todo), ![i].high = Highest(p.high, uid)]
       /\ UNCHANGED <<folder, account, stored, attached>>

\* message_external_id: the Message-ID, or one made of UIDVALIDITY and UID.
ExternalId(m, validity, uid) == IF m \in Anonymous THEN <<"imap", validity, uid>> ELSE <<"id", m>>

\* ON CONFLICT DO NOTHING: a message that is there already is left with what it has.
InsertMessage(i) ==
    LET p == pass[i]
        ext == ExternalId(p.msg, p.validity, Head(p.todo))
    IN /\ p.pc = "insert"
       /\ IF \E r \in stored : r.ext = ext
          THEN /\ pass' = [pass EXCEPT ![i].pc = "fetch", ![i].todo = Tail(p.todo)]
               /\ UNCHANGED stored
          ELSE /\ pass' = [pass EXCEPT ![i].pc = "attach"]
               /\ stored' = stored \cup {[ext |-> ext, msg |-> p.msg]}
       /\ UNCHANGED <<folder, account, attached, lost, faults>>

\* store_attachments: files and rows; a failure of either raises out of the pass.
StoreAttachments(i) ==
    /\ pass[i].pc = "attach"
    /\ attached' = attached \cup {pass[i].msg}
    /\ pass' = [pass EXCEPT ![i].pc = "fetch", ![i].todo = Tail(@)]
    /\ UNCHANGED <<folder, account, stored, lost, faults>>

\* The mark is written as it was read.
UpdateAccountSuccessMutant(i) ==
    /\ pass[i].pc = "fetch" /\ pass[i].todo = <<>>
    /\ account' = [validity |-> pass[i].validity, last |-> pass[i].last, status |-> "ok"]
    /\ pass' = [pass EXCEPT ![i] = NoPass]
    /\ UNCHANGED <<folder, stored, attached, lost, faults>>

UpdateAccountSuccess(i) ==
    /\ pass[i].pc = "fetch" /\ pass[i].todo = <<>>
    /\ account' = [validity |-> pass[i].validity, last |-> pass[i].high, status |-> "ok"]
    /\ pass' = [pass EXCEPT ![i] = NoPass]
    /\ UNCHANGED <<folder, stored, attached, lost, faults>>

\* A database or connection error ends the pass.
Fail(i) ==
    /\ pass[i].pc \in {"fetch", "insert", "attach"} /\ faults < MaxFaults
    /\ faults' = faults + 1
    /\ pass' = [pass EXCEPT ![i] = [NoPass EXCEPT !.pc = "error"]]
    /\ UNCHANGED <<folder, account, stored, attached, lost>>

UpdateAccountError(i) ==
    /\ pass[i].pc = "error"
    /\ account' = [account EXCEPT !.status = "error"]
    /\ pass' = [pass EXCEPT ![i] = NoPass]
    /\ UNCHANGED <<folder, stored, attached, lost, faults>>

\* The process dies, or the error cannot be recorded.
Die(i) ==
    /\ pass[i].pc # "idle" /\ faults < MaxFaults
    /\ faults' = faults + 1
    /\ pass' = [pass EXCEPT ![i] = NoPass]
    /\ UNCHANGED <<folder, account, stored, attached, lost>>

ImportAccount(i) ==
    Begin(i) \/ Fetch(i) \/ InsertMessage(i) \/ StoreAttachments(i) \/ UpdateAccountSuccess(i) \/ UpdateAccountError(i)

Next ==
    \/ \E m \in Messages : Deliver(m)
    \/ Rebuild
    \/ \E i \in Importers : ImportAccount(i) \/ Fail(i) \/ Die(i)

Spec == Init /\ [][Next]_vars

----
(* Properties *)

\* A message with a Message-ID is stored once, however passes overlap, break and start again and
\* however often the folder is renumbered.
StoredOnce == \A r, s \in stored : r.msg = s.msg /\ r.msg \notin Anonymous => r = s

\* In a folder that keeps its numbers, nothing at or below the mark was left out, except what the
\* server did not deliver.
MarkIsCovered ==
    \A n \in 1..account.last : folder.mails[n] \in lost \/ \E r \in stored : r.msg = folder.mails[n]

----
(* Statements of the documents that the code does not keep. *)

\* "UIDVALIDITY changed ...; restarting from UID 1": after a rebuild the mark covers the new
\* numbering, so whatever lies below it is in the database.
MarkSurvivesRebuild ==
    account.validity = folder.validity =>
       \A n \in DOMAIN folder.mails : n <= account.last => folder.mails[n] \in lost \/ \E r \in stored : r.msg = folder.mails[n]

\* "writes messages, participants, and attachments into the ... database": once the mark has passed
\* a message, its attachments are there.
AttachmentsArrive ==
    (\A i \in Importers : pass[i].pc = "idle") =>
       \A n \in DOMAIN folder.mails : n <= account.last /\ folder.mails[n] \notin lost => folder.mails[n] \in attached
====
