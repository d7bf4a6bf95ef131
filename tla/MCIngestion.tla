---- MODULE MCIngestion ----
(***************************************************************************)
(* What comes in from outside: documents and memory records on their way   *)
(* to the vector index (EmbeddingIndex), and mail on its way to the        *)
(* database (MailImport).  They share no state, so a property of one holds *)
(* of both together exactly when it holds of that one alone; scene, chosen *)
(* at the start, says which part moves, and with which constants.          *)
(***************************************************************************)
EXTENDS Integers, Sequences, FiniteSets

VARIABLES
    scene,
    objects, version, chunks, jobs, audit, msgs, queue, dead, index,   \* EmbeddingIndex
    handler, consumer, reader, answered, ingests, breaks,
    folder, account, stored, attached, pass, lost, faults              \* MailImport

indexVars == <<objects, version, chunks, jobs, audit, msgs, queue, dead, index,
               handler, consumer, reader, answered, ingests, breaks>>
mailVars == <<folder, account, stored, attached, pass, lost, faults>>
vars == <<scene, indexVars, mailVars>>

----
(* Embedding updates. *)

Doc == [kind |-> "knowledge_document", id |-> "d", version |-> "v1", size |-> 2, scope |-> "open", body |-> "one"]
Note == [kind |-> "memory_record", id |-> "m", version |-> "v1", size |-> 1, scope |-> "open", body |-> "note"]
Shorter == [Doc EXCEPT !.version = "v2", !.size = 1, !.body = "two"]
Moved == [Shorter EXCEPT !.scope = "closed"]

AllScopes == {"open", "closed"}
SomeBindings == {[scope |-> "open", effect |-> "allow"], [scope |-> "closed", effect |-> "allow"],
                 [scope |-> "closed", effect |-> "deny"]}

\* A document of two chunks and its shorter successor, each ingested any time, and two consumers.
Versions == INSTANCE EmbeddingIndex WITH
    Requests <- {Doc, Shorter}, Handlers <- {"h1"}, Consumers <- {"c1", "c2"},
    ActiveScopes <- AllScopes, Bindings <- SomeBindings, Asked <- {},
    MaxDeliveries <- 2, MaxIngests <- 2, MaxBreaks <- 1, Flaky <- {}

\* The successor lies in a scope that is denied; a retrieval at any moment.
Retrieval == INSTANCE EmbeddingIndex WITH
    Requests <- {Doc, Moved}, Handlers <- {"h1"}, Consumers <- {"c1"},
    ActiveScopes <- AllScopes, Bindings <- SomeBindings, Asked <- AllScopes,
    MaxDeliveries <- 2, MaxIngests <- 2, MaxBreaks <- 1, Flaky <- {}

\* A document and a memory record, three deliveries, and an embedding service and an index that may fail each time.
Failures == INSTANCE EmbeddingIndex WITH
    Requests <- {Doc, Note}, Handlers <- {"h1"}, Consumers <- {"c1"},
    ActiveScopes <- AllScopes, Bindings <- SomeBindings, Asked <- {},
    MaxDeliveries <- 3, MaxIngests <- 2, MaxBreaks <- 0, Flaky <- {"embed", "upsert"}

\* A document ingested once; two consumers whose deliveries overlap, fail and break off.
Once == INSTANCE EmbeddingIndex WITH
    Requests <- {Doc}, Handlers <- {"h1"}, Consumers <- {"c1", "c2"},
    ActiveScopes <- AllScopes, Bindings <- SomeBindings, Asked <- {},
    MaxDeliveries <- 3, MaxIngests <- 1, MaxBreaks <- 1, Flaky <- {"embed", "upsert"}

----
(* Mail: two overlapping passes; m2 has no Message-ID. *)

Passes == INSTANCE MailImport WITH
    Messages <- {"m1", "m2"}, Anonymous <- {"m2"}, Importers <- {"i1", "i2"},
    MaxMessages <- 1, MaxRebuilds <- 0, MaxFaults <- 2
Renumbered == INSTANCE MailImport WITH
    Messages <- {"m1", "m2"}, Anonymous <- {"m2"}, Importers <- {"i1", "i2"},
    MaxMessages <- 2, MaxRebuilds <- 1, MaxFaults <- 1

----
IngestionInit ==
    /\ scene \in {"versions", "retrieval", "failures", "once", "passes", "renumbered"}
    /\ CASE scene = "retrieval" -> Retrieval!Init
         [] scene = "failures" -> Failures!Init
         [] scene = "once" -> Once!Init
         [] OTHER -> Versions!Init
    /\ Passes!Init

IngestionNext ==
    \/ scene = "versions" /\ Versions!Next /\ UNCHANGED <<scene, mailVars>>
    \/ scene = "retrieval" /\ Retrieval!Next /\ UNCHANGED <<scene, mailVars>>
    \/ scene = "failures" /\ Failures!Next /\ UNCHANGED <<scene, mailVars>>
    \/ scene = "once" /\ Once!Next /\ UNCHANGED <<scene, mailVars>>
    \/ scene = "passes" /\ Passes!Next /\ UNCHANGED <<scene, indexVars>>
    \/ scene = "renumbered" /\ Renumbered!Next /\ UNCHANGED <<scene, indexVars>>

ConsumerStep(c) == scene = "once" /\ Once!Process(c) /\ UNCHANGED <<scene, mailVars>>
DeliveryStep(c) == scene = "once" /\ (\E n \in queue : Once!Deliver(c, n)) /\ UNCHANGED <<scene, mailVars>>
PassStep(i) == scene = "passes" /\ Passes!ImportAccount(i) /\ UNCHANGED <<scene, indexVars>>

\* The queue delivers what it holds while a consumer is free, and a delivery goes on.  The timer starts a
\* pass again and again, and a pass that is not disturbed goes on to its end.
IngestionSpec ==
    /\ IngestionInit /\ [][IngestionNext]_vars
    /\ \A c \in {"c1", "c2"} : WF_vars(ConsumerStep(c)) /\ WF_vars(DeliveryStep(c))
    /\ \A i \in {"i1", "i2"} : WF_vars(PassStep(i))

----
(* Properties. *)

\* Rows, objects, vectors and events agree wherever requests and deliveries break off: D1 never points
\* to an object that is not in R2, once a request was answered rows and objects are exactly that
\* request's, a vector was made from the object its metadata names, although rows are replaced between
\* reading them and reading the objects, a retrieval returns no vector whose chunk is gone or has moved
\* to a denied scope, unless the document is rewritten meanwhile, and no update ends among the dead
\* letters without a failed event for its target
\* (handleKnowledgeIngest, processEmbeddingIndexMessage, handleRetrievalContext).
RecordsTellTheTruth ==
    /\ scene = "versions" => Versions!RowsHaveObjects /\ Versions!IngestIsWhole /\ Versions!VectorsMatchObjects
    /\ scene = "retrieval" => Retrieval!NoGhostMatches
    /\ scene = "failures" => Failures!FailedUpdatesAreVisible

\* An update that is accepted reaches the index or the dead letters, although deliveries are repeated,
\* overlap, fail and break off.
Waiting == scene = "once" /\ 1 \in queue
UpdatesArrive == Waiting ~> (1 \in dead \/ (msgs # <<>> /\ Once!Indexed(msgs[1].target)))

\* Nothing at or below the high-water mark was left out, except what the server did not deliver, and a
\* message with a Message-ID is stored once, however passes overlap, break off and start again and
\* however often the folder is renumbered.
MailIsKept ==
    /\ scene = "passes" => Passes!MarkIsCovered
    /\ scene = "renumbered" => Renumbered!StoredOnce

\* Every message that reaches the folder reaches the database, or was asked for and not delivered.
Unimported == scene = "passes" /\ \E m \in Passes!Mails : m \notin lost /\ \A r \in stored : r.msg # m
MessagesArrive == Unimported ~> ~Unimported
====
