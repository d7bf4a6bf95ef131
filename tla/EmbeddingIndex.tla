---- MODULE EmbeddingIndex ----
(***************************************************************************)
(* The Control API's ingestion and embedding index: requests write a       *)
(* document or a memory record to R2 and D1 and queue an embedding update, *)
(* consumers of the queue turn rows into vectors, and retrieval joins the  *)
(* rows of D1 with what the vector index finds.                            *)
(*                                                                         *)
(* Every await is a step.  The queue delivers at least once: a message may *)
(* be in the hands of two consumers, and comes back after a failure until  *)
(* its deliveries are used up.  There is one job row for an identifier,    *)
(* whatever the version and the kind of its target.                        *)
(***************************************************************************)
EXTENDS Naturals, Sequences, FiniteSets

CONSTANTS
    Requests,       \* [kind, id, version, size, scope, body]: size is the number of chunks
    Handlers,       \* ingest requests served at a time
    Consumers,
    ActiveScopes,   \* active scope modules
    Bindings,       \* [scope, effect]: scope bindings of the principal that retrieves
    Asked,          \* scopes it asks for
    MaxDeliveries,  \* deliveries of a message: one and max_retries
    MaxIngests,     \* bound: ingest requests
    MaxBreaks,      \* bound: ingest requests and deliveries that break off
    Flaky           \* steps of a delivery that may throw

TargetOf(r) == <<r.kind, r.id>>
Targets == {TargetOf(r) : r \in Requests}
JobIds == {r.id : r \in Requests}
Indices == UNION {0 .. (r.size - 1) : r \in Requests}

\* baseKey and the names below it; source or memory scope are taken to be those of the target.
Key(r, i) == [target |-> TargetOf(r), version |-> r.version, index |-> i]
Keys == {Key(r, i) : r \in Requests, i \in Indices}

Absent == <<"none", 0>>
Body(r, i) == <<r.body, i>>
Row(r, i) == [index |-> i, key |-> Key(r, i), scope |-> r.scope]
NoRequest == [kind |-> "none"]
NoJob == [kind |-> "none", status |-> "none"]

VARIABLES
    objects,   \* R2
    version,   \* knowledge_documents and memory_records: the version of each target
    chunks,    \* knowledge_chunks; a memory record is its own row
    jobs,      \* ingestion_jobs of type embedding_update
    audit,     \* audit_events: <<event, target>>
    msgs,      \* messages sent: [target, deliveries]
    queue,     \* the ones in the queue
    dead,      \* the ones in the dead letter queue
    index,     \* Vectorize: [target, index, key, scope, body]
    handler,   \* an ingest request: [pc, request, next]
    consumer,  \* a delivery: [pc, msg, rows, vectors]
    reader,    \* a retrieval: [pc, todo, rows, matches, disturbed]
    answered,  \* history: the last request for a target, once it is answered
    ingests, breaks

store == <<objects, version, chunks>>
ledger == <<jobs, audit>>
mail == <<msgs, queue, dead>>
vars == <<store, ledger, mail, index, handler, consumer, reader, answered, ingests, breaks>>

NoHandler == [pc |-> "idle", request |-> NoRequest, next |-> 0]
NoDelivery == [pc |-> "idle", msg |-> 0, rows |-> {}, vectors |-> {}]

Init ==
    /\ objects = [k \in Keys |-> Absent] /\ version = [t \in Targets |-> "none"] /\ chunks = [t \in Targets |-> {}]
    /\ jobs = [j \in JobIds |-> NoJob] /\ audit = {}
    /\ msgs = <<>> /\ queue = {} /\ dead = {} /\ index = {}
    /\ handler = [h \in Handlers |-> NoHandler]
    /\ consumer = [c \in Consumers |-> NoDelivery]
    /\ reader = [pc |-> "idle", todo |-> {}, rows |-> {}, matches |-> {}, disturbed |-> {}]
    /\ answered = [t \in Targets |-> NoRequest]
    /\ ingests = 0 /\ breaks = 0

-----------------------------------------------------------------------------
(* handleKnowledgeIngest, handleMemoryIngest *)

Req(h) == handler[h].request
Target(h) == TargetOf(Req(h))
At(h, pc) == handler[h].pc = pc
HGoto(h, pc) == handler' = [handler EXCEPT ![h].pc = pc, ![h].next = 0]
HNext(h, pc) == IF handler[h].next + 1 < Req(h).size THEN handler' = [handler EXCEPT ![h].next = @ + 1] ELSE HGoto(h, pc)
Disturb(t) == reader' = [reader EXCEPT !.disturbed = @ \cup {t}]

Receive(h, r) ==
    /\ At(h, "idle") /\ ingests < MaxIngests
    /\ r.scope \in ActiveScopes
    /\ handler' = [handler EXCEPT ![h] = [pc |-> "objects", request |-> r, next |-> 0]]
    /\ answered' = [answered EXCEPT ![TargetOf(r)] = NoRequest]
    /\ ingests' = ingests + 1
    /\ UNCHANGED <<store, ledger, mail, index, consumer, reader, breaks>>

\* The objects that rows point to; manifest and normalized text are read by nobody here.
PutObject(h) ==
    /\ At(h, "objects")
    /\ objects' = [objects EXCEPT ![Key(Req(h), handler[h].next)] = Body(Req(h), handler[h].next)]
    /\ HNext(h, "document")
    /\ UNCHANGED <<version, chunks, ledger, mail, index, consumer, reader, answered, ingests, breaks>>

\* Source and document replace the rows that are there.
WriteDocument(h) ==
    /\ At(h, "document") /\ Req(h).kind = "knowledge_document"
    /\ version' = [version EXCEPT ![Target(h)] = Req(h).version]
    /\ HGoto(h, "delete")
    /\ UNCHANGED <<objects, chunks, ledger, mail, index, consumer, reader, answered, ingests, breaks>>

\* A memory record is one row, replaced in one statement.
WriteMemory(h) ==
    /\ At(h, "document") /\ Req(h).kind = "memory_record"
    /\ version' = [version EXCEPT ![Target(h)] = Req(h).version]
    /\ chunks' = [chunks EXCEPT ![Target(h)] = {Row(Req(h), 0)}]
    /\ Disturb(Target(h)) /\ HGoto(h, "imported")
    /\ UNCHANGED <<objects, ledger, mail, index, consumer, answered, ingests, breaks>>

\* Only the rows that will be written again are deleted.
DeleteChunksMutant(h) ==
    /\ At(h, "delete")
    /\ chunks' = [chunks EXCEPT ![Target(h)] = {c \in @ : c.index >= Req(h).size}]
    /\ Disturb(Target(h)) /\ HGoto(h, "insert")
    /\ UNCHANGED <<objects, version, ledger, mail, index, consumer, answered, ingests, breaks>>
DeleteChunks(h) ==
    /\ At(h, "delete")
    /\ chunks' = [chunks EXCEPT ![Target(h)] = {}]
    /\ Disturb(Target(h)) /\ HGoto(h, "insert")
    /\ UNCHANGED <<objects, version, ledger, mail, index, consumer, answered, ingests, breaks>>

\* A row with that identifier, from an overlapping request, fails the statement and the request.
InsertChunk(h) ==
    LET row == Row(Req(h), handler[h].next) IN
    /\ At(h, "insert")
    /\ IF \E c \in chunks[Target(h)] : c.index = row.index
       THEN HGoto(h, "idle") /\ UNCHANGED <<chunks, reader>>
       ELSE chunks' = [chunks EXCEPT ![Target(h)] = @ \cup {row}] /\ Disturb(Target(h)) /\ HNext(h, "imported")
    /\ UNCHANGED <<objects, version, ledger, mail, index, consumer, answered, ingests, breaks>>

WriteIngestionAudit(h) ==
    /\ At(h, "imported")
    /\ audit' = audit \cup {<<"import_succeeded", Target(h)>>}
    /\ HGoto(h, "job")
    /\ UNCHANGED <<store, jobs, mail, index, consumer, reader, answered, ingests, breaks>>

-----------------------------------------------------------------------------
(* queueEmbeddingUpdate *)

QueueJob(h) ==
    /\ At(h, "job")
    /\ jobs' = [jobs EXCEPT ![Req(h).id] = [kind |-> Req(h).kind, status |-> "queued"]]
    /\ HGoto(h, "queued")
    /\ UNCHANGED <<store, audit, mail, index, consumer, reader, answered, ingests, breaks>>

QueuedEvent(h) ==
    /\ At(h, "queued")
    /\ audit' = audit \cup {<<"embedding_update_queued", Target(h)>>}
    /\ HGoto(h, "send")
    /\ UNCHANGED <<store, jobs, mail, index, consumer, reader, answered, ingests, breaks>>

Answer(h) == HGoto(h, "idle") /\ answered' = [answered EXCEPT ![Target(h)] = Req(h)]

Send(h) ==
    /\ At(h, "send")
    /\ msgs' = Append(msgs, [target |-> Target(h), deliveries |-> 0])
    /\ queue' = queue \cup {Len(msgs) + 1}
    /\ Answer(h)
    /\ UNCHANGED <<store, ledger, dead, index, consumer, reader, ingests, breaks>>

\* The queue refuses; the caller is told after job and audit say so.
SendFails(h) ==
    /\ At(h, "send") /\ breaks < MaxBreaks
    /\ breaks' = breaks + 1
    /\ HGoto(h, "unsent")
    /\ UNCHANGED <<store, ledger, mail, index, consumer, reader, answered, ingests>>

SetJob(t, status) == jobs' = [jobs EXCEPT ![t[2]].status = status]

\* markEmbeddingJobFailed on behalf of the request
Unsent(h) ==
    /\ At(h, "unsent")
    /\ SetJob(Target(h), "failed")
    /\ HGoto(h, "unsentEvent")
    /\ UNCHANGED <<store, audit, mail, index, consumer, reader, answered, ingests, breaks>>

UnsentEvent(h) ==
    /\ At(h, "unsentEvent")
    /\ audit' = audit \cup {<<"embedding_update_failed", Target(h)>>}
    /\ Answer(h)
    /\ UNCHANGED <<store, jobs, mail, index, consumer, reader, ingests, breaks>>

\* A call to R2 or D1 fails, or the isolate ends: the request stops where it is.
HandlerBreaks(h) ==
    /\ ~At(h, "idle") /\ breaks < MaxBreaks
    /\ breaks' = breaks + 1
    /\ HGoto(h, "idle")
    /\ UNCHANGED <<store, ledger, mail, index, consumer, reader, answered, ingests>>

-----------------------------------------------------------------------------
(* queue, processEmbeddingIndexMessage *)

CAt(c, pc) == consumer[c].pc = pc
CGoto(c, pc) == consumer' = [consumer EXCEPT ![c].pc = pc]
MsgTarget(c) == msgs[consumer[c].msg].target
Done(c) == consumer' = [consumer EXCEPT ![c] = NoDelivery]
Ack(c) == queue' = queue \ {consumer[c].msg} /\ Done(c) /\ UNCHANGED <<msgs, dead>>
\* message.retry, or no answer at all: the last delivery sends the message to the dead letters.
Return(c) ==
    LET n == consumer[c].msg IN
    /\ IF n \in queue /\ msgs[n].deliveries = MaxDeliveries
       THEN queue' = queue \ {n} /\ dead' = dead \cup {n}
       ELSE UNCHANGED <<queue, dead>>
    /\ Done(c) /\ UNCHANGED msgs

Deliver(c, n) ==
    /\ CAt(c, "idle") /\ n \in queue
    /\ msgs[n].deliveries < MaxDeliveries
    /\ msgs' = [msgs EXCEPT ![n].deliveries = @ + 1]
    /\ consumer' = [consumer EXCEPT ![c].pc = "read", ![c].msg = n]
    /\ UNCHANGED <<store, ledger, queue, dead, index, handler, reader, answered, ingests, breaks>>

\* A job that another delivery has begun is left to it.
ReadJobMutant(c) ==
    LET job == jobs[MsgTarget(c)[2]] IN
    /\ CAt(c, "read")
    /\ IF job.kind # MsgTarget(c)[1] THEN Return(c)
       ELSE IF job.status \in {"running", "succeeded"} THEN Ack(c)
       ELSE CGoto(c, "running") /\ UNCHANGED mail
    /\ UNCHANGED <<store, ledger, index, handler, reader, answered, ingests, breaks>>
\* A job of another kind is an error before anything is marked; a finished one is skipped.
ReadJob(c) ==
    LET job == jobs[MsgTarget(c)[2]] IN
    /\ CAt(c, "read")
    /\ IF job.kind # MsgTarget(c)[1] THEN Return(c)
       ELSE IF job.status = "succeeded" THEN Ack(c)
       ELSE CGoto(c, "running") /\ UNCHANGED mail
    /\ UNCHANGED <<store, ledger, index, handler, reader, answered, ingests, breaks>>

SetRunning(c) ==
    /\ CAt(c, "running")
    /\ SetJob(MsgTarget(c), "running")
    /\ CGoto(c, "select")
    /\ UNCHANGED <<store, audit, mail, index, handler, reader, answered, ingests, breaks>>

\* indexKnowledgeDocument, indexMemoryRecord: the rows, their objects, the vectors
SelectRows(c) ==
    /\ CAt(c, "select")
    /\ consumer' = [consumer EXCEPT ![c].rows = chunks[MsgTarget(c)],
                                    ![c].pc = IF chunks[MsgTarget(c)] = {} THEN "failed" ELSE "embed"]
    /\ UNCHANGED <<store, ledger, mail, index, handler, reader, answered, ingests, breaks>>

\* readR2Text and createEmbeddings; an embedding stands for the text it was made from.
Embed(c) ==
    LET vectors == {[target |-> MsgTarget(c), index |-> r.index, key |-> r.key, scope |-> r.scope,
                     body |-> objects[r.key]] : r \in consumer[c].rows} IN
    /\ CAt(c, "embed")
    /\ consumer' = [consumer EXCEPT ![c].vectors = vectors,
                                    ![c].pc = IF \E v \in vectors : v.body = Absent THEN "failed" ELSE "upsert"]
    /\ UNCHANGED <<store, ledger, mail, index, handler, reader, answered, ingests, breaks>>

VectorId(v) == <<v.target, v.index>>

Upsert(c) ==
    /\ CAt(c, "upsert")
    /\ index' = {v \in index : \A u \in consumer[c].vectors : VectorId(u) # VectorId(v)} \cup consumer[c].vectors
    /\ CGoto(c, "succeeded")
    /\ UNCHANGED <<store, ledger, mail, handler, reader, answered, ingests, breaks>>

SetSucceeded(c) ==
    /\ CAt(c, "succeeded")
    /\ SetJob(MsgTarget(c), "succeeded")
    /\ CGoto(c, "event")
    /\ UNCHANGED <<store, audit, mail, index, handler, reader, answered, ingests, breaks>>

SucceededEvent(c) ==
    /\ CAt(c, "event")
    /\ audit' = audit \cup {<<"embedding_update_succeeded", MsgTarget(c)>>}
    /\ Ack(c)
    /\ UNCHANGED <<store, jobs, index, handler, reader, answered, ingests, breaks>>

\* Whatever is thrown inside the try is caught.
Throws(c) ==
    /\ consumer[c].pc \in Flaky \cap {"select", "embed", "upsert", "succeeded", "event"}
    /\ CGoto(c, "failed")
    /\ UNCHANGED <<store, ledger, mail, index, handler, reader, answered, ingests, breaks>>

\* markEmbeddingJobFailed
SetFailed(c) ==
    /\ CAt(c, "failed")
    /\ SetJob(MsgTarget(c), "failed")
    /\ CGoto(c, "failedEvent")
    /\ UNCHANGED <<store, audit, mail, index, handler, reader, answered, ingests, breaks>>

FailedEvent(c) ==
    /\ CAt(c, "failedEvent")
    /\ audit' = audit \cup {<<"embedding_update_failed", MsgTarget(c)>>}
    /\ Return(c)
    /\ UNCHANGED <<store, jobs, index, handler, reader, answered, ingests, breaks>>

\* The isolate ends, or marking the failure fails: the message is not acknowledged.
DeliveryBreaks(c) ==
    /\ ~CAt(c, "idle") /\ breaks < MaxBreaks
    /\ breaks' = breaks + 1
    /\ Return(c)
    /\ UNCHANGED <<store, ledger, index, handler, reader, answered, ingests>>

-----------------------------------------------------------------------------
(* handleRetrievalContext; top_k only shortens what is found. *)

\* scopeBindingAllows
Allowed == {s \in Asked : /\ \E b \in Bindings : b.scope = s /\ b.effect = "allow"
                          /\ \A b \in Bindings : b.scope = s => b.effect # "deny"}

Retrieve ==
    /\ reader.pc = "idle"
    /\ reader' = [pc |-> "rows", todo |-> Allowed, rows |-> {}, matches |-> {}, disturbed |-> {}]
    /\ UNCHANGED <<store, ledger, mail, index, handler, consumer, answered, ingests, breaks>>

RowsOf(s) == UNION {{[target |-> t, index |-> c.index, scope |-> c.scope] : c \in {x \in chunks[t] : x.scope = s}} : t \in Targets}

\* One statement for each allowed scope.
ReadScope(s) ==
    /\ reader.pc = "rows" /\ s \in reader.todo
    /\ reader' = [reader EXCEPT !.todo = @ \ {s}, !.rows = @ \cup RowsOf(s)]
    /\ UNCHANGED <<store, ledger, mail, index, handler, consumer, answered, ingests, breaks>>

\* queryVectorize: the filter of the query, then the rows D1 gave.
Matches(rows) == {v \in index : v.scope \in Allowed /\ \E r \in rows : VectorId(r) = VectorId(v)}

QueryVectorize ==
    /\ reader.pc = "rows" /\ reader.todo = {}
    /\ reader' = [reader EXCEPT !.pc = "idle", !.matches = Matches(reader.rows)]
    /\ UNCHANGED <<store, ledger, mail, index, handler, consumer, answered, ingests, breaks>>

-----------------------------------------------------------------------------

Ingest(h) ==
    \/ PutObject(h) \/ WriteDocument(h) \/ WriteMemory(h) \/ DeleteChunks(h) \/ InsertChunk(h) \/ WriteIngestionAudit(h)
    \/ QueueJob(h) \/ QueuedEvent(h) \/ Send(h) \/ Unsent(h) \/ UnsentEvent(h)

Process(c) ==
    \/ ReadJob(c) \/ SetRunning(c) \/ SelectRows(c) \/ Embed(c) \/ Upsert(c)
    \/ SetSucceeded(c) \/ SucceededEvent(c) \/ SetFailed(c) \/ FailedEvent(c)

Next ==
    \/ \E h \in Handlers : \/ \E r \in Requests : Receive(h, r)
                           \/ Ingest(h) \/ SendFails(h) \/ HandlerBreaks(h)
    \/ \E c \in Consumers : \/ \E n \in queue : Deliver(c, n)
                            \/ Process(c) \/ Throws(c) \/ DeliveryBreaks(c)
    \/ Retrieve \/ QueryVectorize
    \/ \E s \in Asked : ReadScope(s)

Spec == Init /\ [][Next]_vars

-----------------------------------------------------------------------------
(* Properties *)

\* D1 never points to an object that is not in R2, wherever requests break off: objects are put
\* before the rows that name them.
RowsHaveObjects == \A t \in Targets : \A c \in chunks[t] : objects[c.key] # Absent

\* A vector was made from the object its metadata names, although rows are replaced between reading
\* them and reading the objects.  (Requests that agree on a version agree on its text.)
VectorsMatchObjects == \A v \in index : objects[v.key] = v.body

\* With one ingest at a time: when the last request for a document was answered, rows and objects
\* are exactly that request's, whatever shorter or longer version or broken request came before.
IngestIsWhole ==
    \A t \in Targets : LET r == answered[t] IN r # NoRequest =>
       /\ version[t] = r.version
       /\ chunks[t] = {Row(r, i) : i \in 0 .. (r.size - 1)}
       /\ \A i \in 0 .. (r.size - 1) : objects[Key(r, i)] = Body(r, i)

\* Vectors stay in the index when their chunk is gone or has moved to another scope.  Retrieval
\* returns none of them, unless the document was rewritten while it was under way.
NoGhostMatches ==
    \A v \in reader.matches :
       \/ v.target \in reader.disturbed
       \/ /\ v.scope \in Allowed
          /\ \E c \in chunks[v.target] : c.index = v.index /\ c.scope \in Allowed

\* "Failed embedding updates remain visible in `ingestion_jobs.status` and `audit_events`": no update
\* ends among the dead letters without a failed event for its target.
FailedUpdatesAreVisible ==
    \A n \in dead : <<"embedding_update_failed", msgs[n].target>> \in audit

Indexed(t) ==
    \A c \in chunks[t] : \E v \in index :
       v.target = t /\ v.index = c.index /\ v.key = c.key /\ v.body = objects[c.key]

----
(* Statements of the documents that the code does not keep. *)

AtRest ==
    /\ queue = {} /\ dead = {} /\ breaks = 0
    /\ \A h \in Handlers : At(h, "idle")
    /\ \A c \in Consumers : CAt(c, "idle")

\* "The response includes ... an `embedding_job_id`. The queue consumer processes that job
\* asynchronously": once everything has been consumed, what was answered is in the index.
QueuedUpdatesAreIndexed == AtRest => \A t \in Targets : answered[t] # NoRequest => Indexed(t)
====
