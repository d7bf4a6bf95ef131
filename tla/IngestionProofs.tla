-------------------------- MODULE IngestionProofs ---------------------------
(***************************************************************************)
(* Documents on their way in, for every number of requests at work.        *)
(* Knowledge documents and memory records on their way to the vector index *)
(* and back; CARAT files on their way to supplier orders.  The two share   *)
(* no state: where they name a variable alike (objects), each theorem      *)
(* speaks of one of them.                                                  *)
(***************************************************************************)
EXTENDS EmbeddingIndex, FiniteSetTheorems, TLAPS

-----------------------------------------------------------------------------
(* Documents and memory records: objects, rows and requests.               *)

\* The steps of a request behind the rows: audit, job, queue.
Late == {"imported", "job", "queued", "send", "unsent", "unsentEvent"}

\* Requests have at least one chunk, a memory record has one, and a text is a text.
RequestsAreWhole ==
    \A r \in Requests : r.size \in Nat \ {0} /\ r.body # "none" /\ (r.kind = "memory_record" => r.size = 1)

\* The request of h moves on to pc and, there, to its object or row n.
Moves(h, pc, n) == handler' = [handler EXCEPT ![h] = [pc |-> pc, request |-> handler[h].request, next |-> n]]

Handled(x) ==
    /\ x = [pc |-> x.pc, request |-> x.request, next |-> x.next]
    /\ x.pc # "idle" => x.request \in Requests /\ x.next \in Nat /\ x.next < x.request.size

HandlersInv == handler = [h \in Handlers |-> handler[h]] /\ \A h \in Handlers : Handled(handler[h])

\* What a step does that writes neither objects nor rows.
Quiet ==
    /\ UNCHANGED <<objects, version, chunks>>
    /\ \/ UNCHANGED <<handler, answered>>
       \/ \E h \in Handlers : /\ handler[h].pc # "idle"
                              /\ Moves(h, "idle", 0) /\ UNCHANGED answered
       \/ \E h \in Handlers : \E pc \in Late : /\ handler[h].pc \in Late
                                               /\ Moves(h, pc, 0) /\ UNCHANGED answered
       \/ \E h \in Handlers : /\ handler[h].pc \in Late
                              /\ Moves(h, "idle", 0)
                              /\ answered' = [answered EXCEPT ![TargetOf(handler[h].request)] = handler[h].request]

\* HGoto and HNext, as moves.
LEMMA MoveLemma ==
  ASSUME HandlersInv, NEW h \in Handlers, NEW pc
  PROVE  /\ HGoto(h, pc) => Moves(h, pc, 0)
         /\ HNext(h, pc) =>
              \/ handler[h].next + 1 < handler[h].request.size /\ Moves(h, handler[h].pc, handler[h].next + 1)
              \/ ~(handler[h].next + 1 < handler[h].request.size) /\ Moves(h, pc, 0)
<1>1. PICK x : x = handler[h] /\ x = [pc |-> x.pc, request |-> x.request, next |-> x.next]
  BY Zenon DEF HandlersInv, Handled
<1>2. ASSUME HGoto(h, pc) PROVE Moves(h, pc, 0)
  <2>1. PICK y : y = [x EXCEPT !.pc = pc, !.next = 0]
    BY Zenon
  <2>2. handler' = [handler EXCEPT ![h] = y]
    BY <1>1, <1>2, <2>1, Zenon DEF HGoto
  <2>3. PICK was, request, next : x = [pc |-> was, request |-> request, next |-> next]
    BY <1>1, Zenon
  <2>4. y = [pc |-> pc, request |-> request, next |-> 0] /\ x.request = request
    BY <2>1, <2>3, Zenon
  <2>. QED BY <1>1, <2>2, <2>4, Zenon DEF Moves
<1>3. ASSUME handler' = [handler EXCEPT ![h].next = @ + 1]
      PROVE  Moves(h, handler[h].pc, handler[h].next + 1)
  <2>1. PICK n : n = x.next + 1
    BY Zenon
  <2>2. handler' = [handler EXCEPT ![h] = [x EXCEPT !.next = n]]
    BY <1>1, <1>3, <2>1, Zenon
  <2>3. [x EXCEPT !.next = n] = [pc |-> x.pc, request |-> x.request, next |-> n]
    BY <1>1
  <2>. QED BY <1>1, <2>1, <2>2, <2>3, Zenon DEF Moves
<1>. QED BY <1>2, <1>3, Zenon DEF HNext, Req

\* One move of one request.
LEMMA HandlerMoves ==
  ASSUME HandlersInv, NEW h \in Handlers, NEW x, handler' = [handler EXCEPT ![h] = x], Handled(x)
  PROVE  HandlersInv' /\ (\A g \in Handlers : handler'[g] = IF g = h THEN x ELSE handler[g])
<1>1. /\ handler' = [g \in Handlers |-> handler'[g]]
      /\ \A g \in Handlers : handler'[g] = IF g = h THEN x ELSE handler[g]
  BY Zenon DEF HandlersInv
<1>2. \A g \in Handlers : Handled(handler'[g])
  BY <1>1, Zenon DEF HandlersInv
<1>. QED BY <1>1, <1>2, Zenon DEF HandlersInv, Handled

\* Where a request that moved is now.
LEMMA MovedLemma ==
  ASSUME HandlersInv, NEW h \in Handlers, NEW pc, NEW n \in Nat, Moves(h, pc, n), RequestsAreWhole,
         handler[h].pc # "idle", n < handler[h].request.size
  PROVE  /\ HandlersInv'
         /\ handler'[h] = [pc |-> pc, request |-> handler[h].request, next |-> n]
         /\ \A g \in Handlers : g # h => handler'[g] = handler[g]
<1>1. PICK x : x = [pc |-> pc, request |-> handler[h].request, next |-> n]
  BY Zenon
<1>2. x.pc = pc /\ x.request = handler[h].request /\ x.next = n
  BY <1>1, Zenon
<1>3. handler[h].request \in Requests
  BY Zenon DEF HandlersInv, Handled
<1>4. Handled(x)
  BY <1>1, <1>2, <1>3, Zenon DEF Handled
<1>5. handler' = [handler EXCEPT ![h] = x]
  BY <1>1, Zenon DEF Moves
<1>6. HandlersInv' /\ (\A g \in Handlers : handler'[g] = IF g = h THEN x ELSE handler[g])
  BY <1>4, <1>5, HandlerMoves, Zenon
<1>. QED BY <1>1, <1>6, Zenon

\* Every step is one of the six that write, begins a request, or is quiet.
LEMMA StepKinds ==
  ASSUME HandlersInv, [Next]_vars
  PROVE  \/ \E h \in Handlers : \E r \in Requests : Receive(h, r)
         \/ \E h \in Handlers : \/ PutObject(h) \/ WriteDocument(h) \/ WriteMemory(h)
                                \/ DeleteChunks(h) \/ InsertChunk(h)
         \/ Quiet
<1>1. CASE UNCHANGED vars
  BY <1>1, Zenon DEF vars, store, Quiet
<1>2. ASSUME NEW h \in Handlers,
             WriteIngestionAudit(h) \/ QueueJob(h) \/ QueuedEvent(h) \/ SendFails(h) \/ Unsent(h)
      PROVE  Quiet
  <2>1. PICK pc \in Late : HGoto(h, pc) /\ handler[h].pc \in Late /\ UNCHANGED <<objects, version, chunks, answered>>
    BY <1>2, Zenon DEF WriteIngestionAudit, QueueJob, QueuedEvent, SendFails, Unsent, At, store, Late
  <2>. QED BY <2>1, MoveLemma, Zenon DEF Quiet
<1>3. ASSUME NEW h \in Handlers, Send(h) \/ UnsentEvent(h) PROVE Quiet
  <2>1. /\ HGoto(h, "idle") /\ handler[h].pc \in Late /\ UNCHANGED <<objects, version, chunks>>
        /\ answered' = [answered EXCEPT ![TargetOf(handler[h].request)] = handler[h].request]
    BY <1>3, Zenon DEF Send, UnsentEvent, Answer, At, store, Late, Target, Req
  <2>. QED BY <2>1, MoveLemma, ZenonT(30) DEF Quiet
<1>4. ASSUME NEW h \in Handlers, HandlerBreaks(h) PROVE Quiet
  <2>1. HGoto(h, "idle") /\ handler[h].pc # "idle" /\ UNCHANGED <<objects, version, chunks, answered>>
    BY <1>4, Zenon DEF HandlerBreaks, At, store
  <2>. QED BY <2>1, MoveLemma, Zenon DEF Quiet
<1>5. ASSUME NEW c \in Consumers,
             \/ \E n \in queue : Deliver(c, n)
             \/ Process(c) \/ Throws(c) \/ DeliveryBreaks(c)
      PROVE  UNCHANGED <<objects, version, chunks, handler, answered>>
  BY <1>5, Zenon DEF Deliver, Process, Throws, DeliveryBreaks, store, ReadJob, SetRunning, SelectRows,
     Embed, Upsert, SetSucceeded, SucceededEvent, SetFailed, FailedEvent
<1>6. CASE Retrieve \/ QueryVectorize \/ \E s \in Asked : ReadScope(s)
  BY <1>6, Zenon DEF Retrieve, QueryVectorize, ReadScope, store, Quiet
<1>. QED BY <1>1, <1>2, <1>3, <1>4, <1>5, <1>6, Zenon DEF Next, Ingest, Quiet

\* Objects a request has put so far.
Written(x) ==
    /\ x.pc = "objects" => \A i \in 0 .. (x.next - 1) : objects[Key(x.request, i)] # Absent
    /\ x.pc \in {"document", "delete", "insert"} =>
         \A i \in 0 .. (x.request.size - 1) : objects[Key(x.request, i)] # Absent

RowsPoint == \A t \in Targets : \A c \in chunks[t] : c.key \in Keys /\ objects[c.key] # Absent

ObjectsInv ==
    /\ HandlersInv
    /\ objects = [k \in Keys |-> objects[k]] /\ chunks = [t \in Targets |-> chunks[t]]
    /\ RowsPoint
    /\ \A h \in Handlers : Written(handler[h])

\* The keys and targets of a request.
LEMMA KeyLemma ==
  ASSUME RequestsAreWhole, NEW r \in Requests
  PROVE  /\ TargetOf(r) \in Targets /\ r.id \in JobIds
         /\ \A i \in 0 .. (r.size - 1) : i \in Nat /\ i < r.size /\ Key(r, i) \in Keys
         /\ \A i \in Nat : i < r.size => i \in 0 .. (r.size - 1)
<1>1. r.size \in Nat /\ r.size > 0
  BY DEF RequestsAreWhole
<1>2. \A i \in 0 .. (r.size - 1) : i \in Indices
  BY Zenon DEF Indices
<1>. QED BY <1>1, <1>2 DEF Targets, JobIds, Keys

\* A text is never the absence of one.
LEMMA BodyLemma ==
  ASSUME RequestsAreWhole, NEW r \in Requests, NEW i
  PROVE  Body(r, i) # Absent
BY Zenon DEF RequestsAreWhole, Body, Absent

\* A step keeps what the invariant says of rows and other requests when it takes no object away.
LEMMA ObjectsStay ==
  ASSUME ObjectsInv, RequestsAreWhole, objects' = [k \in Keys |-> objects'[k]],
         \A k \in Keys : objects[k] # Absent => objects'[k] # Absent
  PROVE  /\ \A g \in Handlers : handler'[g] = handler[g] => Written(handler[g])'
         /\ \A k \in Keys : objects[k] # Absent => objects'[k] # Absent
<1>1. ASSUME NEW g \in Handlers, handler'[g] = handler[g] PROVE Written(handler[g])'
  <2>1. PICK x : x = handler[g]
    BY Zenon
  <2>2. Written(x) /\ Handled(x)
    BY <2>1, Zenon DEF ObjectsInv, HandlersInv
  <2>3. ASSUME x.pc = "objects", NEW i \in 0 .. (x.next - 1) PROVE objects'[Key(x.request, i)] # Absent
    <3>1. x.request \in Requests /\ x.next \in Nat /\ x.next < x.request.size /\ x.request.size \in Nat
      BY <2>2, <2>3, Zenon DEF Handled, RequestsAreWhole
    <3>2. i \in 0 .. (x.request.size - 1)
      BY <2>3, <3>1
    <3>3. Key(x.request, i) \in Keys
      BY <3>1, <3>2, KeyLemma, Zenon
    <3>. QED BY <2>2, <2>3, <3>3, Zenon DEF Written
  <2>4. ASSUME x.pc \in {"document", "delete", "insert"}, NEW i \in 0 .. (x.request.size - 1)
        PROVE  objects'[Key(x.request, i)] # Absent
    <3>1. x.request \in Requests
      BY <2>2, <2>4, Zenon DEF Handled
    <3>2. Key(x.request, i) \in Keys
      BY <3>1, KeyLemma, Zenon
    <3>. QED BY <2>2, <2>4, <3>2, Zenon DEF Written
  <2>5. Written(x)'
    BY <2>3, <2>4, Zenon DEF Written
  <2>. QED BY <1>1, <2>1, <2>5, Zenon DEF Written
<1>. QED BY <1>1, Zenon

\* A step that leaves objects and rows alone.
LEMMA QuietObjects ==
  ASSUME ObjectsInv, RequestsAreWhole, Quiet
  PROVE  ObjectsInv'
<1>1. /\ HandlersInv /\ UNCHANGED <<objects, chunks>> /\ RowsPoint
      /\ objects = [k \in Keys |-> objects[k]] /\ chunks = [t \in Targets |-> chunks[t]]
  BY Zenon DEF ObjectsInv, Quiet
<1>2. RowsPoint'
  BY <1>1, Zenon DEF RowsPoint
<1>3. \A g \in Handlers : handler'[g] = handler[g] => Written(handler[g])'
  BY <1>1, ObjectsStay, Zenon
<1>4. CASE UNCHANGED handler
  <2>1. HandlersInv'
    BY <1>1, <1>4, Zenon DEF HandlersInv
  <2>. QED BY <1>1, <1>2, <1>3, <1>4, <2>1, Zenon DEF ObjectsInv
<1>5. ASSUME NEW h \in Handlers, NEW pc \in Late \cup {"idle"}, handler[h].pc # "idle", Moves(h, pc, 0)
      PROVE  ObjectsInv'
  <2>1. 0 \in Nat /\ 0 < handler[h].request.size
    <3>1. handler[h].request \in Requests
      BY <1>1, <1>5, Zenon DEF HandlersInv, Handled
    <3>. QED BY <3>1 DEF RequestsAreWhole
  <2>2. /\ HandlersInv'
        /\ handler'[h] = [pc |-> pc, request |-> handler[h].request, next |-> 0]
        /\ \A g \in Handlers : g # h => handler'[g] = handler[g]
    BY <1>1, <1>5, <2>1, MovedLemma, Zenon
  <2>3. handler'[h].pc = pc
    BY <2>2
  <2>4. Written(handler[h])'
    BY <1>5, <2>3, Zenon DEF Written, Late
  <2>. QED BY <1>1, <1>2, <1>3, <2>2, <2>4, Zenon DEF ObjectsInv
<1>6. \A h \in Handlers : handler[h].pc \in Late => handler[h].pc # "idle"
  BY Zenon DEF Late
<1>. QED BY <1>4, <1>5, <1>6, Zenon DEF Quiet

\* Objects are put before the rows that name them, and no step takes one away.
LEMMA ObjectsStep ==
  ASSUME ObjectsInv, RequestsAreWhole, [Next]_vars
  PROVE  ObjectsInv'
<1>1. /\ HandlersInv /\ RowsPoint
      /\ objects = [k \in Keys |-> objects[k]] /\ chunks = [t \in Targets |-> chunks[t]]
  BY Zenon DEF ObjectsInv
\* A request of h is there, whole.
<1>2. ASSUME NEW h \in Handlers, handler[h].pc # "idle"
      PROVE  /\ handler[h].request \in Requests /\ handler[h].next \in Nat /\ handler[h].next < handler[h].request.size
             /\ handler[h].request.size \in Nat /\ 0 < handler[h].request.size
    BY <1>1, <1>2 DEF HandlersInv, Handled, RequestsAreWhole
<1>3. ASSUME NEW h \in Handlers, NEW r \in Requests, Receive(h, r) PROVE ObjectsInv'
  <2>1. PICK x : x = [pc |-> "objects", request |-> r, next |-> 0]
    BY Zenon
  <2>2. handler' = [handler EXCEPT ![h] = x] /\ UNCHANGED <<objects, chunks>>
    BY <1>3, <2>1, Zenon DEF Receive, store
  <2>3. Handled(x)
    BY <2>1 DEF Handled, RequestsAreWhole
  <2>4. HandlersInv' /\ (\A g \in Handlers : handler'[g] = IF g = h THEN x ELSE handler[g])
    BY <1>1, <2>2, <2>3, HandlerMoves, ZenonT(30)
  <2>5. \A g \in Handlers : handler'[g] = handler[g] => Written(handler[g])'
    BY <1>1, <2>2, ObjectsStay, Zenon
  <2>6. Written(handler[h])'
    <3>1. handler'[h] = x /\ x.pc = "objects" /\ x.next = 0
      BY <2>1, <2>4, Zenon
    <3>. QED BY <3>1 DEF Written
  <2>7. RowsPoint'
    BY <1>1, <2>2, Zenon DEF RowsPoint
  <2>8. \A g \in Handlers : Written(handler[g])'
    BY <2>4, <2>5, <2>6, Zenon
  <2>. QED BY <1>1, <2>2, <2>4, <2>7, <2>8, Zenon DEF ObjectsInv
\* The request moves on and no object goes.
<1>4. ASSUME NEW h \in Handlers, handler[h].pc # "idle", NEW pc, NEW n \in Nat, Moves(h, pc, n),
             n < handler[h].request.size, objects' = [k \in Keys |-> objects'[k]],
             \A k \in Keys : objects[k] # Absent => objects'[k] # Absent,
             chunks' = [t \in Targets |-> chunks'[t]],
             \A t \in Targets : \A c \in chunks'[t] : c \in chunks[t] \/ (c.key \in Keys /\ objects'[c.key] # Absent),
             NEW x, x = [pc |-> pc, request |-> handler[h].request, next |-> n], Written(x)'
      PROVE  ObjectsInv'
  <2>1. /\ HandlersInv' /\ handler'[h] = x
        /\ \A g \in Handlers : g # h => handler'[g] = handler[g]
    BY <1>1, <1>4, MovedLemma
  <2>2. RowsPoint'
    BY <1>1, <1>4, Zenon DEF RowsPoint
  <2>3. \A g \in Handlers : handler'[g] = handler[g] => Written(handler[g])'
    BY <1>4, ObjectsStay, Zenon
  <2>4. Written(handler[h])'
    BY <1>4, <2>1, Zenon DEF Written
  <2>5. \A g \in Handlers : Written(handler[g])'
    BY <2>1, <2>3, <2>4, Zenon
  <2>. QED BY <1>4, <2>1, <2>2, <2>5, Zenon DEF ObjectsInv
<1>5. ASSUME NEW h \in Handlers, PutObject(h) PROVE ObjectsInv'
  <2>1. PICK r, n : r = handler[h].request /\ n = handler[h].next
    BY Zenon
  <2>2. /\ handler[h].pc = "objects" /\ UNCHANGED chunks /\ HNext(h, "document")
        /\ objects' = [objects EXCEPT ![Key(r, n)] = Body(r, n)]
    BY <1>5, <2>1, Zenon DEF PutObject, At, Req
  <2>3. r \in Requests /\ n \in Nat /\ n < r.size /\ r.size \in Nat /\ 0 < r.size
    BY <1>2, <2>1, <2>2, Zenon
  <2>4. Key(r, n) \in Keys /\ Body(r, n) # Absent
    BY <2>3, KeyLemma, BodyLemma, Zenon
  <2>5. /\ objects' = [k \in Keys |-> objects'[k]] /\ objects'[Key(r, n)] # Absent
        /\ \A k \in Keys : objects[k] # Absent => objects'[k] # Absent
    BY <1>1, <2>2, <2>4, Zenon
  <2>6. \A i \in 0 .. n : objects'[Key(r, i)] # Absent
    <3>1. \A i \in 0 .. n : i = n \/ i \in 0 .. (n - 1)
      BY <2>3
    <3>2. \A i \in 0 .. (n - 1) : i \in 0 .. (r.size - 1)
      BY <2>3
    <3>3. \A i \in 0 .. (n - 1) : objects[Key(r, i)] # Absent
      BY <2>1, <2>2, Zenon DEF ObjectsInv, Written
    <3>. QED BY <2>3, <2>5, <3>1, <3>2, <3>3, KeyLemma, Zenon
  <2>7. CASE n + 1 < r.size /\ Moves(h, handler[h].pc, n + 1)
    <3>1. PICK m \in Nat : m = n + 1
      BY <2>3
    <3>2. PICK x : x = [pc |-> "objects", request |-> handler[h].request, next |-> m]
      BY Zenon
    <3>3. \A i \in 0 .. (m - 1) : i \in 0 .. n
      BY <2>3, <3>1
    <3>4. x.pc = "objects" /\ x.next = m /\ x.request = r
      BY <2>1, <3>2, Zenon
    <3>5. Written(x)'
      BY <2>6, <3>3, <3>4, Zenon DEF Written
    <3>. QED BY <1>1, <1>4, <2>1, <2>2, <2>5, <2>7, <3>1, <3>2, <3>5
  <2>8. CASE ~(n + 1 < r.size) /\ Moves(h, "document", 0)
    <3>1. PICK x : x = [pc |-> "document", request |-> handler[h].request, next |-> 0]
      BY Zenon
    <3>2. \A i \in 0 .. (r.size - 1) : i \in 0 .. n
      BY <2>3, <2>8
    <3>3. x.pc = "document" /\ x.request = r
      BY <2>1, <3>1, Zenon
    <3>4. Written(x)'
      BY <2>6, <3>2, <3>3, Zenon DEF Written
    <3>. QED BY <1>1, <1>4, <2>1, <2>2, <2>3, <2>5, <2>8, <3>1, <3>4, Zenon
  <2>. QED BY <1>1, <2>1, <2>2, <2>7, <2>8, MoveLemma, Zenon
\* The steps that write rows: all objects are there, and stay.
<1>6. ASSUME NEW h \in Handlers, handler[h].pc \in {"document", "delete", "insert"}, UNCHANGED objects,
             NEW pc \in {"delete", "insert", "imported", "idle"}, NEW n \in Nat, Moves(h, pc, n), n < handler[h].request.size,
             chunks' = [t \in Targets |-> chunks'[t]],
             \A t \in Targets : \A c \in chunks'[t] :
                c \in chunks[t] \/ \E i \in 0 .. (handler[h].request.size - 1) : c = Row(handler[h].request, i)
      PROVE  ObjectsInv'
  <2>1. PICK r : r = handler[h].request
    BY Zenon
  <2>2. r \in Requests
    BY <1>2, <1>6, <2>1, Zenon
  <2>3. \A i \in 0 .. (r.size - 1) : Key(r, i) \in Keys /\ objects[Key(r, i)] # Absent
    BY <1>6, <2>1, <2>2, KeyLemma, Zenon DEF ObjectsInv, Written
  <2>4. \A t \in Targets : \A c \in chunks'[t] : c \in chunks[t] \/ (c.key \in Keys /\ objects'[c.key] # Absent)
    <3>. SUFFICES ASSUME NEW t \in Targets, NEW c \in chunks'[t], c \notin chunks[t]
                  PROVE  c.key \in Keys /\ objects'[c.key] # Absent
      BY Zenon
    <3>1. PICK i \in 0 .. (r.size - 1) : c = Row(r, i)
      BY <1>6, <2>1, Zenon
    <3>2. c.key = Key(r, i)
      BY <3>1, Zenon DEF Row
    <3>. QED BY <1>6, <2>3, <3>2, Zenon
  <2>5. PICK x : x = [pc |-> pc, request |-> handler[h].request, next |-> n]
    BY Zenon
  <2>6. x.pc = pc /\ x.request = r
    BY <2>1, <2>5, Zenon
  <2>7. Written(x)'
    BY <1>6, <2>3, <2>6, Zenon DEF Written
  <2>8. handler[h].pc # "idle" /\ objects' = [k \in Keys |-> objects'[k]]
        /\ \A k \in Keys : objects[k] # Absent => objects'[k] # Absent
    BY <1>1, <1>6, Zenon
  <2>. QED BY <1>4, <1>6, <2>4, <2>5, <2>7, <2>8, Zenon
<1>7. ASSUME NEW h \in Handlers, WriteDocument(h) PROVE ObjectsInv'
  <2>1. handler[h].pc = "document" /\ HGoto(h, "delete") /\ UNCHANGED <<objects, chunks>>
    BY <1>7, Zenon DEF WriteDocument, At
  <2>2. 0 \in Nat /\ 0 < handler[h].request.size /\ Moves(h, "delete", 0)
    BY <1>1, <1>2, <2>1, MoveLemma, Zenon
  <2>. QED BY <1>1, <1>6, <2>1, <2>2, Zenon
<1>8. ASSUME NEW h \in Handlers, WriteMemory(h) PROVE ObjectsInv'
  <2>1. /\ handler[h].pc = "document" /\ HGoto(h, "imported") /\ UNCHANGED objects
        /\ chunks' = [chunks EXCEPT ![Target(h)] = {Row(handler[h].request, 0)}]
    BY <1>8, Zenon DEF WriteMemory, At, Req
  <2>2. 0 \in 0 .. (handler[h].request.size - 1) /\ 0 < handler[h].request.size /\ Moves(h, "imported", 0)
    BY <1>1, <1>2, <2>1, MoveLemma
  <2>3. chunks' = [t \in Targets |-> chunks'[t]]
    BY <1>1, <2>1, Zenon
  <2>4. \A t \in Targets : \A c \in chunks'[t] : c \in chunks[t] \/ c = Row(handler[h].request, 0)
    BY <1>1, <2>1, Zenon
  <2>. QED BY <1>6, <2>1, <2>2, <2>3, <2>4, Zenon
<1>9. ASSUME NEW h \in Handlers, DeleteChunks(h) PROVE ObjectsInv'
  <2>1. /\ handler[h].pc = "delete" /\ HGoto(h, "insert") /\ UNCHANGED objects
        /\ chunks' = [chunks EXCEPT ![Target(h)] = {}]
    BY <1>9, Zenon DEF DeleteChunks, At
  <2>2. 0 < handler[h].request.size /\ Moves(h, "insert", 0)
    BY <1>1, <1>2, <2>1, MoveLemma, Zenon
  <2>3. chunks' = [t \in Targets |-> chunks'[t]] /\ \A t \in Targets : \A c \in chunks'[t] : c \in chunks[t]
    BY <1>1, <2>1, Zenon
  <2>. QED BY <1>6, <2>1, <2>2, <2>3, Zenon
<1>10. ASSUME NEW h \in Handlers, InsertChunk(h) PROVE ObjectsInv'
  <2>1. PICK row, n : row = Row(handler[h].request, n) /\ n = handler[h].next
    BY Zenon
  <2>2. handler[h].pc = "insert" /\ UNCHANGED objects
    BY <1>10, Zenon DEF InsertChunk, At
  <2>3. /\ n \in 0 .. (handler[h].request.size - 1) /\ n \in Nat /\ 0 < handler[h].request.size
        /\ n + 1 \in Nat
    BY <1>2, <2>1, <2>2
  <2>4. CASE HGoto(h, "idle") /\ UNCHANGED chunks
    <3>1. Moves(h, "idle", 0)
      BY <1>1, <2>4, MoveLemma, Zenon
    <3>. QED BY <1>1, <1>6, <2>2, <2>3, <2>4, <3>1, Zenon
  <2>5. CASE chunks' = [chunks EXCEPT ![Target(h)] = @ \cup {row}] /\ HNext(h, "imported")
    <3>1. chunks' = [t \in Targets |-> chunks'[t]]
          /\ \A t \in Targets : \A c \in chunks'[t] : c \in chunks[t] \/ c = row
      BY <1>1, <2>5, Zenon
    <3>2. PICK m \in Nat : m = n + 1
      BY <2>3, Zenon
    <3>3. \/ m < handler[h].request.size /\ Moves(h, "insert", m)
          \/ Moves(h, "imported", 0)
      BY <1>1, <2>1, <2>2, <2>5, <3>2, MoveLemma, Zenon
    <3>. QED BY <1>6, <2>1, <2>2, <2>3, <3>1, <3>2, <3>3, Zenon
  <2>. QED BY <1>10, <2>1, <2>4, <2>5, Zenon DEF InsertChunk, Req
<1>. QED BY <1>1, <1>3, <1>5, <1>7, <1>8, <1>9, <1>10, StepKinds, QuietObjects, Zenon

\* Nothing is stored at the start.
LEMMA ObjectsInit ==
  ASSUME Init
  PROVE  ObjectsInv
<1>1. /\ objects = [k \in Keys |-> Absent] /\ chunks = [t \in Targets |-> {}]
      /\ handler = [h \in Handlers |-> NoHandler]
  BY Zenon DEF Init
<1>2. PICK x : x = NoHandler
  BY Zenon
<1>3. x.pc = "idle" /\ x = [pc |-> x.pc, request |-> x.request, next |-> x.next]
  BY <1>2, Zenon DEF NoHandler
<1>4. HandlersInv
  BY <1>1, <1>2, <1>3, Zenon DEF HandlersInv, Handled
<1>5. \A h \in Handlers : Written(handler[h])
  BY <1>1, <1>2, <1>3, Zenon DEF Written
<1>. QED BY <1>1, <1>4, <1>5, Zenon DEF ObjectsInv, RowsPoint

\* The invariant of objects and rows.
LEMMA ObjectsInvariance ==
  ASSUME RequestsAreWhole
  PROVE  Spec => []ObjectsInv
BY ObjectsInit, ObjectsStep, PTL DEF Spec

\* No row of D1 names an object that is not in R2, whatever requests overlap or break off
\* (handleKnowledgeIngest, handleMemoryIngest).
THEOREM RowsNameObjects ==
  ASSUME RequestsAreWhole
  PROVE  Spec => []RowsHaveObjects
<1>1. ObjectsInv => RowsHaveObjects
  BY Zenon DEF ObjectsInv, RowsPoint, RowsHaveObjects
<1>. QED BY <1>1, ObjectsInvariance, PTL

-----------------------------------------------------------------------------
(* Messages and deliveries. *)

Message == [target : Targets, deliveries : Nat]

\* A delivery under way is that of a message that was sent.
DeliveriesInv ==
    /\ msgs \in Seq(Message) /\ queue \subseteq DOMAIN msgs /\ dead \subseteq DOMAIN msgs
    /\ consumer = [c \in Consumers |-> consumer[c]]
    /\ \A c \in Consumers :
         /\ consumer[c] = [pc |-> consumer[c].pc, msg |-> consumer[c].msg, rows |-> consumer[c].rows,
                           vectors |-> consumer[c].vectors]
         /\ consumer[c].pc # "idle" => consumer[c].msg \in DOMAIN msgs

\* The vectors of a delivery, as Embed makes them.
Vectors(c) ==
    {[target |-> MsgTarget(c), index |-> r.index, key |-> r.key, scope |-> r.scope,
      body |-> objects[r.key]] : r \in consumer[c].rows}

\* What a step of a delivery makes of it.
Turns(c, y) ==
    LET x == consumer[c] IN
    \/ y = NoDelivery
    \/ x.pc # "idle" /\ \E pc \in {"running", "select", "succeeded", "event", "failed", "failedEvent"} :
                           y = [pc |-> pc, msg |-> x.msg, rows |-> x.rows, vectors |-> x.vectors]
    \/ \E n \in queue : y = [pc |-> "read", msg |-> n, rows |-> x.rows, vectors |-> x.vectors]
    \/ x.pc = "select" /\ \E pc \in {"failed", "embed"} :
                           y = [pc |-> pc, msg |-> x.msg, rows |-> chunks[MsgTarget(c)], vectors |-> x.vectors]
    \/ x.pc = "embed" /\ \E pc \in {"failed", "upsert"} :
                           /\ y = [pc |-> pc, msg |-> x.msg, rows |-> x.rows, vectors |-> Vectors(c)]
                           /\ pc = "upsert" => \A v \in Vectors(c) : v.body # Absent

\* The steps of requests and retrievals leave deliveries and index alone.
LEMMA OthersLeaveDeliveries ==
  ASSUME \/ \E h \in Handlers : \/ \E r \in Requests : Receive(h, r)
                                \/ Ingest(h) \/ SendFails(h) \/ HandlerBreaks(h)
         \/ Retrieve \/ QueryVectorize \/ \E s \in Asked : ReadScope(s)
  PROVE  UNCHANGED <<consumer, index, dead>>
BY Zenon DEF Receive, Ingest, PutObject, WriteDocument, WriteMemory, DeleteChunks, InsertChunk,
   WriteIngestionAudit, QueueJob, QueuedEvent, Send, SendFails, Unsent, UnsentEvent,
   HandlerBreaks, Retrieve, QueryVectorize, ReadScope, mail

\* Every step leaves the deliveries alone or turns one.
LEMMA DeliveryKinds ==
  ASSUME DeliveriesInv, [Next]_vars
  PROVE  \/ UNCHANGED <<consumer, index>>
         \/ \E c \in Consumers : \E y :
              /\ consumer' = [consumer EXCEPT ![c] = y] /\ Turns(c, y)
              /\ \/ UNCHANGED index
                 \/ consumer[c].pc = "upsert" /\ index' \subseteq index \cup consumer[c].vectors
<1>1. CASE UNCHANGED vars
  BY <1>1, Zenon DEF vars
<1> DEFINE Turned(c) == \E y : consumer' = [consumer EXCEPT ![c] = y] /\ Turns(c, y)
<1>2. ASSUME NEW c \in Consumers
      PROVE  \E pc, msg, rows, vectors : consumer[c] = [pc |-> pc, msg |-> msg, rows |-> rows, vectors |-> vectors]
  <2>1. consumer[c] = [pc |-> consumer[c].pc, msg |-> consumer[c].msg, rows |-> consumer[c].rows,
                       vectors |-> consumer[c].vectors]
    BY Zenon DEF DeliveriesInv
  <2>. QED BY <2>1, Zenon
<1>3. ASSUME NEW c \in Consumers, Done(c) PROVE Turned(c)
  BY <1>3, Zenon DEF Done, Turns
<1>4. ASSUME NEW c \in Consumers, NEW pc \in {"running", "select", "succeeded", "event", "failed", "failedEvent"},
             consumer[c].pc # "idle", CGoto(c, pc)
      PROVE  Turned(c)
  <2>1. PICK x : x = consumer[c]
    BY Zenon
  <2>2. PICK y : y = [x EXCEPT !.pc = pc]
    BY Zenon
  <2>3. consumer' = [consumer EXCEPT ![c] = y]
    BY <1>4, <2>1, <2>2, Zenon DEF CGoto
  <2>4. y = [pc |-> pc, msg |-> x.msg, rows |-> x.rows, vectors |-> x.vectors]
    <3>1. PICK was, msg, rows, vectors : x = [pc |-> was, msg |-> msg, rows |-> rows, vectors |-> vectors]
      BY <1>2, <2>1, Zenon
    <3>. QED BY <2>2, <3>1, Zenon
  <2>5. Turns(c, y)
    BY <1>4, <2>1, <2>4, Zenon DEF Turns
  <2>. QED BY <2>3, <2>5, Zenon
<1>5. ASSUME NEW c \in Consumers, NEW n \in queue, Deliver(c, n) PROVE Turned(c) /\ UNCHANGED index
  <2>1. PICK x : x = consumer[c]
    BY Zenon
  <2>2. PICK y : y = [x EXCEPT !.pc = "read", !.msg = n]
    BY Zenon
  <2>3. consumer' = [consumer EXCEPT ![c] = y] /\ UNCHANGED index
    BY <1>5, <2>1, <2>2, Zenon DEF Deliver
  <2>4. y = [pc |-> "read", msg |-> n, rows |-> x.rows, vectors |-> x.vectors]
    <3>1. PICK was, msg, rows, vectors : x = [pc |-> was, msg |-> msg, rows |-> rows, vectors |-> vectors]
      BY <1>2, <2>1, Zenon
    <3>. QED BY <2>2, <3>1, Zenon
  <2>5. Turns(c, y)
    BY <2>1, <2>4, Zenon DEF Turns
  <2>. QED BY <2>3, <2>5, Zenon
<1>6. ASSUME NEW c \in Consumers, SelectRows(c) PROVE Turned(c) /\ UNCHANGED index
  <2>1. PICK x : x = consumer[c]
    BY Zenon
  <2>2. PICK rows, pc : /\ rows = chunks[MsgTarget(c)]
                        /\ pc = IF rows = {} THEN "failed" ELSE "embed"
    BY Zenon
  <2>3. PICK y : y = [x EXCEPT !.rows = rows, !.pc = pc]
    BY Zenon
  <2>4. consumer' = [consumer EXCEPT ![c].rows = rows, ![c].pc = pc]
    BY <1>6, <2>2, Zenon DEF SelectRows
  <2>5. consumer' = [consumer EXCEPT ![c] = y] /\ UNCHANGED index /\ x.pc = "select"
    BY <1>6, <2>1, <2>3, <2>4, Zenon DEF SelectRows, CAt
  <2>6. y = [pc |-> pc, msg |-> x.msg, rows |-> rows, vectors |-> x.vectors] /\ pc \in {"failed", "embed"}
    <3>1. PICK was, msg, old, vectors : x = [pc |-> was, msg |-> msg, rows |-> old, vectors |-> vectors]
      BY <1>2, <2>1, Zenon
    <3>. QED BY <2>2, <2>3, <3>1, Zenon
  <2>7. Turns(c, y)
    BY <2>1, <2>2, <2>5, <2>6, Zenon DEF Turns
  <2>. QED BY <2>5, <2>7, Zenon
<1>7. ASSUME NEW c \in Consumers, Embed(c) PROVE Turned(c) /\ UNCHANGED index
  <2>1. PICK x : x = consumer[c]
    BY Zenon
  <2>2. PICK vs, pc : /\ vs = Vectors(c)
                      /\ pc = IF \E v \in vs : v.body = Absent THEN "failed" ELSE "upsert"
    BY Zenon
  <2>3. PICK y : y = [x EXCEPT !.vectors = vs, !.pc = pc]
    BY Zenon
  <2>4. consumer' = [consumer EXCEPT ![c].vectors = vs, ![c].pc = pc]
    BY <1>7, <2>2, Zenon DEF Embed, Vectors
  <2>5. consumer' = [consumer EXCEPT ![c] = y] /\ UNCHANGED index /\ x.pc = "embed"
    BY <1>7, <2>1, <2>3, <2>4, Zenon DEF Embed, CAt
  <2>6. y = [pc |-> pc, msg |-> x.msg, rows |-> x.rows, vectors |-> vs]
    <3>1. PICK was, msg, rows, old : x = [pc |-> was, msg |-> msg, rows |-> rows, vectors |-> old]
      BY <1>2, <2>1, Zenon
    <3>. QED BY <2>3, <3>1, Zenon
  <2>7. pc \in {"failed", "upsert"} /\ (pc = "upsert" => \A v \in vs : v.body # Absent)
    BY <2>2, Zenon
  <2>8. Turns(c, y)
    BY <2>1, <2>2, <2>5, <2>6, <2>7, Zenon DEF Turns
  <2>. QED BY <2>5, <2>8, Zenon
<1>8. ASSUME NEW c \in Consumers, Upsert(c)
      PROVE  Turned(c) /\ consumer[c].pc = "upsert" /\ index' \subseteq index \cup consumer[c].vectors
  BY <1>4, <1>8, Zenon DEF Upsert, CAt
<1>9. ASSUME NEW c \in Consumers, ReadJob(c) \/ SucceededEvent(c) \/ FailedEvent(c) \/ DeliveryBreaks(c)
      PROVE  Turned(c) /\ UNCHANGED index
  <2>1. UNCHANGED index /\ (Done(c) \/ (consumer[c].pc # "idle" /\ CGoto(c, "running")))
    BY <1>9, Zenon DEF ReadJob, SucceededEvent, FailedEvent, DeliveryBreaks, Ack, Return, CAt
  <2>. QED BY <1>3, <1>4, <2>1, Zenon
<1>10. ASSUME NEW c \in Consumers, SetRunning(c) \/ SetSucceeded(c) \/ SetFailed(c) \/ Throws(c)
       PROVE  Turned(c) /\ UNCHANGED index
  <2>1. PICK pc \in {"select", "event", "failed", "failedEvent"} :
           UNCHANGED index /\ consumer[c].pc # "idle" /\ CGoto(c, pc)
    BY <1>10, Zenon DEF SetRunning, SetSucceeded, SetFailed, Throws, CAt
  <2>. QED BY <1>4, <2>1, Zenon
<1>11. ASSUME NEW c \in Consumers, Process(c) \/ Throws(c) \/ DeliveryBreaks(c)
       PROVE  Turned(c) /\ \/ UNCHANGED index
                           \/ consumer[c].pc = "upsert" /\ index' \subseteq index \cup consumer[c].vectors
  BY <1>6, <1>7, <1>8, <1>9, <1>10, <1>11, Zenon DEF Process
<1>12. CASE \/ \E h \in Handlers : \/ \E r \in Requests : Receive(h, r)
                                   \/ Ingest(h) \/ SendFails(h) \/ HandlerBreaks(h)
            \/ Retrieve \/ QueryVectorize \/ \E s \in Asked : ReadScope(s)
  BY <1>12, OthersLeaveDeliveries, Zenon
<1>13. CASE \E c \in Consumers : \/ \E n \in queue : Deliver(c, n)
                                \/ Process(c) \/ Throws(c) \/ DeliveryBreaks(c)
  BY <1>5, <1>11, <1>13, Zenon
<1>. QED BY <1>1, <1>12, <1>13, Zenon DEF Next

-----------------------------------------------------------------------------
(* Vectors: an object is written once and for all, as long as requests that agree on target and *)
(* version agree on the text. *)

VersionsAgree ==
    \A r, s \in Requests : TargetOf(r) = TargetOf(s) /\ r.version = s.version => r.body = s.body

\* The text that a key stands for, if any.
TextsInv == \A r \in Requests : \A i \in Indices : objects[Key(r, i)] \in {Absent, Body(r, i)}

\* A vector that was made from the object its key names.
Made(v) == v.key \in Keys /\ v.body # Absent /\ objects[v.key] = v.body

Consumed(x) ==
    /\ x = [pc |-> x.pc, msg |-> x.msg, rows |-> x.rows, vectors |-> x.vectors]
    /\ \A r \in x.rows : r.key \in Keys
    /\ x.pc = "upsert" => \A v \in x.vectors : Made(v)

VectorsInv ==
    /\ TextsInv
    /\ \A v \in index : Made(v)
    /\ consumer = [c \in Consumers |-> consumer[c]]
    /\ \A c \in Consumers : Consumed(consumer[c])

\* No step changes an object that is there.
LEMMA TextsStep ==
  ASSUME ObjectsInv, TextsInv, RequestsAreWhole, VersionsAgree, [Next]_vars
  PROVE  TextsInv' /\ \A k \in Keys : objects[k] # Absent => objects'[k] = objects[k]
<1>1. ASSUME NEW h \in Handlers, PutObject(h)
      PROVE  TextsInv' /\ \A k \in Keys : objects[k] # Absent => objects'[k] = objects[k]
  <2>1. PICK r, n : r = handler[h].request /\ n = handler[h].next
    BY Zenon
  <2>2. /\ handler[h].pc = "objects"
        /\ objects' = [objects EXCEPT ![Key(r, n)] = Body(r, n)]
    BY <1>1, <2>1, Zenon DEF PutObject, At, Req
  <2>3. r \in Requests /\ n \in Nat /\ n < r.size /\ r.size \in Nat
    BY <2>1, <2>2, Zenon DEF ObjectsInv, HandlersInv, Handled, RequestsAreWhole
  <2>4. n \in Indices /\ Key(r, n) \in Keys
    <3>1. n \in 0 .. (r.size - 1)
      BY <2>3
    <3>2. n \in Indices
      BY <2>3, <3>1, Zenon DEF Indices
    <3>. QED BY <2>3, <3>2 DEF Keys
  <2>5. ASSUME NEW s \in Requests, NEW i \in Indices, Key(s, i) = Key(r, n)
        PROVE  Body(s, i) = Body(r, n)
    <3>1. TargetOf(s) = TargetOf(r) /\ s.version = r.version /\ i = n
      BY <2>5, Zenon DEF Key
    <3>2. s.body = r.body
      BY <2>3, <3>1, Zenon DEF VersionsAgree
    <3>. QED BY <3>1, <3>2, Zenon DEF Body
  <2>6. objects = [k \in Keys |-> objects[k]]
    BY Zenon DEF ObjectsInv
  <2>7. \A k \in Keys : objects'[k] = IF k = Key(r, n) THEN Body(r, n) ELSE objects[k]
    BY <2>2, <2>4, <2>6, Zenon
  <2>8. objects[Key(r, n)] \in {Absent, Body(r, n)}
    BY <2>3, <2>4, Zenon DEF TextsInv
  <2>9. ASSUME NEW s \in Requests, NEW i \in Indices
        PROVE  objects'[Key(s, i)] \in {Absent, Body(s, i)}
    <3>1. Key(s, i) \in Keys
      BY DEF Keys
    <3>2. objects[Key(s, i)] \in {Absent, Body(s, i)}
      BY Zenon DEF TextsInv
    <3>. QED BY <2>5, <2>7, <3>1, <3>2, Zenon
  <2>10. TextsInv'
    BY <2>9, Zenon DEF TextsInv
  <2>. QED BY <2>7, <2>8, <2>10, Zenon
<1>2. ASSUME UNCHANGED objects
      PROVE  TextsInv' /\ \A k \in Keys : objects[k] # Absent => objects'[k] = objects[k]
  BY <1>2, Zenon DEF TextsInv
<1>3. ASSUME NEW h \in Handlers,
             \/ \E r \in Requests : Receive(h, r)
             \/ WriteDocument(h) \/ WriteMemory(h) \/ DeleteChunks(h) \/ InsertChunk(h)
      PROVE  UNCHANGED objects
  BY <1>3, Zenon DEF Receive, WriteDocument, WriteMemory, DeleteChunks, InsertChunk, store
<1>4. Quiet => UNCHANGED objects
  BY Zenon DEF Quiet
<1>5. HandlersInv
  BY Zenon DEF ObjectsInv
<1>. QED BY <1>1, <1>2, <1>3, <1>4, <1>5, StepKinds, Zenon

\* Consumers stay what they are when another one, or none, moves.
LEMMA ConsumerMoves ==
  ASSUME VectorsInv, TextsInv', \A k \in Keys : objects[k] # Absent => objects'[k] = objects[k],
         \A v \in index' : v \in index \/ Made(v)',
         \/ UNCHANGED consumer
         \/ \E c \in Consumers : \E x : consumer' = [consumer EXCEPT ![c] = x] /\ Consumed(x)'
  PROVE  VectorsInv'
<1>1. \A v : Made(v) => Made(v)'
  BY Zenon DEF Made
<1>2. \A v \in index' : Made(v)'
  BY <1>1, Zenon DEF VectorsInv
<1>3. \A x : Consumed(x) => Consumed(x)'
  BY <1>1, Zenon DEF Consumed
<1>4. consumer = [c \in Consumers |-> consumer[c]] /\ \A c \in Consumers : Consumed(consumer[c])
  BY Zenon DEF VectorsInv
<1>5. \A c \in Consumers : \E x : x = consumer'[c] /\ Consumed(x)'
  BY <1>3, <1>4, Zenon
<1>6. \A c \in Consumers : Consumed(consumer[c])'
  BY <1>5 DEF Consumed, Made
<1>7. consumer' = [c \in Consumers |-> consumer'[c]]
  BY <1>4, Zenon
<1>. QED BY <1>2, <1>6, <1>7, Zenon DEF VectorsInv

\* Messages are sent, delivered, acknowledged and returned; none loses its target.
LEMMA DeliveriesStep ==
  ASSUME ObjectsInv, DeliveriesInv, RequestsAreWhole, [Next]_vars
  PROVE  /\ DeliveriesInv'
         /\ \A n \in DOMAIN msgs : n \in DOMAIN msgs' /\ msgs'[n].target = msgs[n].target
<1>1. /\ msgs \in Seq(Message) /\ queue \subseteq DOMAIN msgs /\ dead \subseteq DOMAIN msgs
      /\ consumer = [c \in Consumers |-> consumer[c]]
  BY Zenon DEF DeliveriesInv
\* Messages keep their targets, and what is queued or dead was sent.
<1> DEFINE Sent == /\ msgs' \in Seq(Message) /\ queue' \subseteq DOMAIN msgs' /\ dead' \subseteq DOMAIN msgs'
                   /\ \A n \in DOMAIN msgs : n \in DOMAIN msgs' /\ msgs'[n].target = msgs[n].target
<1>2. Sent
  <2>1. ASSUME UNCHANGED msgs, queue' \subseteq queue, dead' \subseteq dead \cup queue PROVE Sent
    BY <1>1, <2>1, Zenon
  <2>2. ASSUME NEW h \in Handlers, Send(h) PROVE Sent
    <3>1. PICK m : m = [target |-> Target(h), deliveries |-> 0]
      BY Zenon
    <3>2. handler[h].request \in Requests
      BY <2>2, Zenon DEF Send, At, ObjectsInv, HandlersInv, Handled
    <3>3. m \in Message
      BY <3>1, <3>2, KeyLemma, Zenon DEF Message, Target, Req
    <3>4. msgs' = Append(msgs, m) /\ queue' = queue \cup {Len(msgs) + 1} /\ UNCHANGED dead
      BY <2>2, <3>1, Zenon DEF Send
    <3>5. msgs' \in Seq(Message) /\ DOMAIN msgs' = 1 .. (Len(msgs) + 1) /\ DOMAIN msgs = 1 .. Len(msgs) /\ Len(msgs) \in Nat
          /\ \A n \in 1 .. Len(msgs) : msgs'[n] = msgs[n]
      BY <1>1, <3>3, <3>4
    <3>. QED BY <1>1, <3>4, <3>5
  <2>3. ASSUME NEW c \in Consumers, NEW n \in queue, Deliver(c, n) PROVE Sent
    <3>1. msgs' = [msgs EXCEPT ![n].deliveries = @ + 1] /\ UNCHANGED <<queue, dead>>
      BY <2>3, Zenon DEF Deliver
    <3>2. n \in DOMAIN msgs /\ msgs[n] \in Message
      BY <1>1
    <3>3. PICK m : m = [msgs[n] EXCEPT !.deliveries = msgs[n].deliveries + 1]
      BY ZenonT(30)
    <3>4. m \in Message /\ m.target = msgs[n].target
      BY <3>2, <3>3 DEF Message
    <3>5. msgs' = [msgs EXCEPT ![n] = m]
      BY <3>1, <3>3, Zenon
    <3>. QED BY <1>1, <3>1, <3>2, <3>4, <3>5
  <2>4. ASSUME NEW c \in Consumers, Ack(c) \/ Return(c)
        PROVE  UNCHANGED msgs /\ queue' \subseteq queue /\ dead' \subseteq dead \cup queue
    BY <2>4, Zenon DEF Ack, Return
  <2>5. ASSUME NEW c \in Consumers, Process(c) \/ Throws(c) \/ DeliveryBreaks(c)
        PROVE  UNCHANGED msgs /\ queue' \subseteq queue /\ dead' \subseteq dead \cup queue
    <3>1. Ack(c) \/ Return(c) \/ UNCHANGED mail
      BY <2>5, Zenon DEF Process, Throws, DeliveryBreaks, ReadJob, SetRunning, SelectRows,
         Embed, Upsert, SetSucceeded, SucceededEvent, SetFailed, FailedEvent
    <3>. QED BY <2>4, <3>1, Zenon DEF mail
  <2>6. ASSUME \/ \E h \in Handlers : \/ \E r \in Requests : Receive(h, r)
                                      \/ Ingest(h) /\ ~Send(h)
                                      \/ SendFails(h) \/ HandlerBreaks(h)
               \/ Retrieve \/ QueryVectorize \/ \E s \in Asked : ReadScope(s)
               \/ UNCHANGED vars
        PROVE  UNCHANGED mail
    BY <2>6, Zenon DEF Receive, Ingest, PutObject, WriteDocument, WriteMemory, DeleteChunks, InsertChunk,
       WriteIngestionAudit, QueueJob, QueuedEvent, SendFails, Unsent, UnsentEvent,
       HandlerBreaks, Retrieve, QueryVectorize, ReadScope, vars
  <2>7. UNCHANGED mail => UNCHANGED msgs /\ queue' \subseteq queue /\ dead' \subseteq dead \cup queue
    BY Zenon DEF mail
  <2>8. CASE UNCHANGED msgs /\ queue' \subseteq queue /\ dead' \subseteq dead \cup queue
    BY <2>1, <2>8, Zenon
  <2>. QED BY <2>2, <2>3, <2>5, <2>6, <2>7, <2>8, Zenon DEF Next
<1>3. CASE UNCHANGED consumer
  BY <1>2, <1>3, Zenon DEF DeliveriesInv
<1>4. ASSUME NEW c \in Consumers, NEW y, consumer' = [consumer EXCEPT ![c] = y], Turns(c, y) PROVE DeliveriesInv'
  <2>1. /\ y = [pc |-> y.pc, msg |-> y.msg, rows |-> y.rows, vectors |-> y.vectors]
        /\ y.pc # "idle" => y.msg \in DOMAIN msgs
    <3>1. consumer[c].pc # "idle" => consumer[c].msg \in DOMAIN msgs
      BY Zenon DEF DeliveriesInv
    <3>. QED BY <1>1, <1>4, <3>1 DEF Turns, NoDelivery
  <2>2. /\ consumer' = [d \in Consumers |-> consumer'[d]]
        /\ \A d \in Consumers : consumer'[d] = IF d = c THEN y ELSE consumer[d]
    BY <1>1, <1>4, Zenon
  <2>3. \A d \in Consumers :
         /\ consumer'[d] = [pc |-> consumer'[d].pc, msg |-> consumer'[d].msg, rows |-> consumer'[d].rows,
                            vectors |-> consumer'[d].vectors]
         /\ consumer'[d].pc # "idle" => consumer'[d].msg \in DOMAIN msgs'
    BY <1>2, <2>1, <2>2 DEF DeliveriesInv
  <2>. QED BY <1>2, <2>2, <2>3, Zenon DEF DeliveriesInv
<1>. QED BY <1>2, <1>3, <1>4, DeliveryKinds, Zenon

\* Nothing is sent at the start.
LEMMA DeliveriesInit ==
  ASSUME Init
  PROVE  DeliveriesInv
<1>1. PICK x : x = NoDelivery
  BY Zenon
<1>2. x.pc = "idle" /\ x = [pc |-> x.pc, msg |-> x.msg, rows |-> x.rows, vectors |-> x.vectors]
  BY <1>1, Zenon DEF NoDelivery
<1>3. consumer = [c \in Consumers |-> x] /\ msgs = <<>> /\ queue = {} /\ dead = {}
  BY <1>1, Zenon DEF Init
<1>. QED BY <1>2, <1>3 DEF DeliveriesInv

\* A step keeps the vectors true to the objects.
LEMMA VectorsStep ==
  ASSUME ObjectsInv, DeliveriesInv, VectorsInv, RequestsAreWhole, VersionsAgree, [Next]_vars
  PROVE  VectorsInv'
<1>1. TextsInv' /\ \A k \in Keys : objects[k] # Absent => objects'[k] = objects[k]
  BY TextsStep, Zenon DEF VectorsInv
<1>2. \A v : Made(v) => Made(v)'
  BY <1>1, Zenon DEF Made
<1>3. CASE UNCHANGED <<consumer, index>>
  BY <1>1, <1>3, ConsumerMoves, Zenon
<1>4. ASSUME NEW c \in Consumers, NEW y, consumer' = [consumer EXCEPT ![c] = y], Turns(c, y),
             \/ UNCHANGED index
             \/ consumer[c].pc = "upsert" /\ index' \subseteq index \cup consumer[c].vectors
      PROVE  VectorsInv'
  <2>1. PICK x : x = consumer[c] /\ Consumed(x)
    BY Zenon DEF VectorsInv
  <2>2. \A v \in index' : v \in index \/ Made(v)'
    BY <1>2, <1>4, <2>1, Zenon DEF Consumed
  <2>3. Consumed(y)'
    <3>1. CASE y = NoDelivery
      BY <3>1, Zenon DEF Consumed, NoDelivery
    <3>2. ASSUME NEW pc, pc # "upsert", NEW msg, y = [pc |-> pc, msg |-> msg, rows |-> x.rows, vectors |-> x.vectors]
          PROVE  Consumed(y)'
      BY <2>1, <3>2, Zenon DEF Consumed
    <3>3. ASSUME x.pc = "select", NEW pc \in {"failed", "embed"},
                 y = [pc |-> pc, msg |-> x.msg, rows |-> chunks[MsgTarget(c)], vectors |-> x.vectors]
          PROVE  Consumed(y)'
      <4>1. MsgTarget(c) \in Targets
        <5>1. consumer[c].msg \in DOMAIN msgs /\ msgs \in Seq(Message)
          BY <2>1, <3>3, Zenon DEF DeliveriesInv
        <5>2. msgs[consumer[c].msg] \in Message
          BY <5>1
        <5>. QED BY <5>2, Zenon DEF MsgTarget, Message
      <4>2. PICK rows : rows = chunks[MsgTarget(c)] /\ \A r \in rows : r.key \in Keys
        BY <4>1, Zenon DEF ObjectsInv, RowsPoint
      <4>. QED BY <3>3, <4>2, Zenon DEF Consumed
    <3>4. ASSUME NEW pc \in {"failed", "upsert"},
                 y = [pc |-> pc, msg |-> x.msg, rows |-> x.rows, vectors |-> Vectors(c)],
                 pc = "upsert" => \A v \in Vectors(c) : v.body # Absent
          PROVE  Consumed(y)'
      <4>1. PICK vs : vs = Vectors(c)
        BY Zenon
      <4>2. \A v \in vs : v.key \in Keys /\ v.body = objects[v.key]
        BY <2>1, <4>1 DEF Vectors, Consumed
      <4>3. pc = "upsert" => \A v \in vs : Made(v)
        BY <3>4, <4>1, <4>2, Zenon DEF Made
      <4>4. y.pc = pc /\ y.rows = x.rows /\ y.vectors = vs
            /\ y = [pc |-> y.pc, msg |-> y.msg, rows |-> y.rows, vectors |-> y.vectors]
        BY <3>4, <4>1, Zenon
      <4>. QED BY <1>2, <2>1, <4>3, <4>4, Zenon DEF Consumed
    <3>. QED BY <1>4, <2>1, <3>1, <3>2, <3>3, <3>4, Zenon DEF Turns
  <2>. QED BY <1>1, <1>4, <2>2, <2>3, ConsumerMoves, Zenon
<1>. QED BY <1>3, <1>4, DeliveryKinds, Zenon

\* A vector of the index was made from the object its metadata names, although documents are replaced
\* between reading their rows and reading the objects, as long as a version has one text
\* (indexKnowledgeDocument, indexMemoryRecord).
THEOREM VectorsAreTrue ==
  ASSUME RequestsAreWhole, VersionsAgree
  PROVE  Spec => []VectorsMatchObjects
<1>1. Init => VectorsInv
  <2>. SUFFICES ASSUME Init PROVE VectorsInv
    BY Zenon
  <2>1. /\ objects = [k \in Keys |-> Absent] /\ index = {}
        /\ consumer = [c \in Consumers |-> NoDelivery]
    BY Zenon DEF Init
  <2>2. TextsInv
    BY <2>1 DEF TextsInv, Keys
  <2>3. Consumed(NoDelivery)
    BY Zenon DEF Consumed, NoDelivery
  <2>. QED BY <2>1, <2>2, <2>3, Zenon DEF VectorsInv
<1>2. VectorsInv => VectorsMatchObjects
  BY Zenon DEF VectorsInv, Made, VectorsMatchObjects
<1>. QED BY <1>1, <1>2, ObjectsInit, ObjectsStep, DeliveriesInit, DeliveriesStep, VectorsStep, PTL DEF Spec

-----------------------------------------------------------------------------
(* Retrieval. *)

\* A row the retrieval holds is a row of D1, in a scope that is allowed, unless its target was rewritten.
Current(t, i) == t \in reader.disturbed \/ \E c \in chunks[t] : c.index = i /\ c.scope \in Allowed

ReaderInv ==
    /\ reader = [pc |-> reader.pc, todo |-> reader.todo, rows |-> reader.rows, matches |-> reader.matches,
                 disturbed |-> reader.disturbed]
    /\ reader.todo \subseteq Allowed
    /\ \A r \in reader.rows : r.target \in Targets /\ Current(r.target, r.index)
    /\ \A v \in reader.matches : v.target \in Targets /\ v.scope \in Allowed /\ Current(v.target, v.index)

\* Every step leaves rows and retrieval alone, rewrites the rows of one target, or is one of the retrieval.
LEMMA ReaderKinds ==
  ASSUME HandlersInv, [Next]_vars
  PROVE  \/ UNCHANGED <<chunks, reader>>
         \/ \E t, rows : chunks' = [chunks EXCEPT ![t] = rows] /\ Disturb(t)
         \/ Retrieve \/ QueryVectorize \/ \E s \in Asked : ReadScope(s)
<1>1. CASE UNCHANGED vars
  BY <1>1, Zenon DEF vars, store
<1>2. ASSUME NEW h \in Handlers, WriteMemory(h) \/ DeleteChunks(h) \/ InsertChunk(h)
      PROVE  \/ UNCHANGED <<chunks, reader>>
             \/ \E t, rows : chunks' = [chunks EXCEPT ![t] = rows] /\ Disturb(t)
  BY <1>2, ZenonT(30) DEF WriteMemory, DeleteChunks, InsertChunk
<1>3. ASSUME NEW h \in Handlers,
             \/ \E r \in Requests : Receive(h, r)
             \/ PutObject(h) \/ WriteDocument(h) \/ WriteIngestionAudit(h) \/ QueueJob(h) \/ QueuedEvent(h)
             \/ Send(h) \/ SendFails(h) \/ Unsent(h) \/ UnsentEvent(h) \/ HandlerBreaks(h)
      PROVE  UNCHANGED <<chunks, reader>>
  BY <1>3, Zenon DEF Receive, PutObject, WriteDocument, WriteIngestionAudit, QueueJob, QueuedEvent,
     Send, SendFails, Unsent, UnsentEvent, HandlerBreaks, store
<1>4. ASSUME NEW c \in Consumers,
             \/ \E n \in queue : Deliver(c, n)
             \/ Process(c) \/ Throws(c) \/ DeliveryBreaks(c)
      PROVE  UNCHANGED <<chunks, reader>>
  BY <1>4, Zenon DEF Deliver, Process, Throws, DeliveryBreaks, store, ReadJob, SetRunning, SelectRows,
     Embed, Upsert, SetSucceeded, SucceededEvent, SetFailed, FailedEvent
<1>. QED BY <1>1, <1>2, <1>3, <1>4, Zenon DEF Next, Ingest

\* A retrieval reads current rows, and a rewrite marks its target as disturbed.
LEMMA ReaderStep ==
  ASSUME ObjectsInv, ReaderInv, [Next]_vars
  PROVE  ReaderInv'
<1>1. PICK pc, todo, rows, matches, disturbed :
         reader = [pc |-> pc, todo |-> todo, rows |-> rows, matches |-> matches, disturbed |-> disturbed]
  BY Zenon DEF ReaderInv
<1>2. CASE UNCHANGED <<chunks, reader>>
  BY <1>2, Zenon DEF ReaderInv, Current
<1>3. ASSUME NEW t, NEW new, chunks' = [chunks EXCEPT ![t] = new], Disturb(t) PROVE ReaderInv'
  <2>1. PICK r : r = [reader EXCEPT !.disturbed = @ \cup {t}]
    BY Zenon
  <2>2. r = [pc |-> pc, todo |-> todo, rows |-> rows, matches |-> matches, disturbed |-> disturbed \cup {t}] /\ reader' = r
    BY <1>1, <1>3, <2>1, Zenon DEF Disturb
  <2>3. chunks = [s \in Targets |-> chunks[s]]
    BY Zenon DEF ObjectsInv
  <2>4. \A s \in Targets : s # t => chunks'[s] = chunks[s]
    BY <1>3, <2>3, Zenon
  <2>5. reader'.disturbed = disturbed \cup {t} /\ reader.disturbed = disturbed
    BY <1>1, <2>2, Zenon
  <2>6. \A s \in Targets : \A i : Current(s, i) => Current(s, i)'
    BY <2>4, <2>5, Zenon DEF Current
  <2>7. /\ reader'.todo = todo /\ reader.todo = todo /\ reader'.rows = rows /\ reader.rows = rows
        /\ reader'.matches = matches /\ reader.matches = matches
        /\ reader' = [pc |-> reader'.pc, todo |-> reader'.todo, rows |-> reader'.rows, matches |-> reader'.matches,
                      disturbed |-> reader'.disturbed]
    BY <1>1, <2>2, Zenon
  <2>8. ASSUME NEW x \in rows PROVE x.target \in Targets /\ Current(x.target, x.index)'
    BY <2>6, <2>7, Zenon DEF ReaderInv
  <2>9. ASSUME NEW v \in matches
        PROVE  v.target \in Targets /\ v.scope \in Allowed /\ Current(v.target, v.index)'
    BY <2>6, <2>7, Zenon DEF ReaderInv
  <2>10. Allowed' = Allowed /\ Targets' = Targets
    BY Zenon DEF Allowed, Targets
  <2>. QED BY <2>7, <2>8, <2>9, <2>10, Zenon DEF ReaderInv
<1>4. CASE Retrieve
  BY <1>4, Zenon DEF Retrieve, ReaderInv
<1>5. ASSUME NEW s \in Asked, ReadScope(s) PROVE ReaderInv'
  <2>1. PICK r : r = [reader EXCEPT !.todo = @ \ {s}, !.rows = @ \cup RowsOf(s)]
    BY Zenon
  <2>2. /\ r = [pc |-> pc, todo |-> todo \ {s}, rows |-> rows \cup RowsOf(s), matches |-> matches, disturbed |-> disturbed]
        /\ reader' = r /\ UNCHANGED chunks /\ s \in todo
    BY <1>1, <1>5, <2>1, Zenon DEF ReadScope, store
  <2>3. /\ reader'.todo = todo \ {s} /\ reader.todo = todo /\ reader'.rows = rows \cup RowsOf(s) /\ reader.rows = rows
        /\ reader'.matches = matches /\ reader.matches = matches /\ reader'.disturbed = reader.disturbed
        /\ reader' = [pc |-> reader'.pc, todo |-> reader'.todo, rows |-> reader'.rows, matches |-> reader'.matches,
                      disturbed |-> reader'.disturbed]
    BY <1>1, <2>2, Zenon
  <2>4. s \in Allowed
    BY <2>2, <2>3, Zenon DEF ReaderInv
  <2>5. ASSUME NEW x \in RowsOf(s) PROVE x.target \in Targets /\ Current(x.target, x.index)
    <3>1. PICK t \in Targets : x \in {[target |-> t, index |-> c.index, scope |-> c.scope] : c \in {y \in chunks[t] : y.scope = s}}
      BY Zenon DEF RowsOf
    <3>2. PICK c \in chunks[t] : c.scope = s /\ x = [target |-> t, index |-> c.index, scope |-> c.scope]
      BY <3>1, Zenon
    <3>. QED BY <2>4, <3>2, Zenon DEF Current
  <2>6. \A t, i : Current(t, i) => Current(t, i)'
    BY <2>2, <2>3, Zenon DEF Current
  <2>. QED BY <2>3, <2>5, <2>6, Zenon DEF ReaderInv
<1>6. CASE QueryVectorize
  <2>1. PICK new : new = Matches(reader.rows)
    BY Zenon
  <2>2. PICK r : r = [reader EXCEPT !.pc = "idle", !.matches = new]
    BY Zenon
  <2>3. /\ r = [pc |-> "idle", todo |-> todo, rows |-> rows, matches |-> new, disturbed |-> disturbed]
        /\ reader' = r /\ UNCHANGED chunks
    BY <1>1, <1>6, <2>1, <2>2, Zenon DEF QueryVectorize, store
  <2>4. /\ reader'.todo = reader.todo /\ reader'.rows = reader.rows
        /\ reader'.matches = new /\ reader'.disturbed = reader.disturbed
        /\ reader' = [pc |-> reader'.pc, todo |-> reader'.todo, rows |-> reader'.rows, matches |-> reader'.matches,
                      disturbed |-> reader'.disturbed]
    BY <1>1, <2>3, Zenon
  <2>5. ASSUME NEW v \in new
        PROVE  v.target \in Targets /\ v.scope \in Allowed /\ Current(v.target, v.index)
    <3>1. v.scope \in Allowed /\ \E x \in reader.rows : x.target = v.target /\ x.index = v.index
      BY <2>1, Zenon DEF Matches, VectorId
    <3>. QED BY <3>1, Zenon DEF ReaderInv
  <2>6. \A t, i : Current(t, i) => Current(t, i)'
    BY <2>3, <2>4, Zenon DEF Current
  <2>. QED BY <2>4, <2>5, <2>6, Zenon DEF ReaderInv
<1>7. HandlersInv
  BY Zenon DEF ObjectsInv
<1>. QED BY <1>2, <1>3, <1>4, <1>5, <1>6, <1>7, ReaderKinds, Zenon

\* A retrieval returns no vector whose chunk is gone or lies in a scope the principal is denied, for all
\* that stays in the index, unless the document was rewritten while the retrieval was under way
\* (handleRetrievalContext, queryVectorize).
THEOREM RetrievalsAreCurrent ==
  ASSUME RequestsAreWhole
  PROVE  Spec => []NoGhostMatches
<1>1. Init => ReaderInv
  BY DEF Init, ReaderInv
<1>2. ReaderInv => NoGhostMatches
  BY Zenon DEF ReaderInv, Current, NoGhostMatches
<1>. QED BY <1>1, <1>2, ObjectsInit, ObjectsStep, ReaderStep, PTL DEF Spec

-----------------------------------------------------------------------------
(* One ingest at a time. *)

OneHandler == \A g, h \in Handlers : g = h

\* Rows and objects are exactly those of a request.
Rows(r, n) == {Row(r, i) : i \in 0 .. (n - 1)}
Put(r, n) == \A i \in 0 .. (n - 1) : objects[Key(r, i)] = Body(r, i)
Whole(r) == version[TargetOf(r)] = r.version /\ chunks[TargetOf(r)] = Rows(r, r.size) /\ Put(r, r.size)

\* How far a request has come: nothing counts as answered for its target until it is.
Stage(x) ==
    LET r == x.request IN
    /\ x.pc # "idle" => answered[TargetOf(r)] = NoRequest
    /\ x.pc = "objects" => Put(r, x.next)
    /\ x.pc \in {"document", "delete", "insert"} => Put(r, r.size)
    /\ x.pc \in {"delete", "insert"} => version[TargetOf(r)] = r.version
    /\ x.pc = "insert" => chunks[TargetOf(r)] = Rows(r, x.next)
    /\ x.pc \in Late => Whole(r)

Answered(t) == answered[t] # NoRequest =>
                 answered[t] \in Requests /\ TargetOf(answered[t]) = t /\ Whole(answered[t])

WholeInv ==
    /\ version = [t \in Targets |-> version[t]] /\ answered = [t \in Targets |-> answered[t]]
    /\ \A t \in Targets : Answered(t)
    /\ \A h \in Handlers : Stage(handler[h])

\* A step that writes for one target only leaves what was answered for the others.
LEMMA AnsweredStays ==
  ASSUME WholeInv, RequestsAreWhole, NEW t \in Targets, answered'[t] = answered[t],
         answered[t] # NoRequest => version'[t] = version[t] /\ chunks'[t] = chunks[t],
         answered[t] # NoRequest => \A k \in Keys : k.target = t => objects'[k] = objects[k]
  PROVE  Answered(t)'
<1>. SUFFICES ASSUME answered[t] # NoRequest PROVE Answered(t)'
  BY Zenon DEF Answered
<1>1. PICK r : r = answered[t] /\ r \in Requests /\ TargetOf(r) = t /\ Whole(r)
  BY Zenon DEF WholeInv, Answered
<1>2. \A i \in 0 .. (r.size - 1) : Key(r, i) \in Keys /\ Key(r, i).target = t
  BY <1>1, KeyLemma, Zenon DEF Key
<1>3. Put(r, r.size)'
  BY <1>1, <1>2, Zenon DEF Put, Whole
<1>4. Whole(r)'
  BY <1>1, <1>3, Zenon DEF Whole, Rows
<1>. QED BY <1>1, <1>4 DEF Answered, Whole, Put, Rows

\* A step of the only request.
LEMMA StageMoves ==
  ASSUME ObjectsInv, WholeInv, RequestsAreWhole, OneHandler, NEW h \in Handlers, NEW x, handler'[h] = x, Stage(x)',
         version' = [t \in Targets |-> version'[t]], answered' = [t \in Targets |-> answered'[t]],
         \A t \in Targets : Answered(t)'
  PROVE  WholeInv'
<1>1. Stage(handler[h])'
  BY DEF Stage, Whole, Put, Rows
<1>2. \A g \in Handlers : Stage(handler[g])'
  BY <1>1, Zenon DEF OneHandler
<1>. QED BY <1>2, Zenon DEF WholeInv

\* The steps behind the rows: what is answered is whole.
LEMMA QuietWhole ==
  ASSUME ObjectsInv, WholeInv, RequestsAreWhole, OneHandler, Quiet
  PROVE  WholeInv'
<1>1. /\ HandlersInv /\ UNCHANGED <<objects, version, chunks>>
      /\ version = [t \in Targets |-> version[t]] /\ answered = [t \in Targets |-> answered[t]]
      /\ \A h \in Handlers : Stage(handler[h])
  BY Zenon DEF ObjectsInv, WholeInv, Quiet
<1>2. \A r : Whole(r) => Whole(r)'
  BY <1>1, Zenon DEF Whole, Put, Rows
<1>3. ASSUME NEW t \in Targets, answered'[t] = answered[t] PROVE Answered(t)'
  BY <1>1, <1>3, AnsweredStays, Zenon
<1>4. CASE UNCHANGED <<handler, answered>>
  <2>1. \A t \in Targets : Answered(t)'
    BY <1>3, <1>4, Zenon
  <2>2. ASSUME NEW h \in Handlers PROVE Stage(handler[h])'
    BY <1>1, <1>2, <1>4 DEF Stage, Put, Rows
  <2>. QED BY <1>1, <1>4, <2>1, <2>2, Zenon DEF WholeInv
<1>5. ASSUME NEW h \in Handlers, handler[h].pc # "idle", NEW pc, Moves(h, pc, 0)
      PROVE  /\ handler'[h] = [pc |-> pc, request |-> handler[h].request, next |-> 0]
             /\ handler[h].request \in Requests
  <2>1. handler[h].request \in Requests
    BY <1>1, <1>5, Zenon DEF HandlersInv, Handled
  <2>2. 0 < handler[h].request.size
    BY <2>1 DEF RequestsAreWhole
  <2>. QED BY <1>1, <1>5, <2>1, <2>2, MovedLemma
<1>6. ASSUME NEW h \in Handlers, handler[h].pc # "idle", Moves(h, "idle", 0), UNCHANGED answered PROVE WholeInv'
  <2>0. handler'[h] = [pc |-> "idle", request |-> handler[h].request, next |-> 0]
    BY <1>5, <1>6, Zenon
  <2>1. PICK x : x = handler'[h] /\ x.pc = "idle"
    BY <2>0
  <2>2. Stage(x)'
    BY <2>1, Zenon DEF Stage, Late
  <2>. QED BY <1>1, <1>3, <1>6, <2>1, <2>2, StageMoves, Zenon
<1>7. ASSUME NEW h \in Handlers, NEW pc \in Late, handler[h].pc \in Late, Moves(h, pc, 0), UNCHANGED answered
      PROVE  WholeInv'
  <2>1. handler[h].pc # "idle"
    BY <1>7, Zenon DEF Late
  <2>2. PICK x : x = handler'[h] /\ x.pc = pc /\ x.request = handler[h].request
    BY <1>5, <1>7, <2>1, Zenon
  <2>3. Whole(x.request) /\ answered[TargetOf(x.request)] = NoRequest
    BY <1>1, <1>7, <2>1, <2>2, Zenon DEF Stage
  <2>4. Whole(x.request)'
    BY <1>2, <2>3, Zenon
  <2>5. Stage(x)'
    BY <1>7, <2>2, <2>3, <2>4, Zenon DEF Stage, Late
  <2>. QED BY <1>1, <1>3, <1>7, <2>2, <2>5, StageMoves, Zenon
<1>8. ASSUME NEW h \in Handlers, handler[h].pc \in Late, Moves(h, "idle", 0),
             answered' = [answered EXCEPT ![TargetOf(handler[h].request)] = handler[h].request]
      PROVE  WholeInv'
  <2>1. handler[h].pc # "idle"
    BY <1>8, Zenon DEF Late
  <2>2. PICK r : r = handler[h].request /\ r \in Requests
    BY <1>5, <1>8, <2>1, ZenonT(30)
  <2>0. handler'[h] = [pc |-> "idle", request |-> handler[h].request, next |-> 0]
    BY <1>5, <1>8, <2>1, Zenon
  <2>3. PICK x : x = handler'[h] /\ x.pc = "idle"
    BY <2>0
  <2>4. Stage(x)'
    BY <2>3, Zenon DEF Stage, Late
  <2>5. Whole(r)'
    BY <1>1, <1>2, <1>8, <2>2, Zenon DEF Stage
  <2>6. /\ answered' = [t \in Targets |-> answered'[t]]
        /\ \A t \in Targets : answered'[t] = IF t = TargetOf(r) THEN r ELSE answered[t]
    BY <1>1, <1>8, <2>2, Zenon
  <2>7. ASSUME NEW t \in Targets PROVE Answered(t)'
    <3>1. CASE t # TargetOf(r)
      BY <1>3, <2>6, <3>1, Zenon
    <3>2. CASE t = TargetOf(r)
      <4>1. answered'[t] = r
        BY <2>6, <3>2, Zenon
      <4>. QED BY <2>2, <2>5, <3>2, <4>1 DEF Answered, Whole, Put, Rows
    <3>. QED BY <3>1, <3>2, Zenon
  <2>. QED BY <1>1, <2>3, <2>4, <2>6, <2>7, StageMoves, Zenon
<1>. QED BY <1>4, <1>6, <1>7, <1>8, Zenon DEF Quiet

\* The only request goes its way, object by object and row by row.
LEMMA WholeStep ==
  ASSUME ObjectsInv, WholeInv, RequestsAreWhole, OneHandler, [Next]_vars
  PROVE  WholeInv'
<1>1. /\ HandlersInv /\ objects = [k \in Keys |-> objects[k]] /\ chunks = [t \in Targets |-> chunks[t]]
      /\ version = [t \in Targets |-> version[t]] /\ answered = [t \in Targets |-> answered[t]]
      /\ \A h \in Handlers : Stage(handler[h])
  BY Zenon DEF ObjectsInv, WholeInv
<1>2. ASSUME NEW h \in Handlers, NEW r \in Requests, Receive(h, r) PROVE WholeInv'
  <2>1. PICK x : x = [pc |-> "objects", request |-> r, next |-> 0]
    BY Zenon
  <2>2. /\ handler' = [handler EXCEPT ![h] = x] /\ UNCHANGED <<objects, version, chunks>>
        /\ answered' = [answered EXCEPT ![TargetOf(r)] = NoRequest]
    BY <1>2, <2>1, Zenon DEF Receive, store
  <2>3. handler'[h] = x /\ x.pc = "objects" /\ x.request = r /\ x.next = 0
    BY <1>1, <2>1, <2>2, Zenon DEF HandlersInv
  <2>4. /\ answered' = [t \in Targets |-> answered'[t]] /\ TargetOf(r) \in Targets
        /\ \A t \in Targets : answered'[t] = IF t = TargetOf(r) THEN NoRequest ELSE answered[t]
    BY <1>1, <2>2, KeyLemma, Zenon
  <2>5. Stage(x)'
    BY <2>3, <2>4 DEF Stage, Put, Late
  <2>6. ASSUME NEW t \in Targets PROVE Answered(t)'
    <3>1. CASE t # TargetOf(r)
      BY <2>2, <2>4, <3>1, AnsweredStays, Zenon
    <3>2. CASE t = TargetOf(r)
      <4>1. answered'[t] = NoRequest
        BY <2>4, <3>2, Zenon
      <4>. QED BY <4>1, Zenon DEF Answered
    <3>. QED BY <3>1, <3>2, Zenon
  <2>. QED BY <1>1, <2>2, <2>3, <2>4, <2>5, <2>6, StageMoves, Zenon
\* The request of h, and where it is after a move.
<1>3. ASSUME NEW h \in Handlers, handler[h].pc # "idle"
      PROVE  /\ handler[h].request \in Requests /\ handler[h].next \in Nat /\ handler[h].next < handler[h].request.size
             /\ handler[h].request.size \in Nat /\ 0 < handler[h].request.size
             /\ TargetOf(handler[h].request) \in Targets
             /\ answered[TargetOf(handler[h].request)] = NoRequest
  <2>1. /\ handler[h].request \in Requests /\ handler[h].next \in Nat /\ handler[h].next < handler[h].request.size
        /\ handler[h].request.size \in Nat /\ 0 < handler[h].request.size
    BY <1>1, <1>3 DEF HandlersInv, Handled, RequestsAreWhole
  <2>2. answered[TargetOf(handler[h].request)] = NoRequest
    BY <1>1, <1>3, Zenon DEF Stage
  <2>. QED BY <2>1, <2>2, KeyLemma, Zenon
\* A write for the target of the request: what was answered for others stays.
<1>4. ASSUME NEW h \in Handlers, handler[h].pc # "idle", NEW pc, NEW n \in Nat, Moves(h, pc, n), n < handler[h].request.size,
             UNCHANGED answered, version' = [t \in Targets |-> version'[t]],
             \A t \in Targets : t # TargetOf(handler[h].request) => version'[t] = version[t] /\ chunks'[t] = chunks[t],
             \A k \in Keys : k.target # TargetOf(handler[h].request) => objects'[k] = objects[k],
             NEW x, x.pc = pc, x.request = handler[h].request, x.next = n,
             x = [pc |-> pc, request |-> handler[h].request, next |-> n], pc # "idle" => Stage(x)'
      PROVE  WholeInv'
  <2>1. handler'[h] = x
    BY <1>1, <1>4, MovedLemma
  <2>2. ASSUME NEW t \in Targets PROVE Answered(t)'
    <3>1. CASE t # TargetOf(handler[h].request)
      BY <1>4, <3>1, AnsweredStays, Zenon
    <3>2. CASE t = TargetOf(handler[h].request)
      <4>1. answered[t] = NoRequest
        BY <1>3, <1>4, <3>2, Zenon
      <4>. QED BY <1>4, <4>1, Zenon DEF Answered
    <3>. QED BY <3>1, <3>2, Zenon
  <2>3. Stage(x)'
    BY <1>4, Zenon DEF Stage, Late
  <2>. QED BY <1>1, <1>4, <2>1, <2>2, <2>3, StageMoves, Zenon
<1>5. ASSUME NEW h \in Handlers, PutObject(h) PROVE WholeInv'
  <2>1. PICK r, n : r = handler[h].request /\ n = handler[h].next
    BY Zenon
  <2>2. /\ handler[h].pc = "objects" /\ UNCHANGED <<version, chunks, answered>> /\ HNext(h, "document")
        /\ objects' = [objects EXCEPT ![Key(r, n)] = Body(r, n)]
    BY <1>5, <2>1, ZenonT(30) DEF PutObject, At, Req
  <2>3. /\ r \in Requests /\ n \in Nat /\ n < r.size /\ r.size \in Nat /\ 0 < r.size
        /\ answered[TargetOf(r)] = NoRequest
    BY <1>3, <2>1, <2>2, Zenon
  <2>4. Key(r, n) \in Keys /\ Key(r, n).target = TargetOf(r)
    BY <2>3, KeyLemma, Zenon DEF Key
  <2>5. \A k \in Keys : objects'[k] = IF k = Key(r, n) THEN Body(r, n) ELSE objects[k]
    BY <1>1, <2>2, <2>4, Zenon
  <2>6. \A i \in 0 .. n : objects'[Key(r, i)] = Body(r, i)
    <3>1. \A i \in 0 .. n : i = n \/ i \in 0 .. (n - 1)
      BY <2>3
    <3>2. \A i \in 0 .. (n - 1) : i \in 0 .. (r.size - 1) /\ i # n
      BY <2>3
    <3>3. \A i \in 0 .. (n - 1) : objects[Key(r, i)] = Body(r, i)
      BY <1>1, <2>1, <2>2, Zenon DEF Stage, Put
    <3>4. \A i \in 0 .. (n - 1) : Key(r, i) \in Keys /\ Key(r, i) # Key(r, n)
      BY <2>3, <3>2, KeyLemma, Zenon DEF Key
    <3>. QED BY <2>4, <2>5, <3>1, <3>3, <3>4, Zenon
  <2>7. \A k \in Keys : k.target # TargetOf(r) => objects'[k] = objects[k]
    BY <2>4, <2>5, Zenon
  <2>8. CASE n + 1 < r.size /\ Moves(h, handler[h].pc, n + 1)
    <3>1. PICK m \in Nat : m = n + 1
      BY <2>3
    <3>2. PICK x : x = [pc |-> "objects", request |-> handler[h].request, next |-> m]
      BY ZenonT(30)
    <3>3. \A i \in 0 .. (m - 1) : i \in 0 .. n
      BY <2>3, <3>1
    <3>4. x.pc = "objects" /\ x.next = m /\ x.request = r
      BY <2>1, <3>2, Zenon
    <3>5. Stage(x)'
      BY <2>2, <2>3, <2>6, <3>3, <3>4, Zenon DEF Stage, Put, Late
    <3>. QED BY <1>1, <1>4, <2>1, <2>2, <2>7, <2>8, <3>1, <3>2, <3>4, <3>5
  <2>9. CASE ~(n + 1 < r.size) /\ Moves(h, "document", 0)
    <3>1. PICK x : x = [pc |-> "document", request |-> handler[h].request, next |-> 0]
      BY ZenonT(30)
    <3>2. \A i \in 0 .. (r.size - 1) : i \in 0 .. n
      BY <2>3, <2>9
    <3>3. x.pc = "document" /\ x.request = r /\ x.next = 0
      BY <2>1, <3>1, Zenon
    <3>4. Stage(x)'
      BY <2>2, <2>3, <2>6, <3>2, <3>3, Zenon DEF Stage, Put, Late
    <3>. QED BY <1>1, <1>4, <2>1, <2>2, <2>3, <2>7, <2>9, <3>1, <3>3, <3>4
  <2>. QED BY <1>1, <2>1, <2>2, <2>8, <2>9, MoveLemma, Zenon
\* The steps that write rows: the objects are all there.
<1>6. ASSUME NEW h \in Handlers, handler[h].pc \in {"document", "delete", "insert"}
      PROVE  \A i \in 0 .. (handler[h].request.size - 1) :
                objects[Key(handler[h].request, i)] = Body(handler[h].request, i)
  BY <1>1, <1>6, Zenon DEF Stage, Put
<1>7. ASSUME NEW h \in Handlers, WriteDocument(h) PROVE WholeInv'
  <2>1. PICK r : r = handler[h].request
    BY Zenon
  <2>2. /\ handler[h].pc = "document" /\ HGoto(h, "delete") /\ UNCHANGED <<objects, chunks, answered>>
        /\ version' = [version EXCEPT ![TargetOf(r)] = r.version]
    BY <1>7, <2>1, ZenonT(30) DEF WriteDocument, At, Target, Req
  <2>3. /\ 0 < r.size /\ TargetOf(r) \in Targets /\ Moves(h, "delete", 0)
        /\ answered[TargetOf(r)] = NoRequest
    BY <1>1, <1>3, <2>1, <2>2, MoveLemma, Zenon
  <2>4. /\ version' = [t \in Targets |-> version'[t]]
        /\ \A t \in Targets : version'[t] = IF t = TargetOf(r) THEN r.version ELSE version[t]
    BY <1>1, <2>2, Zenon
  <2>5. PICK x : x = [pc |-> "delete", request |-> handler[h].request, next |-> 0]
    BY ZenonT(30)
  <2>6. x.pc = "delete" /\ x.request = r /\ x.next = 0
    BY <2>1, <2>5, Zenon
  <2>7. Stage(x)'
    <3>1. Put(r, r.size)'
      BY <1>6, <2>1, <2>2, Zenon DEF Put
    <3>2. answered'[TargetOf(r)] = NoRequest /\ version'[TargetOf(r)] = r.version
      BY <2>2, <2>3, <2>4, Zenon
    <3>. QED BY <2>6, <3>1, <3>2, Zenon DEF Stage, Late
  <2>. QED BY <1>1, <1>4, <2>1, <2>2, <2>3, <2>4, <2>5, <2>6, <2>7
<1>8. ASSUME NEW h \in Handlers, WriteMemory(h) PROVE WholeInv'
  <2>1. PICK r : r = handler[h].request
    BY Zenon
  <2>2. /\ handler[h].pc = "document" /\ HGoto(h, "imported") /\ UNCHANGED <<objects, answered>>
        /\ version' = [version EXCEPT ![TargetOf(r)] = r.version] /\ r.kind = "memory_record"
        /\ chunks' = [chunks EXCEPT ![TargetOf(r)] = {Row(r, 0)}]
    BY <1>8, <2>1, Zenon DEF WriteMemory, At, Target, Req
  <2>3. /\ r \in Requests /\ 0 < r.size /\ TargetOf(r) \in Targets /\ Moves(h, "imported", 0)
        /\ answered[TargetOf(r)] = NoRequest
    BY <1>1, <1>3, <2>1, <2>2, MoveLemma, Zenon
  <2>4. /\ version' = [t \in Targets |-> version'[t]]
        /\ \A t \in Targets : version'[t] = IF t = TargetOf(r) THEN r.version ELSE version[t]
        /\ \A t \in Targets : chunks'[t] = IF t = TargetOf(r) THEN {Row(r, 0)} ELSE chunks[t]
    BY <1>1, <2>2, Zenon
  <2>5. PICK x : x = [pc |-> "imported", request |-> handler[h].request, next |-> 0]
    BY Zenon
  <2>6. x.pc = "imported" /\ x.request = r /\ x.next = 0
    BY <2>1, <2>5, Zenon
  <2>7. {Row(r, 0)} = Rows(r, r.size)
    <3>1. r.size = 1
      BY <2>2, <2>3, Zenon DEF RequestsAreWhole
    <3>2. 0 .. (r.size - 1) = {0}
      BY <3>1
    <3>. QED BY <3>2, Zenon DEF Rows
  <2>8. Whole(r)'
    <3>1. Put(r, r.size)'
      BY <1>6, <2>1, <2>2, Zenon DEF Put
    <3>2. version'[TargetOf(r)] = r.version /\ chunks'[TargetOf(r)] = Rows(r, r.size)
      BY <2>3, <2>4, <2>7, Zenon
    <3>. QED BY <3>1, <3>2, Zenon DEF Whole, Rows
  <2>9. Stage(x)'
    BY <2>2, <2>3, <2>6, <2>8, Zenon DEF Stage, Late
  <2>10. /\ handler[h].pc # "idle" /\ Moves(h, "imported", 0) /\ 0 \in Nat /\ 0 < handler[h].request.size
         /\ UNCHANGED answered /\ version' = [t \in Targets |-> version'[t]]
    BY <2>1, <2>2, <2>3, <2>4, Zenon
  <2>11. \A t \in Targets : t # TargetOf(handler[h].request) => version'[t] = version[t] /\ chunks'[t] = chunks[t]
    BY <2>1, <2>4, Zenon
  <2>12. \A k \in Keys : k.target # TargetOf(handler[h].request) => objects'[k] = objects[k]
    BY <2>2, Zenon
  <2>13. x.pc = "imported" /\ x.request = handler[h].request /\ x.next = 0
    BY <2>1, <2>6, Zenon
  <2>. QED BY <1>4, <2>5, <2>9, <2>10, <2>11, <2>12, <2>13, Zenon
<1>9. ASSUME NEW h \in Handlers, DeleteChunks(h) PROVE WholeInv'
  <2>1. PICK r : r = handler[h].request
    BY Zenon
  <2>2. /\ handler[h].pc = "delete" /\ HGoto(h, "insert") /\ UNCHANGED <<objects, version, answered>>
        /\ chunks' = [chunks EXCEPT ![TargetOf(r)] = {}]
    BY <1>9, <2>1, Zenon DEF DeleteChunks, At, Target, Req
  <2>3. /\ 0 < r.size /\ TargetOf(r) \in Targets /\ Moves(h, "insert", 0)
        /\ answered[TargetOf(r)] = NoRequest
    BY <1>1, <1>3, <2>1, <2>2, MoveLemma, Zenon
  <2>4. \A t \in Targets : chunks'[t] = IF t = TargetOf(r) THEN {} ELSE chunks[t]
    BY <1>1, <2>2, Zenon
  <2>5. PICK x : x = [pc |-> "insert", request |-> handler[h].request, next |-> 0]
    BY Zenon
  <2>6. x.pc = "insert" /\ x.request = r /\ x.next = 0
    BY <2>1, <2>5, Zenon
  <2>7. version[TargetOf(r)] = r.version
    BY <1>1, <2>1, <2>2, ZenonT(30) DEF Stage
  <2>8. chunks'[TargetOf(r)] = Rows(r, 0)
    BY <2>3, <2>4 DEF Rows
  <2>9. Stage(x)'
    <3>1. Put(r, r.size)'
      BY <1>6, <2>1, <2>2, Zenon DEF Put
    <3>2. /\ answered'[TargetOf(r)] = NoRequest /\ version'[TargetOf(r)] = r.version
          /\ chunks'[TargetOf(r)] = Rows(r, 0)'
      BY <2>2, <2>3, <2>7, <2>8, Zenon DEF Rows
    <3>. QED BY <2>6, <3>1, <3>2, Zenon DEF Stage, Late
  <2>. QED BY <1>1, <1>4, <2>1, <2>2, <2>3, <2>4, <2>5, <2>6, <2>9, SMTT(20)
<1>10. ASSUME NEW h \in Handlers, InsertChunk(h) PROVE WholeInv'
  <2>1. PICK r, n : r = handler[h].request /\ n = handler[h].next
    BY Zenon
  <2>2. handler[h].pc = "insert" /\ UNCHANGED <<objects, version, answered>>
    BY <1>10, Zenon DEF InsertChunk, At
  <2>3. /\ r \in Requests /\ n \in Nat /\ n < r.size /\ r.size \in Nat /\ 0 < r.size
        /\ TargetOf(r) \in Targets /\ answered[TargetOf(r)] = NoRequest
    BY <1>3, <2>1, <2>2, Zenon
  <2>4. version[TargetOf(r)] = r.version /\ chunks[TargetOf(r)] = Rows(r, n)
    BY <1>1, <2>1, <2>2, Zenon DEF Stage
  <2>5. CASE HGoto(h, "idle") /\ UNCHANGED chunks
    <3>1. Moves(h, "idle", 0)
      BY <1>1, <2>5, MoveLemma, Zenon
    <3>2. PICK x : x = [pc |-> "idle", request |-> handler[h].request, next |-> 0]
      BY Zenon
    <3>3. x.pc = "idle" /\ x.request = handler[h].request /\ x.next = 0
      BY <3>2, Zenon
    <3>. QED BY <1>1, <1>4, <2>1, <2>2, <2>3, <2>5, <3>1, <3>2, <3>3, Zenon
  <2>6. CASE chunks' = [chunks EXCEPT ![TargetOf(r)] = @ \cup {Row(r, n)}] /\ HNext(h, "imported")
    <3>1. PICK m \in Nat : m = n + 1
      BY <2>3
    <3>2. \A t \in Targets : chunks'[t] = IF t = TargetOf(r) THEN chunks[t] \cup {Row(r, n)} ELSE chunks[t]
      BY <1>1, <2>6, Zenon
    <3>3. Rows(r, m) = Rows(r, n) \cup {Row(r, n)}
      <4>1. 0 .. (m - 1) = 0 .. (n - 1) \cup {n}
        BY <2>3, <3>1
      <4>. QED BY <4>1, Zenon DEF Rows
    <3>4. chunks'[TargetOf(r)] = Rows(r, m)
      BY <2>3, <2>4, <3>2, <3>3, Zenon
    <3>. /\ handler[h].pc # "idle" /\ UNCHANGED answered /\ version' = [t \in Targets |-> version'[t]]
         /\ \A t \in Targets : t # TargetOf(handler[h].request) => version'[t] = version[t] /\ chunks'[t] = chunks[t]
         /\ \A k \in Keys : k.target # TargetOf(handler[h].request) => objects'[k] = objects[k]
      BY <1>1, <2>1, <2>2, <3>2, Zenon
    <3>5. CASE m < r.size /\ Moves(h, "insert", m)
      <4>1. PICK x : x = [pc |-> "insert", request |-> handler[h].request, next |-> m]
        BY ZenonT(30)
      <4>2. x.pc = "insert" /\ x.request = r /\ x.next = m
        BY <2>1, <4>1, Zenon
      <4>3. Stage(x)'
        BY <1>6, <2>1, <2>2, <2>3, <2>4, <3>4, <4>2 DEF Stage, Put, Late, Rows
      <4>. QED BY <1>4, <2>1, <3>5, <4>1, <4>2, <4>3, Zenon
    <3>6. CASE ~(m < r.size) /\ Moves(h, "imported", 0)
      <4>1. PICK x : x = [pc |-> "imported", request |-> handler[h].request, next |-> 0]
        BY Zenon
      <4>2. x.pc = "imported" /\ x.request = r /\ x.next = 0
        BY <2>1, <4>1, Zenon
      <4>3. m = r.size
        BY <2>3, <3>1, <3>6
      <4>4. Put(r, r.size)'
        BY <1>6, <2>1, <2>2, Zenon DEF Put
      <4>5. Whole(r)'
        BY <2>2, <2>4, <3>4, <4>3, <4>4, Zenon DEF Whole, Rows
      <4>6. Stage(x)'
        BY <2>2, <2>3, <4>2, <4>5, Zenon DEF Stage, Late
      <4>. QED BY <1>4, <2>1, <2>3, <3>6, <4>1, <4>2, <4>6
    <3>. QED BY <1>1, <2>1, <2>2, <2>6, <3>1, <3>5, <3>6, MoveLemma, Zenon
  <2>. QED BY <1>10, <2>1, <2>5, <2>6, ZenonT(30) DEF InsertChunk, Req, Target
<1>. QED BY <1>1, <1>2, <1>5, <1>7, <1>8, <1>9, <1>10, StepKinds, QuietWhole, Zenon

\* With one ingest at a time, once a request was answered rows and objects are exactly that request's,
\* whatever longer, shorter or broken request for the document came before (handleKnowledgeIngest).
THEOREM AnsweredIngestsAreWhole ==
  ASSUME RequestsAreWhole, OneHandler
  PROVE  Spec => []IngestIsWhole
<1>1. Init => WholeInv
  <2>. SUFFICES ASSUME Init PROVE WholeInv
    BY Zenon
  <2>1. /\ version = [t \in Targets |-> "none"] /\ answered = [t \in Targets |-> NoRequest]
        /\ handler = [h \in Handlers |-> NoHandler]
    BY Zenon DEF Init
  <2>2. NoHandler.pc = "idle"
    BY Zenon DEF NoHandler
  <2>3. \A h \in Handlers : Stage(handler[h])
    BY <2>1, <2>2, Zenon DEF Stage, Late
  <2>. QED BY <2>1, <2>3, Zenon DEF WholeInv, Answered
<1>2. WholeInv => IngestIsWhole
  BY Zenon DEF WholeInv, Answered, Whole, Put, Rows, IngestIsWhole
<1>. QED BY <1>1, <1>2, ObjectsInit, ObjectsStep, WholeStep, PTL DEF Spec

-----------------------------------------------------------------------------
(* Failed updates. *)

\* An identifier is that of one kind of target.
KindsAgree == \A r, s \in Requests : r.id = s.id => r.kind = s.kind

\* The job row of a target carries its kind.
HasJob(t) == jobs[t[2]].kind = t[1]
Queueing == {"queued", "send", "unsent", "unsentEvent"}

JobsInv ==
    /\ jobs = [j \in JobIds |-> jobs[j]]
    /\ \A j \in JobIds : jobs[j] = [kind |-> jobs[j].kind, status |-> jobs[j].status]

VisibleInv ==
    /\ breaks = 0 /\ JobsInv
    /\ \A h \in Handlers : handler[h].pc \in Queueing => HasJob(TargetOf(handler[h].request))
    /\ \A n \in DOMAIN msgs : HasJob(msgs[n].target)
    /\ \A n \in dead : <<"embedding_update_failed", msgs[n].target>> \in audit

\* A job row keeps its kind: only a request of the same kind writes it.
LEMMA JobsStay ==
  ASSUME HandlersInv, JobsInv, RequestsAreWhole, KindsAgree, [Next]_vars
  PROVE  /\ JobsInv' /\ audit \subseteq audit'
         /\ \A t \in Targets : HasJob(t) => HasJob(t)'
         /\ \A h \in Handlers : QueueJob(h) => HasJob(TargetOf(handler[h].request))'
<1>1. ASSUME UNCHANGED jobs PROVE JobsInv' /\ \A t \in Targets : HasJob(t) => HasJob(t)'
  BY <1>1, Zenon DEF JobsInv, HasJob
<1>2. ASSUME NEW t, NEW status, SetJob(t, status)
      PROVE  JobsInv' /\ \A s \in Targets : HasJob(s) => HasJob(s)'
  <2>1. PICK id : id = t[2]
    BY Zenon
  <2>2. jobs' = [jobs EXCEPT ![id].status = status]
    BY <1>2, <2>1, Zenon DEF SetJob
  <2>3. CASE id \notin JobIds
    <3>1. jobs' = jobs
      BY <2>2, <2>3, Zenon DEF JobsInv
    <3>. QED BY <1>1, <3>1, Zenon
  <2>4. CASE id \in JobIds
    <3>1. PICK kind, was : jobs[id] = [kind |-> kind, status |-> was]
      BY <2>4, Zenon DEF JobsInv
    <3>2. PICK new : new = [jobs[id] EXCEPT !.status = status]
      BY Zenon
    <3>3. new = [kind |-> kind, status |-> status] /\ new.kind = kind /\ jobs[id].kind = kind
      BY <3>1, <3>2
    <3>4. jobs' = [jobs EXCEPT ![id] = new]
      BY <2>2, <3>2, Zenon
    <3>5. /\ jobs' = [j \in JobIds |-> jobs'[j]]
          /\ \A j \in JobIds : jobs'[j] = IF j = id THEN new ELSE jobs[j]
      BY <3>4, Zenon DEF JobsInv
    <3>6. JobsInv'
      BY <3>3, <3>5 DEF JobsInv
    <3>7. \A s \in Targets : s[2] \in JobIds
      BY DEF Targets, JobIds, TargetOf
    <3>8. \A j \in JobIds : jobs'[j].kind = jobs[j].kind
      BY <3>3, <3>5, Zenon
    <3>. QED BY <3>6, <3>7, <3>8, Zenon DEF HasJob
  <2>. QED BY <2>3, <2>4, Zenon
<1>3. ASSUME NEW h \in Handlers, QueueJob(h)
      PROVE  /\ JobsInv' /\ HasJob(TargetOf(handler[h].request))'
             /\ \A t \in Targets : HasJob(t) => HasJob(t)'
  <2>1. PICK r : r = handler[h].request
    BY Zenon
  <2>2. r \in Requests
    BY <1>3, <2>1, Zenon DEF QueueJob, At, HandlersInv, Handled
  <2>3. PICK new : new = [kind |-> r.kind, status |-> "queued"]
    BY Zenon
  <2>4. jobs' = [jobs EXCEPT ![r.id] = new] /\ new.kind = r.kind /\ new = [kind |-> new.kind, status |-> new.status]
    BY <1>3, <2>1, <2>3, Zenon DEF QueueJob, Req
  <2>5. /\ jobs' = [j \in JobIds |-> jobs'[j]] /\ r.id \in JobIds
        /\ \A j \in JobIds : jobs'[j] = IF j = r.id THEN new ELSE jobs[j]
    BY <2>2, <2>4, KeyLemma, Zenon DEF JobsInv
  <2>6. JobsInv'
    BY <2>4, <2>5, Zenon DEF JobsInv
  <2>7. ASSUME NEW s \in Requests, HasJob(TargetOf(s)) \/ s = r PROVE HasJob(TargetOf(s))'
    <3>1. s.id \in JobIds /\ (s.id = r.id => s.kind = r.kind)
      BY <2>2, KeyLemma, Zenon DEF KindsAgree
    <3>2. TargetOf(s)[2] = s.id /\ TargetOf(s)[1] = s.kind
      BY Zenon DEF TargetOf
    <3>. QED BY <2>4, <2>5, <2>7, <3>1, <3>2, Zenon DEF HasJob
  <2>8. \A t \in Targets : HasJob(t) => HasJob(t)'
    BY <2>7, Zenon DEF Targets
  <2>9. HasJob(TargetOf(handler[h].request))'
    <3>1. PICK x : x = handler'[h] /\ x.request = r
      <4>1. Moves(h, "queued", 0)
        BY <1>3, MoveLemma, Zenon DEF QueueJob
      <4>2. handler[h].pc # "idle" /\ 0 < handler[h].request.size
        <5>1. handler[h].pc = "job"
          BY <1>3, Zenon DEF QueueJob, At
        <5>2. handler[h].request.size \in Nat \ {0}
          BY <2>1, <2>2, Zenon DEF RequestsAreWhole
        <5>. QED BY <5>1, <5>2, SMTT(20)
      <4>3. handler'[h] = [pc |-> "queued", request |-> handler[h].request, next |-> 0]
        BY <4>1, <4>2, MovedLemma
      <4>. QED BY <2>1, <4>3, Zenon
    <3>2. HasJob(TargetOf(r))'
      BY <2>2, <2>7, Zenon
    <3>. QED BY <3>1, <3>2, Zenon DEF HasJob
  <2>. QED BY <2>6, <2>8, <2>9, Zenon
<1>4. \/ UNCHANGED jobs
      \/ \E t, status : SetJob(t, status)
      \/ \E h \in Handlers : QueueJob(h)
  <2>1. ASSUME NEW h \in Handlers,
               \/ \E r \in Requests : Receive(h, r)
               \/ PutObject(h) \/ WriteDocument(h) \/ WriteMemory(h) \/ DeleteChunks(h) \/ InsertChunk(h)
               \/ WriteIngestionAudit(h) \/ QueuedEvent(h) \/ Send(h) \/ SendFails(h)
               \/ UnsentEvent(h) \/ HandlerBreaks(h)
        PROVE  UNCHANGED jobs
    BY <2>1, Zenon DEF Receive, PutObject, WriteDocument, WriteMemory, DeleteChunks, InsertChunk,
       WriteIngestionAudit, QueuedEvent, Send, SendFails, UnsentEvent, HandlerBreaks, ledger
  <2>2. ASSUME NEW c \in Consumers, SetRunning(c) \/ SetSucceeded(c) \/ SetFailed(c)
        PROVE  \E t, status : SetJob(t, status)
    BY <2>2, Zenon DEF SetRunning, SetSucceeded, SetFailed
  <2>3. ASSUME NEW c \in Consumers,
               \/ \E n \in queue : Deliver(c, n)
               \/ Throws(c) \/ DeliveryBreaks(c) \/ ReadJob(c) \/ SelectRows(c) \/ Embed(c)
               \/ Upsert(c) \/ SucceededEvent(c) \/ FailedEvent(c)
        PROVE  UNCHANGED jobs
    BY <2>3, Zenon DEF Deliver, Throws, DeliveryBreaks, ReadJob, SelectRows, Embed, Upsert,
       SucceededEvent, FailedEvent, ledger
  <2>4. CASE Retrieve \/ QueryVectorize \/ (\E s \in Asked : ReadScope(s)) \/ UNCHANGED vars
    BY <2>4, Zenon DEF Retrieve, QueryVectorize, ReadScope, vars, ledger
  <2>5. ASSUME NEW h \in Handlers, Unsent(h) PROVE \E t, status : SetJob(t, status)
    BY <2>5, ZenonT(30) DEF Unsent
  <2>. QED BY <2>1, <2>2, <2>3, <2>4, <2>5, Zenon DEF Next, Ingest, Process
<1>5. audit \subseteq audit'
  BY ZenonT(30) DEF Next, Ingest, Process, Receive, PutObject, WriteDocument, WriteMemory, DeleteChunks,
     InsertChunk, WriteIngestionAudit, QueueJob, QueuedEvent, Send, SendFails, Unsent, UnsentEvent,
     HandlerBreaks, Deliver, Throws, DeliveryBreaks, ReadJob, SetRunning, SelectRows, Embed,
     Upsert, SetSucceeded, SucceededEvent, SetFailed, FailedEvent, Retrieve, QueryVectorize,
     ReadScope, vars, ledger
<1>6. JobsInv' /\ \A t \in Targets : HasJob(t) => HasJob(t)'
  BY <1>1, <1>2, <1>3, <1>4, Zenon
<1>. QED BY <1>3, <1>5, <1>6, Zenon

\* A request that has its job in the queue behind it was there before, or has just written it.
LEMMA QueueingLemma ==
  ASSUME HandlersInv, RequestsAreWhole, [Next]_vars, NEW h \in Handlers, handler'[h].pc \in Queueing
  PROVE  QueueJob(h) \/ (handler[h].pc \in Queueing /\ handler'[h].request = handler[h].request)
<1>1. ASSUME NEW g \in Handlers, NEW pc, handler[g].pc # "idle", HGoto(g, pc)
      PROVE  /\ handler'[g].pc = pc /\ handler'[g].request = handler[g].request
             /\ \A f \in Handlers : f # g => handler'[f] = handler[f]
  <2>1. 0 < handler[g].request.size
    BY <1>1, SMTT(20) DEF HandlersInv, Handled, RequestsAreWhole
  <2>2. /\ handler'[g] = [pc |-> pc, request |-> handler[g].request, next |-> 0]
        /\ \A f \in Handlers : f # g => handler'[f] = handler[f]
    BY <1>1, <2>1, MoveLemma, MovedLemma, Zenon
  <2>. QED BY <2>2
<1>2. ASSUME handler'[h] = handler[h] PROVE handler[h].pc \in Queueing /\ handler'[h].request = handler[h].request
  BY <1>2, Zenon
<1>3. ASSUME NEW g \in Handlers,
             \/ \E r \in Requests : Receive(g, r)
             \/ PutObject(g) \/ WriteDocument(g) \/ WriteMemory(g) \/ DeleteChunks(g) \/ InsertChunk(g)
      PROVE  handler'[h] = handler[h]
  <2>1. CASE g # h
    BY <1>3, <2>1, Zenon DEF Receive, PutObject, WriteDocument, WriteMemory, DeleteChunks, InsertChunk,
       HGoto, HNext, HandlersInv
  <2>2. CASE g = h
    <3>1. ASSUME NEW r \in Requests, Receive(h, r) PROVE handler'[h].pc = "objects"
      BY <3>1, Zenon DEF Receive, HandlersInv
    <3>2. ASSUME NEW pc \in {"document", "delete", "insert", "imported", "idle"}, handler[h].pc # "idle", HGoto(h, pc)
          PROVE  handler'[h].pc = pc
      BY <1>1, <3>2, Zenon
    <3>3. ASSUME NEW pc \in {"document", "imported"}, handler[h].pc # "idle", HNext(h, pc)
          PROVE  handler'[h].pc \in {pc, handler[h].pc}
      <4>1. CASE HGoto(h, pc)
        BY <3>2, <3>3, <4>1, Zenon
      <4>2. CASE handler' = [handler EXCEPT ![h].next = @ + 1]
        BY <4>2, SMTT(20) DEF HandlersInv, Handled
      <4>. QED BY <3>3, <4>1, <4>2, Zenon DEF HNext
    <3>4. handler'[h].pc \in {"objects", "document", "delete", "insert", "imported", "idle"}
      BY <1>3, <2>2, <3>1, <3>2, <3>3, ZenonT(30) DEF PutObject, WriteDocument, WriteMemory, DeleteChunks,
         InsertChunk, At
    <3>. QED BY <3>4, Zenon DEF Queueing
  <2>. QED BY <2>1, <2>2, Zenon
<1>4. ASSUME NEW g \in Handlers, QueueJob(g) \/ QueuedEvent(g) \/ SendFails(g) \/ Unsent(g)
      PROVE  \/ handler'[h] = handler[h]
             \/ QueueJob(h)
             \/ handler[h].pc \in Queueing /\ handler'[h].request = handler[h].request
  <2>1. PICK pc : HGoto(g, pc) /\ handler[g].pc # "idle" /\ (QueueJob(g) \/ handler[g].pc \in Queueing)
    BY <1>4, ZenonT(30) DEF QueueJob, QueuedEvent, SendFails, Unsent, At, Queueing
  <2>2. handler'[g].request = handler[g].request /\ \A f \in Handlers : f # g => handler'[f] = handler[f]
    BY <1>1, <2>1, ZenonT(30)
  <2>. QED BY <2>1, <2>2, Zenon
<1>5. ASSUME NEW g \in Handlers,
             WriteIngestionAudit(g) \/ Send(g) \/ UnsentEvent(g) \/ HandlerBreaks(g)
      PROVE  handler'[h] = handler[h]
  <2>1. PICK pc \in {"job", "idle"} : HGoto(g, pc) /\ handler[g].pc # "idle"
    BY <1>5, Zenon DEF WriteIngestionAudit, Send, UnsentEvent, HandlerBreaks, Answer, At
  <2>2. handler'[g].pc = pc /\ \A f \in Handlers : f # g => handler'[f] = handler[f]
    BY <1>1, <2>1, Zenon
  <2>. QED BY <2>1, <2>2, Zenon DEF Queueing
<1>6. ASSUME NEW c \in Consumers,
             \/ \E n \in queue : Deliver(c, n)
             \/ Process(c) \/ Throws(c) \/ DeliveryBreaks(c)
      PROVE  UNCHANGED handler
  BY <1>6, Zenon DEF Deliver, Process, Throws, DeliveryBreaks, ReadJob, SetRunning, SelectRows,
     Embed, Upsert, SetSucceeded, SucceededEvent, SetFailed, FailedEvent
<1>7. CASE Retrieve \/ QueryVectorize \/ (\E s \in Asked : ReadScope(s)) \/ UNCHANGED vars
  <2>1. UNCHANGED handler
    BY <1>7, ZenonT(30) DEF Retrieve, QueryVectorize, ReadScope, vars
  <2>. QED BY <1>2, <2>1, Zenon
<1>. QED BY <1>2, <1>3, <1>4, <1>5, <1>6, <1>7, Zenon DEF Next, Ingest

\* Messages have jobs, and die only behind a failed event.
LEMMA VisibleStep ==
  ASSUME ObjectsInv, DeliveriesInv, VisibleInv, RequestsAreWhole, KindsAgree, MaxBreaks = 0, [Next]_vars
  PROVE  VisibleInv'
<1>1. HandlersInv /\ JobsInv /\ breaks = 0 /\ ~(breaks < MaxBreaks) /\ msgs \in Seq(Message) /\ dead \subseteq DOMAIN msgs
  BY DEF ObjectsInv, VisibleInv, DeliveriesInv
<1>2. /\ JobsInv' /\ audit \subseteq audit'
      /\ \A t \in Targets : HasJob(t) => HasJob(t)'
      /\ \A h \in Handlers : QueueJob(h) => HasJob(TargetOf(handler[h].request))'
  BY <1>1, JobsStay, Zenon
<1>3. /\ DeliveriesInv'
      /\ \A n \in DOMAIN msgs : n \in DOMAIN msgs' /\ msgs'[n].target = msgs[n].target
  BY DeliveriesStep, Zenon
<1>4. breaks' = 0
  BY <1>1, ZenonT(30) DEF Next, Ingest, Process, Receive, PutObject, WriteDocument, WriteMemory, DeleteChunks,
     InsertChunk, WriteIngestionAudit, QueueJob, QueuedEvent, Send, SendFails, Unsent, UnsentEvent,
     HandlerBreaks, Deliver, Throws, DeliveryBreaks, ReadJob, SetRunning, SelectRows, Embed,
     Upsert, SetSucceeded, SucceededEvent, SetFailed, FailedEvent, Retrieve, QueryVectorize,
     ReadScope, vars
<1>5. ASSUME NEW h \in Handlers, handler'[h].pc \in Queueing PROVE HasJob(TargetOf(handler[h].request))'
  <2>1. CASE QueueJob(h)
    BY <1>2, <2>1, Zenon
  <2>2. CASE handler[h].pc \in Queueing /\ handler'[h].request = handler[h].request
    <3>1. PICK t : t = TargetOf(handler[h].request) /\ HasJob(t)
      BY <2>2, Zenon DEF VisibleInv
    <3>2. handler[h].request \in Requests
      BY <1>1, <2>2, Zenon DEF HandlersInv, Handled, Queueing
    <3>3. t \in Targets
      BY <3>1, <3>2, KeyLemma, Zenon
    <3>4. HasJob(t)'
      BY <1>2, <3>1, <3>3, Zenon
    <3>. QED BY <2>2, <3>1, <3>4, Zenon DEF HasJob
  <2>. QED BY <1>1, <1>5, <2>1, <2>2, QueueingLemma, Zenon
\* A message is sent for a job.
<1>6. ASSUME NEW n \in DOMAIN msgs' PROVE HasJob(msgs[n].target)'
  <2>1. CASE n \in DOMAIN msgs
    <3>1. PICK t : t = msgs[n].target /\ HasJob(t)
      BY <2>1, Zenon DEF VisibleInv
    <3>2. t \in Targets
      <4>1. msgs[n] \in Message
        BY <1>1, <2>1
      <4>. QED BY <3>1, <4>1, Zenon DEF Message
    <3>3. HasJob(t)' /\ msgs'[n].target = t
      BY <1>2, <1>3, <2>1, <3>1, <3>2, Zenon
    <3>. QED BY <3>3, Zenon DEF HasJob
  <2>2. CASE n \notin DOMAIN msgs
    <3>1. \/ \E h \in Handlers : Send(h)
          \/ \E c \in Consumers : \E k \in queue : Deliver(c, k)
          \/ UNCHANGED msgs
      BY ZenonT(30) DEF Next, Ingest, Process, Receive, PutObject, WriteDocument, WriteMemory, DeleteChunks,
         InsertChunk, WriteIngestionAudit, QueueJob, QueuedEvent, SendFails, Unsent, UnsentEvent,
         HandlerBreaks, Throws, DeliveryBreaks, ReadJob, SetRunning, SelectRows, Embed,
         Upsert, SetSucceeded, SucceededEvent, SetFailed, FailedEvent, Retrieve, QueryVectorize,
         ReadScope, vars, mail, Ack, Return
    <3>2. ASSUME NEW c \in Consumers, NEW k \in queue, Deliver(c, k) PROVE DOMAIN msgs' = DOMAIN msgs
      BY <3>2, Zenon DEF Deliver
    <3>3. PICK h \in Handlers : Send(h)
      BY <2>2, <3>1, <3>2, Zenon
    <3>4. PICK m : m = [target |-> TargetOf(handler[h].request), deliveries |-> 0]
      BY ZenonT(30)
    <3>5. msgs' = Append(msgs, m) /\ handler[h].pc = "send" /\ UNCHANGED jobs
      BY <3>3, <3>4, Zenon DEF Send, Target, Req, At, ledger
    <3>6. msgs'[n] = m
      BY <1>1, <2>2, <3>5
    <3>7. PICK t : t = TargetOf(handler[h].request) /\ HasJob(t)
      BY <3>5, Zenon DEF VisibleInv, Queueing
    <3>8. msgs'[n].target = t
      BY <3>4, <3>6, <3>7
    <3>. QED BY <3>5, <3>7, <3>8, Zenon DEF HasJob
  <2>. QED BY <2>1, <2>2, Zenon
\* A message dies only behind a failed event: its job is there, and nothing breaks off.
<1>7. \A n \in dead' : n \in dead \/ <<"embedding_update_failed", msgs[n].target>> \in audit'
  <2>1. ASSUME NEW c \in Consumers, FailedEvent(c)
        PROVE  \A n \in dead' : n \in dead \/ <<"embedding_update_failed", msgs[n].target>> \in audit'
    BY <2>1, Zenon DEF FailedEvent, Return, MsgTarget
  <2>2. ASSUME NEW c \in Consumers, ReadJob(c) PROVE UNCHANGED dead
    <3>1. consumer[c].pc = "read"
      BY <2>2, Zenon DEF ReadJob, CAt
    <3>2. consumer[c].msg \in DOMAIN msgs
      BY <3>1, Zenon DEF DeliveriesInv
    <3>3. HasJob(MsgTarget(c))
      BY <3>2, Zenon DEF VisibleInv, MsgTarget
    <3>. QED BY <2>2, <3>3, ZenonT(30) DEF ReadJob, HasJob, Ack, mail
  <2>3. ASSUME NEW c \in Consumers,
               \/ \E n \in queue : Deliver(c, n)
               \/ Throws(c) \/ DeliveryBreaks(c) \/ SetRunning(c) \/ SelectRows(c) \/ Embed(c)
               \/ Upsert(c) \/ SetSucceeded(c) \/ SucceededEvent(c) \/ SetFailed(c)
        PROVE  UNCHANGED dead
    BY <1>1, <2>3, Zenon DEF Deliver, Throws, DeliveryBreaks, SetRunning, SelectRows, Embed, Upsert,
       SetSucceeded, SucceededEvent, SetFailed, Ack, mail
  <2>4. UNCHANGED vars => UNCHANGED dead
    BY Zenon DEF vars, mail
  <2>5. CASE UNCHANGED dead
    BY <2>5, Zenon
  <2>. QED BY <2>1, <2>2, <2>3, <2>4, <2>5, OthersLeaveDeliveries, Zenon DEF Next, Process
<1>8. \A n \in dead' : <<"embedding_update_failed", msgs'[n].target>> \in audit'
  <2>1. \A n \in dead' : n \in DOMAIN msgs
    <3>1. \A n \in dead' : n \in dead \/ n \in queue
      BY ZenonT(30) DEF Next, Ingest, Process, Receive, PutObject, WriteDocument, WriteMemory, DeleteChunks,
         InsertChunk, WriteIngestionAudit, QueueJob, QueuedEvent, Send, SendFails, Unsent, UnsentEvent,
         HandlerBreaks, Deliver, Throws, DeliveryBreaks, ReadJob, SetRunning, SelectRows, Embed,
         Upsert, SetSucceeded, SucceededEvent, SetFailed, FailedEvent, Retrieve, QueryVectorize,
         ReadScope, vars, mail, Ack, Return
    <3>. QED BY <3>1, Zenon DEF DeliveriesInv
  <2>. QED BY <1>2, <1>3, <1>7, <2>1, Zenon DEF VisibleInv
<1>. QED BY <1>2, <1>4, <1>5, <1>6, <1>8, Zenon DEF VisibleInv

\* "Failed embedding updates remain visible": no update ends among the dead letters without a failed
\* event for its target, however often deliveries fail, overlap and come back, as long as no delivery
\* breaks off unmarked and identifiers are not shared between kinds (processEmbeddingIndexMessage,
\* markEmbeddingJobFailed).
THEOREM DeadUpdatesAreVisible ==
  ASSUME RequestsAreWhole, KindsAgree, MaxBreaks = 0
  PROVE  Spec => []FailedUpdatesAreVisible
<1>1. Init => VisibleInv
  <2>. SUFFICES ASSUME Init PROVE VisibleInv
    BY Zenon
  <2>1. /\ jobs = [j \in JobIds |-> NoJob] /\ msgs = <<>> /\ dead = {} /\ breaks = 0
        /\ handler = [h \in Handlers |-> NoHandler]
    BY Zenon DEF Init
  <2>2. NoHandler.pc = "idle" /\ NoJob = [kind |-> NoJob.kind, status |-> NoJob.status]
    BY Zenon DEF NoHandler, NoJob
  <2>. QED BY <2>1, <2>2 DEF VisibleInv, JobsInv, Queueing
<1>2. VisibleInv => FailedUpdatesAreVisible
  BY Zenon DEF VisibleInv, FailedUpdatesAreVisible
<1>. QED BY <1>1, <1>2, ObjectsInit, ObjectsStep, DeliveriesInit, DeliveriesStep, VisibleStep, PTL DEF Spec

-----------------------------------------------------------------------------
(* Tables.  A table is a sequence of rows; what a row is, its owner says.  *)

IsTable(q) == \E S : q \in Seq(S)

\* An inserted row.
LEMMA Inserted ==
  ASSUME NEW q, IsTable(q), NEW row
  PROVE  /\ IsTable(Append(q, row)) /\ DOMAIN Append(q, row) = DOMAIN q \cup {Len(q) + 1}
         /\ Append(q, row)[Len(q) + 1] = row /\ Len(q) + 1 \notin DOMAIN q
         /\ \A i \in DOMAIN q : Append(q, row)[i] = q[i]
<1>1. PICK S : q \in Seq(S)
  BY Zenon DEF IsTable
<1>2. q \in Seq(S \cup {row})
  BY <1>1
<1>3. /\ Append(q, row) \in Seq(S \cup {row}) /\ DOMAIN Append(q, row) = DOMAIN q \cup {Len(q) + 1}
      /\ Append(q, row)[Len(q) + 1] = row /\ Len(q) + 1 \notin DOMAIN q
      /\ \A i \in DOMAIN q : Append(q, row)[i] = q[i]
  BY <1>2
<1>. QED BY <1>3, Zenon DEF IsTable

\* An updated row.
LEMMA Updated ==
  ASSUME NEW q, IsTable(q), NEW row, NEW k \in DOMAIN q
  PROVE  /\ IsTable([q EXCEPT ![k] = row]) /\ DOMAIN [q EXCEPT ![k] = row] = DOMAIN q
         /\ [q EXCEPT ![k] = row][k] = row
         /\ \A i \in DOMAIN q : i # k => [q EXCEPT ![k] = row][i] = q[i]
<1>1. PICK S : q \in Seq(S)
  BY Zenon DEF IsTable
<1>2. q \in Seq(S \cup {row})
  BY <1>1
<1>3. [q EXCEPT ![k] = row] \in Seq(S \cup {row})
  BY <1>2
<1>. QED BY <1>3, Zenon DEF IsTable

\* Rows updated all at once.
LEMMA Mapped ==
  ASSUME NEW q, IsTable(q), NEW p, p = [i \in DOMAIN q |-> p[i]]
  PROVE  IsTable(p) /\ DOMAIN p = DOMAIN q /\ Len(p) = Len(q)
<1>1. PICK S : q \in Seq(S)
  BY Zenon DEF IsTable
<1>2. DOMAIN q = 1..Len(q) /\ Len(q) \in Nat
  BY <1>1
<1>3. p \in Seq({p[i] : i \in DOMAIN q}) /\ Len(p) = Len(q)
  BY <1>2
<1>. QED BY <1>3, Zenon DEF IsTable

\* Rows added all at once.
LEMMA Joined ==
  ASSUME NEW q, IsTable(q), NEW p, IsTable(p)
  PROVE  /\ IsTable(q \o p) /\ Len(q) \in Nat
         /\ \A i \in DOMAIN q : i \in DOMAIN (q \o p) /\ (q \o p)[i] = q[i]
         /\ \A i \in DOMAIN (q \o p) : i \notin DOMAIN q => i - Len(q) \in DOMAIN p /\ (q \o p)[i] = p[i - Len(q)]
         /\ \A i \in DOMAIN (q \o p) : i \in Int
<1>1. PICK S, T : q \in Seq(S) /\ p \in Seq(T)
  BY Zenon DEF IsTable
<1>2. q \in Seq(S \cup T) /\ p \in Seq(S \cup T)
  BY <1>1
<1>3. q \o p \in Seq(S \cup T)
  BY <1>2
<1>4. /\ Len(q) \in Nat
      /\ \A i \in DOMAIN q : i \in DOMAIN (q \o p) /\ (q \o p)[i] = q[i]
      /\ \A i \in DOMAIN (q \o p) : i \notin DOMAIN q => i - Len(q) \in DOMAIN p /\ (q \o p)[i] = p[i - Len(q)]
      /\ \A i \in DOMAIN (q \o p) : i \in Int
  BY <1>2
<1>. QED BY <1>3, <1>4, Zenon DEF IsTable

\* The first n numbers.
LEMMA Numbers ==
  ASSUME NEW n \in Nat
  PROVE  IsFiniteSet(1..n) /\ Cardinality(1..n) = n
BY FS_Interval

-----------------------------------------------------------------------------
(* CARAT imports and supplier orders.                                      *)

CONSTANTS Positions, SupplierName, Normalized, Pseudo, Threads, MaxRequests, MaxDocs

VARIABLES docs, imports, sel, orders, thread, served, dirty, done

Carat == INSTANCE CaratOrders

DocumentRow(d) == d = [carat |-> d.carat, status |-> d.status, current |-> d.current, object |-> d.object]
OrderRow(o) ==
    o = [imp |-> o.imp, supplier |-> o.supplier, status |-> o.status, positions |-> o.positions, count |-> o.count]

\* A document has its row of imports and of selections; an order comes from an import that was read.
TablesHold ==
    /\ IsTable(docs) /\ IsTable(imports) /\ IsTable(sel) /\ IsTable(orders)
    /\ DOMAIN imports = DOMAIN docs /\ DOMAIN sel = DOMAIN docs
    /\ \A d \in DOMAIN docs : DocumentRow(docs[d])
    /\ \A o \in DOMAIN orders : /\ OrderRow(orders[o])
                                /\ orders[o].imp \in DOMAIN docs /\ imports[orders[o].imp] # "none"

\* What a request has established: the object its row will name, and the import it works on.
RequestHolds(r) ==
    /\ r = [pc |-> r.pc, id |-> r.id, ask |-> r.ask, act |-> r.act, carat |-> r.carat, key |-> r.key]
    /\ r.pc = "row" => r.key \in objects
    /\ r.pc \in {"sync", "mark"} => r.id \in DOMAIN docs /\ imports[r.id] # "none"
    /\ r.pc = "analysis" => r.id \in DOMAIN docs /\ imports[r.id] = "none"

\* No two requests analyse one document.
ThreadsHold ==
    /\ thread = [t \in Threads |-> thread[t]] /\ \A t \in Threads : RequestHolds(thread[t])
    /\ \A t, u \in Threads : t # u /\ thread[t].pc = "analysis" /\ thread[u].pc = "analysis"
         => thread[t].id # thread[u].id

CaratInv ==
    /\ TablesHold /\ ThreadsHold
    /\ Carat!DocumentsHaveObjects /\ Carat!OneOrderPerSupplier /\ Carat!OrdersHoldSelectedOnly

\* Objects and documents stay, and an import that was read stays read.
Grows ==
    /\ objects \subseteq objects' /\ DOMAIN docs \subseteq DOMAIN docs'
    /\ \A d \in DOMAIN docs : imports[d] # "none" => imports'[d] # "none"

\* The request of t moves; the documents the others analyse are still to be read.
LEMMA RequestMoves ==
  ASSUME ThreadsHold, Grows, NEW t \in Threads, NEW q, thread' = [thread EXCEPT ![t] = q], RequestHolds(q)',
         \A u \in Threads : u # t /\ thread[u].pc = "analysis" =>
            /\ imports'[thread[u].id] = "none"
            /\ q.pc = "analysis" => q.id # thread[u].id
  PROVE  ThreadsHold'
<1>1. thread' = [u \in Threads |-> thread'[u]] /\ thread'[t] = q
      /\ \A u \in Threads : u # t => thread'[u] = thread[u]
  BY Zenon DEF ThreadsHold
<1>2. ASSUME NEW u \in Threads PROVE RequestHolds(thread[u])'
  <2>1. CASE u = t
    BY <1>1, <2>1, Zenon DEF RequestHolds
  <2>2. CASE u # t
    <3>1. PICK r : r = thread[u]
      BY Zenon
    <3>2. RequestHolds(r)
      BY <3>1, Zenon DEF ThreadsHold
    <3>3. r.pc = "analysis" => imports'[r.id] = "none"
      BY <2>2, <3>1, Zenon
    <3>4. RequestHolds(r)'
      BY <3>2, <3>3, Zenon DEF RequestHolds, Grows
    <3>5. thread'[u] = r
      BY <1>1, <2>2, <3>1, Zenon
    <3>. QED BY <3>4, <3>5, Zenon DEF RequestHolds
  <2>. QED BY <2>1, <2>2, Zenon
<1>3. ASSUME NEW u \in Threads, NEW v \in Threads, u # v, thread'[u].pc = "analysis", thread'[v].pc = "analysis"
      PROVE  thread'[u].id # thread'[v].id
  <2>1. CASE u = t
    BY <1>1, <1>3, <2>1, Zenon
  <2>2. CASE v = t
    BY <1>1, <1>3, <2>2, Zenon
  <2>3. CASE u # t /\ v # t
    BY <1>1, <1>3, <2>3, Zenon DEF ThreadsHold
  <2>. QED BY <2>1, <2>2, <2>3, Zenon
<1>. QED BY <1>1, <1>2, <1>3, Zenon DEF ThreadsHold

\* The usual case: no import changes its kind, and the request does not begin an analysis.
LEMMA RequestGoesOn ==
  ASSUME ThreadsHold, Grows, NEW t \in Threads, NEW q, thread' = [thread EXCEPT ![t] = q], RequestHolds(q)',
         q.pc # "analysis", \A d \in DOMAIN docs : imports[d] = "none" => imports'[d] = "none"
  PROVE  ThreadsHold'
<1>1. ASSUME NEW u \in Threads, u # t, thread[u].pc = "analysis" PROVE imports'[thread[u].id] = "none"
  BY <1>1, Zenon DEF ThreadsHold, RequestHolds
<1>. QED BY <1>1, RequestMoves, Zenon

\* A thread without a request has nothing to keep.
LEMMA IdleHolds ==
  /\ RequestHolds(Carat!Idle) /\ RequestHolds(Carat!Idle)' /\ Carat!Idle.pc # "analysis"
<1>1. PICK r : r = Carat!Idle
  BY Zenon
<1>2. /\ r = [pc |-> r.pc, id |-> r.id, ask |-> r.ask, act |-> r.act, carat |-> r.carat, key |-> r.key]
      /\ r.pc = "idle"
  BY <1>1, Zenon DEF Carat!Idle
<1>3. RequestHolds(r) /\ RequestHolds(r)' /\ r.pc # "analysis"
  BY <1>2, Zenon DEF RequestHolds
<1>. QED BY <1>1, <1>3, Zenon

\* The request is answered.
LEMMA RequestEnds ==
  ASSUME ThreadsHold, Grows, NEW t \in Threads, Carat!Finish(t),
         \A d \in DOMAIN docs : imports[d] = "none" => imports'[d] = "none"
  PROVE  ThreadsHold'
<1>1. thread' = [thread EXCEPT ![t] = Carat!Idle]
  BY Zenon DEF Carat!Finish
<1>. QED BY <1>1, IdleHolds, RequestGoesOn, Zenon

\* A step that leaves the tables alone.
LEMMA OnlyThreads ==
  ASSUME CaratInv, UNCHANGED <<docs, imports, sel, orders, dirty>>, objects \subseteq objects'
  PROVE  /\ Grows /\ (ThreadsHold' => CaratInv')
         /\ \A d \in DOMAIN docs : imports[d] = "none" => imports'[d] = "none"
<1>1. Grows
  BY Zenon DEF Grows
<1>2. TablesHold'
  BY Zenon DEF CaratInv, TablesHold
<1>3. Carat!DocumentsHaveObjects'
  BY Zenon DEF CaratInv, Carat!DocumentsHaveObjects
<1>4. Carat!OneOrderPerSupplier'
  BY Zenon DEF CaratInv, Carat!OneOrderPerSupplier
<1>5. Carat!OrdersHoldSelectedOnly'
  BY Zenon DEF CaratInv, Carat!OrdersHoldSelectedOnly, Carat!Orderable, Carat!Taken, Carat!SupplierOf
<1>. QED BY <1>1, <1>2, <1>3, <1>4, <1>5, Zenon DEF CaratInv

\* A request begins: it has established nothing yet.
LEMMA StartSteps ==
  ASSUME CaratInv, NEW t \in Threads
  PROVE  /\ \A carat, id, act : Carat!Upload(t, carat, id, act) => CaratInv'
         /\ \A d, ask, act : Carat!Select(t, d, ask, act) => CaratInv'
<1>1. ASSUME NEW q, Carat!Start(t, q), q.pc \in {"object", "select"},
             q = [pc |-> q.pc, id |-> q.id, ask |-> q.ask, act |-> q.act, carat |-> q.carat, key |-> q.key]
      PROVE  CaratInv'
  <2>1. UNCHANGED <<docs, imports, sel, orders, objects, dirty>> /\ thread' = [thread EXCEPT ![t] = q]
    BY <1>1, Zenon DEF Carat!Start
  <2>2. RequestHolds(q)' /\ q.pc # "analysis"
    BY <1>1, Zenon DEF RequestHolds
  <2>3. /\ Grows /\ (ThreadsHold' => CaratInv')
        /\ \A d \in DOMAIN docs : imports[d] = "none" => imports'[d] = "none"
    BY <2>1, OnlyThreads, Zenon
  <2>. QED BY <2>1, <2>2, <2>3, RequestGoesOn, Zenon DEF CaratInv
<1>2. ASSUME NEW carat, NEW id, NEW act, Carat!Upload(t, carat, id, act) PROVE CaratInv'
  <2>1. PICK q : q = [Carat!Idle EXCEPT !.pc = "object", !.carat = carat, !.id = id, !.act = act, !.key = served + 1]
    BY Zenon
  <2>2. /\ q = [pc |-> q.pc, id |-> q.id, ask |-> q.ask, act |-> q.act, carat |-> q.carat, key |-> q.key]
        /\ q.pc = "object"
    BY <2>1, Zenon DEF Carat!Idle
  <2>3. Carat!Start(t, q)
    BY <1>2, <2>1, Zenon DEF Carat!Upload
  <2>. QED BY <1>1, <2>2, <2>3, Zenon
<1>3. ASSUME NEW d, NEW ask, NEW act, Carat!Select(t, d, ask, act) PROVE CaratInv'
  <2>1. PICK q : q = [Carat!Idle EXCEPT !.pc = "select", !.id = d, !.ask = ask, !.act = act]
    BY Zenon
  <2>2. /\ q = [pc |-> q.pc, id |-> q.id, ask |-> q.ask, act |-> q.act, carat |-> q.carat, key |-> q.key]
        /\ q.pc = "select"
    BY <2>1, Zenon DEF Carat!Idle
  <2>3. Carat!Start(t, q)
    BY <1>3, <2>1, Zenon DEF Carat!Select
  <2>. QED BY <1>1, <2>2, <2>3, Zenon
<1>. QED BY <1>2, <1>3, Zenon

\* The object is stored before the row that names it.
LEMMA PutStep ==
  ASSUME CaratInv, NEW t \in Threads, Carat!PutObject(t)
  PROVE  CaratInv'
<1>1. PICK r : r = thread[t]
  BY Zenon
<1>2. RequestHolds(r) /\ ThreadsHold
  BY <1>1, Zenon DEF CaratInv, ThreadsHold
<1>3. /\ objects' = objects \cup {r.key} /\ thread' = [thread EXCEPT ![t].pc = "row"]
      /\ UNCHANGED <<docs, imports, sel, orders, dirty>>
  BY <1>1, Zenon DEF Carat!PutObject
<1>4. PICK q : q = [r EXCEPT !.pc = "row"]
  BY Zenon
<1>5. /\ q = [pc |-> q.pc, id |-> q.id, ask |-> q.ask, act |-> q.act, carat |-> q.carat, key |-> q.key]
      /\ q.pc = "row" /\ q.key = r.key
  BY <1>2, <1>4, Zenon DEF RequestHolds
<1>6. RequestHolds(q)' /\ q.pc # "analysis"
  BY <1>3, <1>5, Zenon DEF RequestHolds
<1>7. thread' = [thread EXCEPT ![t] = q]
  BY <1>1, <1>3, <1>4, Zenon
<1>8. /\ Grows /\ (ThreadsHold' => CaratInv')
      /\ \A d \in DOMAIN docs : imports[d] = "none" => imports'[d] = "none"
  BY <1>3, OnlyThreads, Zenon
<1>. QED BY <1>2, <1>6, <1>7, <1>8, RequestGoesOn, Zenon

\* A document loses its place: the object it names stays.
Marked(k, word) == [docs EXCEPT ![k].status = word, ![k].current = FALSE]

\* The other columns of the documents stay.
LEMMA DocumentsMarked ==
  ASSUME TablesHold, NEW k, NEW word
  PROVE  /\ IsTable(Marked(k, word)) /\ DOMAIN Marked(k, word) = DOMAIN docs /\ Len(Marked(k, word)) = Len(docs)
         /\ \A d \in DOMAIN docs : DocumentRow(Marked(k, word)[d]) /\ Marked(k, word)[d].object = docs[d].object
<1>. DEFINE p == Marked(k, word)
<1>1. PICK q : q = [docs[k] EXCEPT !.status = word, !.current = FALSE]
  BY Zenon
<1>2. p = [docs EXCEPT ![k] = [@ EXCEPT !.status = word, !.current = FALSE]]
  BY Zenon DEF Marked
<1>3. p = [docs EXCEPT ![k] = q]
  BY <1>1, <1>2, Zenon
<1>. HIDE DEF p
<1>4. \A d \in DOMAIN docs : p[d] = IF d = k THEN q ELSE docs[d]
  BY <1>3, Zenon
<1>7. p = [d \in DOMAIN docs |-> p[d]]
  BY <1>3, Zenon
<1>5. IsTable(p) /\ DOMAIN p = DOMAIN docs /\ Len(p) = Len(docs)
  BY <1>7, Mapped, Zenon DEF TablesHold
<1>6. ASSUME NEW d \in DOMAIN docs PROVE DocumentRow(p[d]) /\ p[d].object = docs[d].object
  <2>1. PICK a : a = docs[d]
    BY Zenon
  <2>2. DocumentRow(a)
    BY <2>1, Zenon DEF TablesHold
  <2>3. PICK b : b = [a EXCEPT !.status = word, !.current = FALSE]
    BY Zenon
  <2>4. DocumentRow(b) /\ b.object = a.object
    BY <2>2, <2>3, Zenon DEF DocumentRow
  <2>5. p[d] = a \/ p[d] = b
    BY <1>1, <1>4, <2>1, <2>3, Zenon
  <2>. QED BY <2>1, <2>2, <2>4, <2>5, Zenon
<1>. QED BY <1>5, <1>6, Zenon DEF p

\* An archived document keeps its object, its import and its orders.
LEMMA ArchiveStep ==
  ASSUME CaratInv, NEW k, Carat!ArchiveDocument(k)
  PROVE  CaratInv'
<1>1. docs' = Marked(k, "archived") /\ UNCHANGED <<imports, sel, orders, objects, thread, dirty>>
  BY Zenon DEF Carat!ArchiveDocument, Marked
<1>2. /\ IsTable(docs') /\ DOMAIN docs' = DOMAIN docs
      /\ \A d \in DOMAIN docs : DocumentRow(docs'[d]) /\ docs'[d].object = docs[d].object
  BY <1>1, DocumentsMarked, Zenon DEF CaratInv
<1>3. TablesHold'
  BY <1>1, <1>2, Zenon DEF CaratInv, TablesHold, DocumentRow, OrderRow
<1>4. ThreadsHold'
  BY <1>1, <1>2, Zenon DEF CaratInv, ThreadsHold, RequestHolds
<1>5. Carat!DocumentsHaveObjects'
  BY <1>1, <1>2, Zenon DEF CaratInv, Carat!DocumentsHaveObjects
<1>6. Carat!OneOrderPerSupplier'
  BY <1>1, Zenon DEF CaratInv, Carat!OneOrderPerSupplier
<1>7. Carat!OrdersHoldSelectedOnly'
  BY <1>1, Zenon DEF CaratInv, Carat!OrdersHoldSelectedOnly, Carat!Orderable, Carat!Taken, Carat!SupplierOf
<1>. QED BY <1>3, <1>4, <1>5, <1>6, <1>7, Zenon DEF CaratInv

\* The document row: it names the object of its request, and its number is new.
LEMMA InsertStep ==
  ASSUME CaratInv, NEW t \in Threads, Carat!InsertDocument(t)
  PROVE  CaratInv'
<1>. DEFINE old == Carat!Replacement(thread[t])
            new == Len(docs) + 1
<1>1. PICK r : r = thread[t]
  BY Zenon
<1>2. RequestHolds(r) /\ r.pc = "row" /\ r.key \in objects
  BY <1>1, Zenon DEF CaratInv, ThreadsHold, RequestHolds, Carat!InsertDocument
<1>3. PICK marked : marked = IF old = 0 THEN docs ELSE Marked(old, "replaced")
  BY Zenon
<1>4. PICK row : row = [carat |-> r.carat, status |-> "received", current |-> TRUE, object |-> r.key]
  BY Zenon
<1>5. PICK none : none = [p \in Positions |-> "none"]
  BY Zenon
<1>6. PICK q : q = [r EXCEPT !.pc = "analysis", !.id = new]
  BY Zenon
<1>7. /\ docs' = Append(marked, row)
      /\ orders' = [o \in DOMAIN orders |-> IF old # 0 /\ imports[old] # "none" /\ orders[o].imp = old
                                            THEN [orders[o] EXCEPT !.status = "canceled"] ELSE orders[o]]
      /\ imports' = Append(imports, "none")
      /\ sel' = Append(sel, none)
      /\ thread' = [thread EXCEPT ![t] = IF r.carat THEN [@ EXCEPT !.pc = "analysis", !.id = new] ELSE Carat!Idle]
      /\ UNCHANGED <<objects, dirty>>
  BY <1>1, <1>3, <1>4, <1>5, Zenon DEF Carat!InsertDocument, Marked
<1>8. /\ IsTable(marked) /\ DOMAIN marked = DOMAIN docs /\ Len(marked) = Len(docs)
      /\ \A d \in DOMAIN docs : DocumentRow(marked[d]) /\ marked[d].object = docs[d].object
  <2>1. CASE old = 0
    BY <1>3, <2>1, Zenon DEF CaratInv, TablesHold
  <2>2. CASE old # 0
    BY <1>3, <2>2, DocumentsMarked, Zenon DEF CaratInv
  <2>. QED BY <2>1, <2>2, Zenon
<1>9. Len(imports) = Len(docs) /\ Len(sel) = Len(docs)
  <2>1. IsTable(docs) /\ IsTable(imports) /\ IsTable(sel) /\ DOMAIN imports = DOMAIN docs /\ DOMAIN sel = DOMAIN docs
    BY Zenon DEF CaratInv, TablesHold
  <2>2. PICK S, T, U : docs \in Seq(S) /\ imports \in Seq(T) /\ sel \in Seq(U)
    BY <2>1, Zenon DEF IsTable
  <2>. QED BY <2>1, <2>2
<1>10. /\ IsTable(docs') /\ DOMAIN docs' = DOMAIN docs \cup {new} /\ docs'[new] = row /\ new \notin DOMAIN docs
       /\ \A d \in DOMAIN docs : docs'[d] = marked[d]
  BY <1>7, <1>8, Inserted
<1>11. /\ IsTable(imports') /\ DOMAIN imports' = DOMAIN imports \cup {new} /\ imports'[new] = "none"
       /\ \A d \in DOMAIN imports : imports'[d] = imports[d]
  BY <1>7, <1>9, Inserted DEF CaratInv, TablesHold
<1>12. /\ IsTable(sel') /\ DOMAIN sel' = DOMAIN sel \cup {new}
       /\ \A d \in DOMAIN sel : sel'[d] = sel[d]
  BY <1>7, <1>9, Inserted DEF CaratInv, TablesHold
<1>13. /\ IsTable(orders') /\ DOMAIN orders' = DOMAIN orders
       /\ \A o \in DOMAIN orders : /\ OrderRow(orders'[o]) /\ orders'[o].imp = orders[o].imp
                                   /\ orders'[o].supplier = orders[o].supplier
                                   /\ orders'[o].positions = orders[o].positions
  <2>1. orders' = [o \in DOMAIN orders |-> orders'[o]]
    BY <1>7, Zenon
  <2>2. IsTable(orders') /\ DOMAIN orders' = DOMAIN orders
    BY <2>1, Mapped, Zenon DEF CaratInv, TablesHold
  <2>3. ASSUME NEW o \in DOMAIN orders
        PROVE  /\ OrderRow(orders'[o]) /\ orders'[o].imp = orders[o].imp
               /\ orders'[o].supplier = orders[o].supplier
               /\ orders'[o].positions = orders[o].positions
    <3>1. PICK a : a = orders[o]
      BY Zenon
    <3>2. OrderRow(a)
      BY <3>1, Zenon DEF CaratInv, TablesHold
    <3>3. PICK b : b = [a EXCEPT !.status = "canceled"]
      BY Zenon
    <3>4. OrderRow(b) /\ b.imp = a.imp /\ b.supplier = a.supplier /\ b.positions = a.positions
      BY <3>2, <3>3, Zenon DEF OrderRow
    <3>5. orders'[o] = a \/ orders'[o] = b
      BY <1>7, <3>1, <3>3, Zenon
    <3>. QED BY <3>1, <3>2, <3>4, <3>5, Zenon
  <2>. QED BY <2>2, <2>3, Zenon
<1>14. TablesHold'
  <2>1. DocumentRow(row)
    BY <1>4, Zenon DEF DocumentRow
  <2>2. \A d \in DOMAIN docs' : DocumentRow(docs'[d])
    BY <2>1, <1>8, <1>10, Zenon
  <2>3. \A o \in DOMAIN orders' : /\ OrderRow(orders'[o])
                                  /\ orders'[o].imp \in DOMAIN docs' /\ imports'[orders'[o].imp] # "none"
    BY <1>10, <1>11, <1>13, Zenon DEF CaratInv, TablesHold
  <2>4. IsTable(docs') /\ IsTable(imports') /\ IsTable(sel') /\ IsTable(orders')
        /\ DOMAIN imports' = DOMAIN docs' /\ DOMAIN sel' = DOMAIN docs'
    BY <1>10, <1>11, <1>12, <1>13, Zenon DEF CaratInv, TablesHold
  <2>. QED BY <2>2, <2>3, <2>4, Zenon DEF TablesHold, DocumentRow, OrderRow
<1>15. ThreadsHold'
  <2>1. Grows /\ \A d \in DOMAIN docs : imports[d] = "none" => imports'[d] = "none"
    BY <1>7, <1>10, <1>11, Zenon DEF Grows, CaratInv, TablesHold
  <2>2. CASE r.carat
    <3>1. thread' = [thread EXCEPT ![t] = q]
      BY <1>1, <1>6, <1>7, <2>2, Zenon
    <3>2. /\ q = [pc |-> q.pc, id |-> q.id, ask |-> q.ask, act |-> q.act, carat |-> q.carat, key |-> q.key]
          /\ q.pc = "analysis" /\ q.id = new
      BY <1>2, <1>6, Zenon DEF RequestHolds
    <3>3. RequestHolds(q)'
      <4>1. new \in DOMAIN docs' /\ imports'[new] = "none"
        BY <1>10, <1>11, Zenon
      <4>2. q.pc \notin {"sync", "mark"} /\ q.pc # "row"
        BY <3>2, Zenon
      <4>. QED BY <3>2, <4>1, <4>2, Zenon DEF RequestHolds
    <3>4. ASSUME NEW u \in Threads, u # t, thread[u].pc = "analysis"
          PROVE  imports'[thread[u].id] = "none" /\ q.id # thread[u].id
      <4>1. thread[u].id \in DOMAIN docs /\ imports[thread[u].id] = "none"
        BY <3>4, Zenon DEF CaratInv, ThreadsHold, RequestHolds
      <4>. QED BY <4>1, <3>2, <2>1, <1>10, Zenon
    <3>. QED BY <2>1, <3>1, <3>3, <3>4, RequestMoves, Zenon DEF CaratInv
  <2>3. CASE ~r.carat
    <3>1. Carat!Finish(t)
      BY <1>7, <2>3, Zenon DEF Carat!Finish
    <3>. QED BY <2>1, <3>1, RequestEnds, Zenon DEF CaratInv
  <2>. QED BY <2>2, <2>3, Zenon
<1>16. Carat!DocumentsHaveObjects'
  <2>1. row.object = r.key
    BY <1>4, Zenon
  <2>. QED BY <2>1, <1>2, <1>7, <1>8, <1>10, Zenon DEF CaratInv, Carat!DocumentsHaveObjects
<1>17. Carat!OneOrderPerSupplier'
  BY <1>13, Zenon DEF CaratInv, Carat!OneOrderPerSupplier
<1>18. Carat!OrdersHoldSelectedOnly'
  <2>1. \A d \in DOMAIN docs : Carat!Orderable(d)' = Carat!Orderable(d)
    BY <1>12, Zenon DEF CaratInv, TablesHold, Carat!Orderable, Carat!Taken
  <2>3. dirty' = dirty
    BY <1>7, Zenon
  <2>2. ASSUME NEW o \in DOMAIN orders', orders'[o].imp \notin dirty'
        PROVE  (orders[o].positions \subseteq {p \in Carat!Orderable(orders[o].imp) : Carat!SupplierOf(p) = orders[o].supplier})'
    <3>1. PICK d : d = orders[o].imp
      BY Zenon
    <3>2. /\ o \in DOMAIN orders /\ orders'[o].imp = d /\ orders'[o].supplier = orders[o].supplier
          /\ orders'[o].positions = orders[o].positions /\ d \in DOMAIN docs /\ d \notin dirty
      BY <1>13, <2>2, <2>3, <3>1, Zenon DEF CaratInv, TablesHold
    <3>3. orders[o].positions \subseteq {p \in Carat!Orderable(d) : Carat!SupplierOf(p) = orders[o].supplier}
      BY <3>1, <3>2, Zenon DEF CaratInv, Carat!OrdersHoldSelectedOnly
    <3>4. Carat!Orderable(d)' = Carat!Orderable(d)
      BY <2>1, <3>2, Zenon
    <3>5. (Carat!Orderable(orders[o].imp))' = Carat!Orderable(d)
      BY <3>2, <3>4, Zenon DEF Carat!Orderable, Carat!Taken
    <3>. QED BY <3>2, <3>3, <3>5, Zenon DEF Carat!SupplierOf
  <2>. QED BY <2>2, Zenon DEF Carat!OrdersHoldSelectedOnly, Carat!SupplierOf
<1>. QED BY <1>14, <1>15, <1>16, <1>17, <1>18, Zenon DEF CaratInv

\* The selection of one import changes: its orders are out of date, or none, or what is taken is the same.
LEMMA SelectionMoves ==
  ASSUME CaratInv, NEW k \in DOMAIN docs, NEW f, sel' = [sel EXCEPT ![k] = f], orders' = orders, dirty \subseteq dirty',
         \A o \in DOMAIN orders : orders[o].imp = k /\ k \notin dirty' =>
            {p \in Positions : f[p] \in {"selected", "transferred"}} = Carat!Taken(k)
  PROVE  IsTable(sel') /\ DOMAIN sel' = DOMAIN sel /\ Carat!OrdersHoldSelectedOnly'
<1>1. /\ IsTable(sel') /\ DOMAIN sel' = DOMAIN sel /\ sel'[k] = f
      /\ \A d \in DOMAIN sel : d # k => sel'[d] = sel[d]
  BY Updated, Zenon DEF CaratInv, TablesHold
<1>2. ASSUME NEW o \in DOMAIN orders', orders'[o].imp \notin dirty'
      PROVE  (orders[o].positions \subseteq {p \in Carat!Orderable(orders[o].imp) : Carat!SupplierOf(p) = orders[o].supplier})'
  <2>1. PICK d : d = orders[o].imp
    BY Zenon
  <2>2. o \in DOMAIN orders /\ d \in DOMAIN docs /\ d \notin dirty /\ d \notin dirty' /\ d \in DOMAIN sel
    BY <1>2, <2>1, Zenon DEF CaratInv, TablesHold
  <2>3. orders[o].positions \subseteq {p \in Carat!Orderable(d) : Carat!SupplierOf(p) = orders[o].supplier}
    BY <2>1, <2>2, Zenon DEF CaratInv, Carat!OrdersHoldSelectedOnly
  <2>4. Carat!Taken(d)' = Carat!Taken(d)
    <3>1. CASE d = k
      <4>1. {p \in Positions : f[p] \in {"selected", "transferred"}} = Carat!Taken(k)
        BY <2>1, <2>2, <3>1, Zenon
      <4>2. Carat!Taken(k)' = {p \in Positions : f[p] \in {"selected", "transferred"}}
        BY <1>1, Zenon DEF Carat!Taken
      <4>. QED BY <4>1, <4>2, <3>1, Zenon
    <3>2. CASE d # k
      BY <1>1, <2>2, <3>2, Zenon DEF Carat!Taken
    <3>. QED BY <3>1, <3>2, Zenon
  <2>5. (Carat!Orderable(orders[o].imp))' = Carat!Orderable(d)
    BY <2>1, <2>4, Zenon DEF Carat!Orderable, Carat!Taken
  <2>. QED BY <2>1, <2>3, <2>5, Zenon DEF Carat!SupplierOf
<1>. QED BY <1>1, <1>2, Zenon DEF Carat!OrdersHoldSelectedOnly, Carat!SupplierOf

\* An import is read, or read again.
LEMMA ImportMoves ==
  ASSUME CaratInv, NEW k \in DOMAIN docs, NEW x, x # "none", imports' = [imports EXCEPT ![k] = x],
         UNCHANGED <<docs, orders, objects>>, IsTable(sel'), DOMAIN sel' = DOMAIN sel
  PROVE  /\ TablesHold' /\ Grows /\ Carat!DocumentsHaveObjects' /\ Carat!OneOrderPerSupplier'
         /\ imports'[k] # "none" /\ \A d \in DOMAIN docs : d # k => imports'[d] = imports[d]
<1>1. /\ IsTable(imports') /\ DOMAIN imports' = DOMAIN imports /\ imports'[k] # "none"
      /\ \A d \in DOMAIN docs : d # k => imports'[d] = imports[d]
  BY Updated, Zenon DEF CaratInv, TablesHold
<1>2. \A d \in DOMAIN docs : imports[d] # "none" => imports'[d] # "none"
  BY <1>1, Zenon
<1>3. TablesHold'
  BY <1>1, <1>2, Zenon DEF CaratInv, TablesHold, DocumentRow, OrderRow
<1>4. Grows
  BY <1>2, Zenon DEF Grows
<1>5. Carat!DocumentsHaveObjects'
  BY Zenon DEF CaratInv, Carat!DocumentsHaveObjects
<1>6. Carat!OneOrderPerSupplier'
  BY Zenon DEF CaratInv, Carat!OneOrderPerSupplier
<1>. QED BY <1>1, <1>3, <1>4, <1>5, <1>6, Zenon

\* The analysis: no other request analyses this document, and no order comes from it yet.
LEMMA AnalysisStep ==
  ASSUME CaratInv, NEW t \in Threads, Carat!StoreAnalysis(t)
  PROVE  CaratInv'
<1>1. PICK d : d = thread[t].id
  BY Zenon
<1>2. d \in DOMAIN docs /\ imports[d] = "none" /\ thread[t].pc = "analysis"
  BY <1>1, Zenon DEF CaratInv, ThreadsHold, RequestHolds, Carat!StoreAnalysis
<1>3. \A o \in DOMAIN orders : orders[o].imp # d
  BY <1>2, Zenon DEF CaratInv, TablesHold
<1>4. UNCHANGED <<docs, orders, objects, dirty>> /\ Carat!Finish(t)
  BY Zenon DEF Carat!StoreAnalysis
<1>5. IsTable(sel') /\ DOMAIN sel' = DOMAIN sel /\ Carat!OrdersHoldSelectedOnly'
  <2>1. CASE sel' = sel
    <3>1. IsTable(sel') /\ DOMAIN sel' = DOMAIN sel
      BY <2>1, Zenon DEF CaratInv, TablesHold
    <3>2. Carat!OrdersHoldSelectedOnly'
      BY <1>4, <2>1, Zenon DEF CaratInv, Carat!OrdersHoldSelectedOnly, Carat!Orderable, Carat!Taken,
         Carat!SupplierOf
    <3>. QED BY <3>1, <3>2, Zenon
  <2>2. CASE sel' = [sel EXCEPT ![d] = [p \in Positions |-> "candidate"]]
    <3>1. PICK f : f = [p \in Positions |-> "candidate"]
      BY Zenon
    <3>2. sel' = [sel EXCEPT ![d] = f]
      BY <2>2, <3>1, Zenon
    <3>. QED BY <3>2, <1>2, <1>3, <1>4, SelectionMoves, Zenon
  <2>. QED BY <1>1, <2>1, <2>2, Zenon DEF Carat!StoreAnalysis
<1>6. PICK x : x \in {"analysis_ready", "failed"} /\ imports' = [imports EXCEPT ![d] = x]
  BY <1>1, Zenon DEF Carat!StoreAnalysis
<1>7. x # "none"
  BY <1>6, Zenon
<1>8. /\ TablesHold' /\ Grows /\ Carat!DocumentsHaveObjects' /\ Carat!OneOrderPerSupplier'
      /\ \A e \in DOMAIN docs : e # d => imports'[e] = imports[e]
  BY <1>2, <1>4, <1>5, <1>6, <1>7, ImportMoves, Zenon
<1>9. ThreadsHold'
  <2>1. thread' = [thread EXCEPT ![t] = Carat!Idle]
    BY <1>4, Zenon DEF Carat!Finish
  <2>2. ASSUME NEW u \in Threads, u # t, thread[u].pc = "analysis" PROVE imports'[thread[u].id] = "none"
    <3>1. thread[u].id \in DOMAIN docs /\ imports[thread[u].id] = "none" /\ thread[u].id # d
      BY <1>1, <1>2, <2>2, Zenon DEF CaratInv, ThreadsHold, RequestHolds
    <3>. QED BY <1>8, <3>1, Zenon
  <2>. QED BY <1>8, <2>1, <2>2, IdleHolds, RequestMoves, Zenon DEF CaratInv
<1>. QED BY <1>5, <1>8, <1>9, Zenon DEF CaratInv

\* A selection puts its import out of date, until it is synchronised.
LEMMA SelectStep ==
  ASSUME CaratInv, NEW t \in Threads, Carat!SelectPositions(t)
  PROVE  CaratInv'
<1>1. PICK r : r = thread[t]
  BY Zenon
<1>2. RequestHolds(r) /\ UNCHANGED <<docs, orders, objects>>
  BY <1>1, Zenon DEF CaratInv, ThreadsHold, Carat!SelectPositions
<1>3. CASE r.id \in DOMAIN docs /\ imports[r.id] # "none"
  <2>1. PICK f : f = Carat!SelectionAfter(r.id, r.ask, r.act)
    BY Zenon
  <2>2. PICK x : x = IF Carat!Taken(r.id) # {} THEN "partially_transferred" ELSE "analysis_ready"
    BY Zenon
  <2>3. PICK q : q = [r EXCEPT !.pc = "sync"]
    BY Zenon
  <2>4. /\ sel' = [sel EXCEPT ![r.id] = f] /\ imports' = [imports EXCEPT ![r.id] = x] /\ dirty' = dirty \cup {r.id}
        /\ thread' = [thread EXCEPT ![t].pc = "sync"]
    BY <1>1, <1>3, <2>1, <2>2, Zenon DEF Carat!SelectPositions
  <2>5. IsTable(sel') /\ DOMAIN sel' = DOMAIN sel /\ Carat!OrdersHoldSelectedOnly'
    BY <1>2, <1>3, <2>4, SelectionMoves, Zenon
  <2>6. x # "none"
    BY <2>2, Zenon
  <2>7. /\ TablesHold' /\ Grows /\ Carat!DocumentsHaveObjects' /\ Carat!OneOrderPerSupplier'
        /\ imports'[r.id] # "none" /\ \A e \in DOMAIN docs : e # r.id => imports'[e] = imports[e]
    BY <1>2, <1>3, <2>4, <2>5, <2>6, ImportMoves, Zenon
  <2>8. /\ q = [pc |-> q.pc, id |-> q.id, ask |-> q.ask, act |-> q.act, carat |-> q.carat, key |-> q.key]
        /\ q.pc = "sync" /\ q.id = r.id
    BY <1>2, <2>3, Zenon DEF RequestHolds
  <2>9. RequestHolds(q)' /\ q.pc # "analysis"
    <3>1. q.pc # "row" /\ q.pc # "analysis"
      BY <2>8, Zenon
    <3>2. q.id \in DOMAIN docs' /\ imports'[q.id] # "none"
      BY <1>2, <1>3, <2>7, <2>8, Zenon
    <3>. QED BY <2>8, <3>1, <3>2, Zenon DEF RequestHolds
  <2>10. thread' = [thread EXCEPT ![t] = q]
    BY <1>1, <2>3, <2>4, Zenon
  <2>11. \A d \in DOMAIN docs : imports[d] = "none" => imports'[d] = "none"
    BY <1>3, <2>7, Zenon
  <2>12. ThreadsHold'
    BY <2>7, <2>9, <2>10, <2>11, RequestGoesOn, Zenon DEF CaratInv
  <2>. QED BY <2>5, <2>7, <2>12, Zenon DEF CaratInv
<1>4. CASE ~(r.id \in DOMAIN docs /\ imports[r.id] # "none")
  <2>1. Carat!Finish(t) /\ UNCHANGED <<docs, imports, sel, orders, dirty>>
    BY <1>1, <1>4, Zenon DEF Carat!SelectPositions
  <2>2. objects \subseteq objects'
    BY <1>2, Zenon
  <2>. QED BY <2>1, <2>2, OnlyThreads, RequestEnds, Zenon DEF CaratInv
<1>. QED BY <1>3, <1>4, Zenon

\* The mark moves what was selected to what was transferred; both are taken.
LEMMA MarkStep ==
  ASSUME CaratInv, NEW t \in Threads, Carat!MarkTransferred(t)
  PROVE  CaratInv'
<1>1. PICK d : d = thread[t].id
  BY Zenon
<1>2. d \in DOMAIN docs /\ thread[t].pc = "mark"
  <2>1. thread[t].pc \in {"sync", "mark"}
    BY Zenon DEF Carat!MarkTransferred
  <2>. QED BY <1>1, <2>1, Zenon DEF CaratInv, ThreadsHold, RequestHolds, Carat!MarkTransferred
<1>3. PICK f : f = [p \in Positions |-> IF sel[d][p] = "selected" THEN "transferred" ELSE sel[d][p]]
  BY Zenon
<1>4. /\ sel' = [sel EXCEPT ![d] = f] /\ Carat!Finish(t)
      /\ UNCHANGED <<docs, imports, orders, objects, dirty>>
  BY <1>1, <1>3, Zenon DEF Carat!MarkTransferred
<1>5. {p \in Positions : f[p] \in {"selected", "transferred"}} = Carat!Taken(d)
  BY <1>3, Zenon DEF Carat!Taken
<1>6. IsTable(sel') /\ DOMAIN sel' = DOMAIN sel /\ Carat!OrdersHoldSelectedOnly'
  BY <1>2, <1>4, <1>5, SelectionMoves, Zenon
<1>7. TablesHold' /\ Grows
  BY <1>4, <1>6, Zenon DEF CaratInv, TablesHold, DocumentRow, OrderRow, Grows
<1>8. ThreadsHold'
  BY <1>4, <1>7, RequestEnds, Zenon DEF CaratInv
<1>9. Carat!DocumentsHaveObjects'
  BY <1>4, Zenon DEF CaratInv, Carat!DocumentsHaveObjects
<1>10. Carat!OneOrderPerSupplier'
  BY <1>4, Zenon DEF CaratInv, Carat!OneOrderPerSupplier
<1>. QED BY <1>6, <1>7, <1>8, <1>9, <1>10, Zenon DEF CaratInv

\* The orders the synchronisation inserts: each is written once.
LEMMA FreshOrders ==
  ASSUME IsFiniteSet(Positions), NEW d, NEW fresh \in [1..Carat!Cardinality(Carat!NewOrders(d)) -> Carat!NewOrders(d)],
         {fresh[i] : i \in DOMAIN fresh} = Carat!NewOrders(d)
  PROVE  IsTable(fresh) /\ \A i, j \in DOMAIN fresh : i # j => fresh[i] # fresh[j]
<1>. DEFINE Wanted == {p \in Carat!Orderable(d) : ~Carat!Ordered(d, Carat!SupplierOf(p))}
            Order(s) == [imp |-> d, supplier |-> s, status |-> "ordered", positions |-> {}, count |-> 0]
            N == Carat!NewOrders(d)
<1>1. \A S : Carat!Cardinality(S) = Cardinality(S)
  BY Zenon DEF Carat!Cardinality, Cardinality, Carat!IsFiniteSet, IsFiniteSet
<1>2. PICK f : f = [p \in Wanted |-> Order(Carat!SupplierOf(p))]
  BY Zenon
<1>3. N = {Order(s) : s \in {s \in {Carat!SupplierOf(p) : p \in Carat!Orderable(d)} : ~Carat!Ordered(d, s)}}
  BY Zenon DEF Carat!NewOrders
<1>4. IsFiniteSet(Wanted)
  <2>1. Wanted \in SUBSET Positions
    BY Zenon DEF Carat!Orderable, Carat!Taken
  <2>. HIDE DEF Wanted
  <2>. QED BY <2>1, FS_Subset, Zenon
<1>. HIDE DEF Order, N
<1>5. f \in [Wanted -> N]
  BY <1>2, <1>3, Zenon
<1>6. \A o \in N : \E p \in Wanted : f[p] = o
  BY <1>2, <1>3, Zenon
<1>7. f \in Surjection(Wanted, N)
  BY <1>5, <1>6, Zenon DEF Surjection
<1>. HIDE DEF Wanted
<1>8. IsFiniteSet(N)
  BY <1>4, <1>7, FS_Surjection, Zenon
<1>9. PICK n : n = Cardinality(N)
  BY Zenon
<1>10. n \in Nat
  BY <1>8, <1>9, FS_CardinalityType, Zenon
<1>11. IsFiniteSet(1..n) /\ Cardinality(1..n) = n
  BY <1>10, Numbers, Zenon
<1>12. fresh \in [1..n -> N] /\ {fresh[i] : i \in DOMAIN fresh} = N
  BY <1>1, <1>9, Zenon DEF N
<1>13. fresh \in Surjection(1..n, N)
  <2>1. DOMAIN fresh = 1..n
    BY <1>12, Zenon
  <2>2. \A o \in N : \E i \in 1..n : fresh[i] = o
    BY <1>12, <2>1, Zenon
  <2>. QED BY <1>12, <2>2, Zenon DEF Surjection
<1>14. fresh \in Injection(1..n, N)
  BY <1>9, <1>11, <1>13, FS_SurjSameCardinalityImpliesInj, Zenon
<1>15. \A i, j \in 1..n : fresh[i] = fresh[j] => i = j
  BY <1>14, Zenon DEF Injection, IsInjective
<1>16. fresh \in Seq(N)
  BY <1>10, <1>12
<1>. QED BY <1>12, <1>15, <1>16, Zenon DEF IsTable

\* An order of the snapshot: it is refreshed when it belongs to the import, and left alone otherwise.
Refreshes(d, a, b) ==
    /\ OrderRow(b) /\ b.imp = a.imp /\ b.supplier = a.supplier
    /\ a.imp # d => b = a
    /\ a.imp = d => b.positions = {p \in Carat!Orderable(d) : Carat!SupplierOf(p) = a.supplier}

\* That is what the upsert writes.
LEMMA OrderRefreshed ==
  ASSUME NEW d, NEW a, OrderRow(a)
  PROVE  Refreshes(d, a, Carat!Refreshed(d, a))
<1>. DEFINE b == Carat!Refreshed(d, a)
<1>1. CASE a.imp # d
  BY <1>1, Zenon DEF Carat!Refreshed, Refreshes
<1>2. CASE a.imp = d
  <2>1. PICK ps, n : ps = {p \in Carat!Orderable(d) : Carat!SupplierOf(p) = a.supplier}
                     /\ n = Carat!Cardinality(a.positions)
    BY Zenon
  <2>2. b = [a EXCEPT !.positions = ps, !.count = n]
    BY <1>2, <2>1, Zenon DEF Carat!Refreshed
  <2>. HIDE DEF b
  <2>3. OrderRow(b) /\ b.imp = a.imp /\ b.supplier = a.supplier /\ b.positions = ps
    BY <2>2, Zenon DEF OrderRow
  <2>. QED BY <1>2, <2>1, <2>3, Zenon DEF b, Refreshes
<1>. QED BY <1>1, <1>2, Zenon

\* A synchronisation refreshes the orders of its import and adds one for each supplier without any.
LEMMA SyncStep ==
  ASSUME IsFiniteSet(Positions), CaratInv, NEW t \in Threads, Carat!SyncSupplierOrders(t)
  PROVE  CaratInv'
<1>1. PICK r, d : r = thread[t] /\ d = r.id
  BY Zenon
<1>2. /\ RequestHolds(r) /\ d \in DOMAIN docs /\ imports[d] # "none"
      /\ UNCHANGED <<docs, imports, sel, objects>>
  <2>1. thread[t].pc \in {"sync", "mark"} /\ UNCHANGED <<docs, imports, sel, objects>>
    BY Zenon DEF Carat!SyncSupplierOrders
  <2>. QED BY <1>1, <2>1, Zenon DEF CaratInv, ThreadsHold, RequestHolds
<1>3. Grows /\ \A e \in DOMAIN docs : imports[e] = "none" => imports'[e] = "none"
  BY <1>2, Zenon DEF Grows
<1>4. CASE Carat!SpellingClash(d)
  <2>1. Carat!Finish(t) /\ UNCHANGED <<docs, imports, sel, orders, dirty>>
    BY <1>1, <1>4, Zenon DEF Carat!SyncSupplierOrders
  <2>2. objects \subseteq objects'
    BY <1>2, Zenon
  <2>. QED BY <2>1, <2>2, OnlyThreads, RequestEnds, Zenon DEF CaratInv
<1>5. CASE ~Carat!SpellingClash(d)
  <2>1. PICK kept : kept = [o \in DOMAIN orders |-> Carat!Refreshed(d, orders[o])]
    BY Zenon
  <2>2. PICK fresh \in [1..Carat!Cardinality(Carat!NewOrders(d)) -> Carat!NewOrders(d)] :
          {fresh[i] : i \in DOMAIN fresh} = Carat!NewOrders(d) /\ orders' = kept \o fresh
    BY <1>1, <1>5, <2>1, Zenon DEF Carat!SyncSupplierOrders
  <2>3. /\ dirty' = dirty \ {d}
        /\ IF r.act = "transfer" THEN thread' = [thread EXCEPT ![t].pc = "mark"] ELSE Carat!Finish(t)
    BY <1>1, <1>5, Zenon DEF Carat!SyncSupplierOrders
  <2>4. IsTable(kept) /\ DOMAIN kept = DOMAIN orders
    <3>1. kept = [o \in DOMAIN orders |-> kept[o]]
      BY <2>1, Zenon
    <3>. QED BY <3>1, Mapped, Zenon DEF CaratInv, TablesHold
  <2>5. \A o \in DOMAIN orders : Refreshes(d, orders[o], kept[o])
    <3>1. \A o \in DOMAIN orders : kept[o] = Carat!Refreshed(d, orders[o]) /\ OrderRow(orders[o])
      BY <2>1, Zenon DEF CaratInv, TablesHold
    <3>. QED BY <3>1, OrderRefreshed, Zenon
  <2>15. \A o \in DOMAIN orders :
           /\ OrderRow(kept[o]) /\ kept[o].imp = orders[o].imp /\ kept[o].supplier = orders[o].supplier
           /\ orders[o].imp # d => kept[o] = orders[o]
    BY <2>5, Zenon DEF Refreshes
  <2>6. IsTable(fresh) /\ \A i, j \in DOMAIN fresh : i # j => fresh[i] # fresh[j]
    BY <2>2, FreshOrders, Zenon
  <2>7. \A i \in DOMAIN fresh :
          /\ fresh[i] = [imp |-> d, supplier |-> fresh[i].supplier, status |-> "ordered", positions |-> {}, count |-> 0]
          /\ OrderRow(fresh[i]) /\ fresh[i].imp = d /\ fresh[i].positions = {} /\ ~Carat!Ordered(d, fresh[i].supplier)
    <3>. SUFFICES ASSUME NEW i \in DOMAIN fresh
         PROVE  /\ fresh[i] = [imp |-> d, supplier |-> fresh[i].supplier, status |-> "ordered", positions |-> {}, count |-> 0]
                /\ OrderRow(fresh[i]) /\ fresh[i].imp = d /\ fresh[i].positions = {} /\ ~Carat!Ordered(d, fresh[i].supplier)
      BY Zenon
    <3>1. fresh[i] \in Carat!NewOrders(d)
      BY <2>2, Zenon
    <3>2. PICK s, a : /\ ~Carat!Ordered(d, s) /\ a = fresh[i]
                      /\ a = [imp |-> d, supplier |-> s, status |-> "ordered", positions |-> {}, count |-> 0]
      BY <3>1, Zenon DEF Carat!NewOrders
    <3>3. a.supplier = s /\ OrderRow(a) /\ a.imp = d /\ a.positions = {}
      BY <3>2 DEF OrderRow
    <3>. QED BY <3>2, <3>3, Zenon
  <2>8. PICK n : n = Len(kept)
    BY Zenon
  <2>9. /\ IsTable(orders') /\ n \in Nat
        /\ \A o \in DOMAIN orders' : /\ o \in Int
                                     /\ \/ o \in DOMAIN orders /\ orders'[o] = kept[o]
                                        \/ o \notin DOMAIN orders /\ o - n \in DOMAIN fresh /\ orders'[o] = fresh[o - n]
    <3>1. /\ IsTable(kept \o fresh) /\ Len(kept) \in Nat
          /\ \A i \in DOMAIN kept : i \in DOMAIN (kept \o fresh) /\ (kept \o fresh)[i] = kept[i]
          /\ \A i \in DOMAIN (kept \o fresh) : i \notin DOMAIN kept =>
                i - Len(kept) \in DOMAIN fresh /\ (kept \o fresh)[i] = fresh[i - Len(kept)]
          /\ \A i \in DOMAIN (kept \o fresh) : i \in Int
      BY <2>4, <2>6, Joined, Zenon
    <3>. QED BY <2>2, <2>4, <2>8, <3>1, Zenon
  <2>10. TablesHold'
    <3>1. \A o \in DOMAIN orders' : /\ OrderRow(orders'[o])
                                    /\ orders'[o].imp \in DOMAIN docs /\ imports[orders'[o].imp] # "none"
      <4>. SUFFICES ASSUME NEW o \in DOMAIN orders'
           PROVE  OrderRow(orders'[o]) /\ orders'[o].imp \in DOMAIN docs /\ imports[orders'[o].imp] # "none"
        BY Zenon
      <4>1. CASE o \in DOMAIN orders /\ orders'[o] = kept[o]
        BY <2>15, <4>1, Zenon DEF CaratInv, TablesHold
      <4>2. CASE o - n \in DOMAIN fresh /\ orders'[o] = fresh[o - n]
        BY <1>2, <2>7, <4>2, Zenon
      <4>. QED BY <2>9, <4>1, <4>2, Zenon
    <3>. QED BY <1>2, <2>9, <3>1, Zenon DEF CaratInv, TablesHold, DocumentRow, OrderRow
  <2>11. Carat!OneOrderPerSupplier'
    <3>. DEFINE Old(o) == o \in DOMAIN orders /\ orders'[o] = kept[o]
                New(o) == o \notin DOMAIN orders /\ o - n \in DOMAIN fresh /\ orders'[o] = fresh[o - n]
    <3>1. ASSUME NEW o \in DOMAIN orders', NEW p \in DOMAIN orders', o # p,
                 orders'[o].imp = orders'[p].imp, orders'[o].supplier = orders'[p].supplier
          PROVE  FALSE
      <4>1. CASE Old(o) /\ Old(p)
        <5>1. orders'[o].imp = orders[o].imp /\ orders'[o].supplier = orders[o].supplier
          BY <2>15, <4>1, Zenon
        <5>2. orders'[p].imp = orders[p].imp /\ orders'[p].supplier = orders[p].supplier
          BY <2>15, <4>1, Zenon
        <5>. QED BY <3>1, <4>1, <5>1, <5>2, Zenon DEF CaratInv, Carat!OneOrderPerSupplier
      <4>2. CASE Old(o) /\ New(p)
        <5>1. orders'[o].imp = orders[o].imp /\ orders'[o].supplier = orders[o].supplier
          BY <2>15, <4>2, Zenon
        <5>2. orders'[p].imp = d /\ ~Carat!Ordered(d, orders'[p].supplier)
          BY <2>7, <4>2, Zenon
        <5>. QED BY <3>1, <4>2, <5>1, <5>2, Zenon DEF Carat!Ordered
      <4>3. CASE New(o) /\ Old(p)
        <5>1. orders'[p].imp = orders[p].imp /\ orders'[p].supplier = orders[p].supplier
          BY <2>15, <4>3, Zenon
        <5>2. orders'[o].imp = d /\ ~Carat!Ordered(d, orders'[o].supplier)
          BY <2>7, <4>3, Zenon
        <5>. QED BY <3>1, <4>3, <5>1, <5>2, Zenon DEF Carat!Ordered
      <4>4. CASE New(o) /\ New(p)
        <5>1. o - n # p - n
          BY <2>9, <3>1
        <5>2. fresh[o - n] # fresh[p - n]
          BY <2>6, <4>4, <5>1, Zenon
        <5>3. fresh[o - n].supplier = fresh[p - n].supplier
          BY <3>1, <4>4, Zenon
        <5>. QED BY <2>7, <4>4, <5>2, <5>3, Zenon
      <4>. QED BY <2>9, <3>1, <4>1, <4>2, <4>3, <4>4, Zenon
    <3>. QED BY <3>1, Zenon DEF Carat!OneOrderPerSupplier
  <2>12. Carat!OrdersHoldSelectedOnly'
    <3>1. ASSUME NEW o \in DOMAIN orders', orders'[o].imp \notin dirty'
          PROVE  (orders[o].positions \subseteq {p \in Carat!Orderable(orders[o].imp) : Carat!SupplierOf(p) = orders[o].supplier})'
      <4>1. PICK e : e = orders'[o].imp
        BY Zenon
      <4>2. (Carat!Orderable(orders[o].imp))' = Carat!Orderable(e)
        BY <1>2, <4>1, Zenon DEF Carat!Orderable, Carat!Taken
      <4>3. orders'[o].positions \subseteq {p \in Carat!Orderable(e) : Carat!SupplierOf(p) = orders'[o].supplier}
        <5>1. CASE o \in DOMAIN orders /\ orders'[o] = kept[o] /\ e = d
          BY <2>5, <4>1, <5>1, Zenon DEF Refreshes
        <5>2. CASE o \in DOMAIN orders /\ orders'[o] = kept[o] /\ e # d
          <6>1. orders[o] = kept[o] /\ orders[o].imp = e
            BY <2>15, <4>1, <5>2, Zenon
          <6>2. orders[o].imp \notin dirty
            BY <2>3, <3>1, <4>1, <5>2, <6>1, Zenon
          <6>. QED BY <5>2, <6>1, <6>2, Zenon DEF CaratInv, Carat!OrdersHoldSelectedOnly
        <5>3. CASE o - n \in DOMAIN fresh /\ orders'[o] = fresh[o - n]
          BY <2>7, <5>3, Zenon
        <5>. QED BY <2>9, <5>1, <5>2, <5>3, Zenon
      <4>. QED BY <4>2, <4>3, Zenon DEF Carat!SupplierOf
    <3>. QED BY <3>1, Zenon DEF Carat!OrdersHoldSelectedOnly, Carat!SupplierOf
  <2>13. ThreadsHold'
    <3>1. CASE r.act = "transfer"
      <4>1. PICK q : q = [r EXCEPT !.pc = "mark"]
        BY Zenon
      <4>2. /\ q = [pc |-> q.pc, id |-> q.id, ask |-> q.ask, act |-> q.act, carat |-> q.carat, key |-> q.key]
            /\ q.pc = "mark" /\ q.id = d
        BY <1>1, <1>2, <4>1, Zenon DEF RequestHolds
      <4>3. q.pc # "row" /\ q.pc # "analysis"
        BY <4>2, Zenon
      <4>4. RequestHolds(q)'
        BY <1>2, <4>2, <4>3, Zenon DEF RequestHolds
      <4>5. thread' = [thread EXCEPT ![t] = q]
        BY <1>1, <2>3, <3>1, <4>1, Zenon
      <4>. QED BY <1>3, <4>3, <4>4, <4>5, RequestGoesOn, Zenon DEF CaratInv
    <3>2. CASE r.act # "transfer"
      BY <1>3, <2>3, <3>2, RequestEnds, Zenon DEF CaratInv
    <3>. QED BY <3>1, <3>2, Zenon
  <2>14. Carat!DocumentsHaveObjects'
    BY <1>2, Zenon DEF CaratInv, Carat!DocumentsHaveObjects
  <2>. QED BY <2>10, <2>11, <2>12, <2>13, <2>14, Zenon DEF CaratInv
<1>. QED BY <1>4, <1>5, Zenon

\* A crash ends every request where it stands.
LEMMA CrashStep ==
  ASSUME CaratInv, Carat!Crash
  PROVE  CaratInv'
<1>1. thread' = [t \in Threads |-> Carat!Idle] /\ UNCHANGED <<docs, imports, sel, orders, objects, dirty>>
  BY Zenon DEF Carat!Crash
<1>2. objects \subseteq objects'
  BY <1>1, Zenon
<1>3. \A t \in Threads : thread'[t] = Carat!Idle
  BY <1>1, Zenon
<1>4. ThreadsHold'
  <2>1. thread' = [t \in Threads |-> thread'[t]]
    BY <1>1, Zenon
  <2>2. \A t \in Threads : RequestHolds(thread[t])'
    BY <1>3, IdleHolds, Zenon DEF RequestHolds
  <2>. QED BY <1>3, <2>1, <2>2, IdleHolds, Zenon DEF ThreadsHold
<1>. QED BY <1>1, <1>2, <1>4, OnlyThreads, Zenon

\* Every step keeps the invariant.
LEMMA CaratStep ==
  ASSUME IsFiniteSet(Positions), CaratInv, [Carat!Next]_(Carat!vars)
  PROVE  CaratInv'
<1>1. CASE UNCHANGED Carat!vars
  <2>1. UNCHANGED <<docs, imports, sel, orders, dirty, objects, thread>>
    BY <1>1, Zenon DEF Carat!vars
  <2>2. ThreadsHold' /\ objects \subseteq objects'
    BY <2>1, Zenon DEF CaratInv, ThreadsHold, RequestHolds
  <2>. QED BY <2>1, <2>2, OnlyThreads, Zenon
<1>2. CASE Carat!Next
  <2>1. ASSUME NEW t \in Threads, NEW carat, NEW id, NEW act, Carat!Upload(t, carat, id, act) PROVE CaratInv'
    BY <2>1, StartSteps, Zenon
  <2>2. ASSUME NEW t \in Threads, NEW d, NEW ask, NEW act, Carat!Select(t, d, ask, act) PROVE CaratInv'
    BY <2>2, StartSteps, Zenon
  <2>3. ASSUME NEW d, Carat!ArchiveDocument(d) PROVE CaratInv'
    BY <2>3, ArchiveStep, Zenon
  <2>4. ASSUME NEW t \in Threads,
               \/ Carat!PutObject(t) \/ Carat!InsertDocument(t) \/ Carat!StoreAnalysis(t)
               \/ Carat!SelectPositions(t) \/ Carat!SyncSupplierOrders(t) \/ Carat!MarkTransferred(t)
        PROVE  CaratInv'
    BY <2>4, PutStep, InsertStep, AnalysisStep, SelectStep, SyncStep, MarkStep, Zenon
  <2>5. CASE Carat!Crash
    BY <2>5, CrashStep, Zenon
  <2>. QED BY <1>2, <2>1, <2>2, <2>3, <2>4, <2>5, Zenon DEF Carat!Next
<1>. QED BY <1>1, <1>2, Zenon

\* It holds at the start.
LEMMA CaratInit ==
  ASSUME Carat!Init
  PROVE  CaratInv
<1>1. /\ docs = <<>> /\ imports = <<>> /\ sel = <<>> /\ orders = <<>>
      /\ thread = [t \in Threads |-> Carat!Idle]
  BY Zenon DEF Carat!Init
<1>2. DOMAIN docs = {} /\ DOMAIN imports = {} /\ DOMAIN sel = {} /\ DOMAIN orders = {}
  BY <1>1
<1>3. IsTable(<<>>)
  BY DEF IsTable
<1>4. TablesHold
  BY <1>1, <1>2, <1>3, Zenon DEF TablesHold
<1>5. \A t \in Threads : thread[t] = Carat!Idle
  BY <1>1, Zenon
<1>6. ThreadsHold
  <2>1. thread = [t \in Threads |-> thread[t]]
    BY <1>1, Zenon
  <2>. QED BY <1>5, <2>1, IdleHolds, Zenon DEF ThreadsHold
<1>7. Carat!DocumentsHaveObjects /\ Carat!OneOrderPerSupplier /\ Carat!OrdersHoldSelectedOnly
  BY <1>2, Zenon DEF Carat!DocumentsHaveObjects, Carat!OneOrderPerSupplier, Carat!OrdersHoldSelectedOnly
<1>. QED BY <1>4, <1>6, <1>7, Zenon DEF CaratInv

\* A document row names an object in storage, there is one order for a supplier and an import, and
\* a synchronised order holds selected positions of its supplier only.  The positions of a file are
\* finitely many.
THEOREM OrdersFollowSelections ==
  ASSUME IsFiniteSet(Positions)
  PROVE  Carat!Spec => [](Carat!DocumentsHaveObjects /\ Carat!OneOrderPerSupplier /\ Carat!OrdersHoldSelectedOnly)
<1>1. Carat!Init => CaratInv
  BY CaratInit, Zenon
<1>2. CaratInv /\ [Carat!Next]_(Carat!vars) => CaratInv'
  BY CaratStep, Zenon
<1>3. CaratInv => Carat!DocumentsHaveObjects /\ Carat!OneOrderPerSupplier /\ Carat!OrdersHoldSelectedOnly
  BY Zenon DEF CaratInv
<1>. QED BY <1>1, <1>2, <1>3, PTL DEF Carat!Spec

=============================================================================
