---------------------------- MODULE DocumentIndex ----------------------------
(***************************************************************************)
(* The life of one document: its row (SqlAlchemyDocumentRepository), its   *)
(* uploaded file (object store), its vectors (InMemoryVectorStore,         *)
(* QdrantVectorStore), the API requests that add, upload and delete it     *)
(* (api/routes/knowledge_bases.py, admin.py) and the index runs            *)
(* (RagService.index_document, called by the worker or by the request).    *)
(*                                                                         *)
(* Documents do not share rows, vectors or files, so one is enough. What   *)
(* the task queue does with the index tasks is abstracted to what          *)
(* TaskQueue establishes: a task is delivered, in any order, until a run   *)
(* succeeds or MaxAttempts runs have failed, and may be delivered again    *)
(* when its worker dies or stalls. A content is named by the request that  *)
(* wrote it.                                                               *)
(***************************************************************************)
EXTENDS Naturals

CONSTANTS
  Uploads,      \* upload requests for this document: its id is fresh, so at most one
  Adds,         \* JSON add requests that name this document's id
  Deletes,      \* delete requests
  Workers,      \* index workers
  ChunkCount,   \* into how many chunks each request's content is cut
  MaxAttempts,  \* settings.task_max_attempts
  Scenarios,    \* the surroundings the document may live in, see Scenario
  NoRow         \* "there is no such document"

Requests == Uploads \cup Adds
\* who executes index runs
Indexers == Requests \cup Workers

\* inline: the requests of processes whose settings.task_queue is not "redis", which
\* index themselves; deletes: the delete requests that may come; bounds: how often an
\* API request raises (api) or dies (apiCrash), the object store raises (store), the
\* embedding or the vector store raises in an index run (run), the database when the
\* worker reads the document (read) or the run writes the status (status), and an
\* index worker dies or stalls (crash)
Counts == [api : Nat, apiCrash : Nat, store : Nat, run : Nat, read : Nat, status : Nat, crash : Nat]
Scenario ==
  [inline : SUBSET Requests, deletes : SUBSET Deletes, bounds : Counts]

Status == {"ready", "parsed", "indexing", "failed"}
Row == [content : Requests, status : Status, source : BOOLEAN]

ASSUME UploadsAssumption == /\ (\A u, v \in Uploads : u = v) /\ Uploads \cap Adds = {}
                            /\ Requests \cap Workers = {}
ASSUME ChunkAssumption == ChunkCount \in [Requests -> Nat \ {0}]
ASSUME BoundsAssumption == MaxAttempts \in Nat \ {0} /\ \A e \in Scenarios : e \in Scenario
ASSUME NoRowAssumption == NoRow \notin Row

VARIABLES
  env,       \* the scenario: constant in a behaviour
  row,       \* the documents row: content, status, whether source_uri is set
  points,    \* the document's points in the vector store
  object,    \* the uploaded file is in the object store
  tasks,     \* index tasks waiting for a worker
  req,       \* where each add or upload request is
  seen,      \* the row each request has read last (repository.add, update_lifecycle)
  del,       \* where each delete request is
  delSource, \* whether the row a delete request read had a source_uri
  ipc,       \* where each indexer is
  job,       \* the task each indexer runs
  snap,      \* the content each indexer read
  put,       \* how many chunks each indexer has upserted
  faults     \* faults so far, of each kind

rowVars == <<row, points, object>>
reqVars == <<req, seen>>
delVars == <<del, delSource>>
runVars == <<ipc, job, snap, put>>
vars == <<env, rowVars, tasks, reqVars, delVars, runVars, faults>>

Task == [req : Requests, attempts : 0..(MaxAttempts - 1)]
ReqPc == {"start", "stored", "looked", "added", "parsed", "queued", "indexing", "aborting",
          "done", "failed"}
IndexPc == {"idle", "get", "begin", "embed", "clear", "put", "finish", "fail", "ack"}

\* fault: a new row gets the status of its task
BadFirstRow(r) == [content |-> r, status |-> "queued", source |-> FALSE]

FirstRow(r) == [content |-> r, status |-> "ready", source |-> FALSE]

\* A content of one chunk is stored under the document's own id, others under
\* document_id:chunk-i.
Key(c, i) == IF ChunkCount[c] = 1 THEN 0 ELSE i
PointsOf(c) == {[key |-> Key(c, i), content |-> c] : i \in 1..ChunkCount[c]}
Point == [key : Nat, content : Requests]

Init ==
  /\ env \in Scenarios
  /\ row = NoRow /\ points = {} /\ object = FALSE
  /\ tasks = {}
  /\ req = [r \in Requests |-> "start"] /\ seen = [r \in Requests |-> NoRow]
  /\ del = [d \in Deletes |-> "start"] /\ delSource = [d \in Deletes |-> FALSE]
  /\ ipc = [k \in Indexers |-> "idle"]
  /\ job = [k \in Indexers |-> NoRow] /\ snap = [k \in Indexers |-> NoRow]
  /\ put = [k \in Indexers |-> 0]
  /\ faults = [api |-> 0, apiCrash |-> 0, store |-> 0, run |-> 0, read |-> 0, status |-> 0,
               crash |-> 0]

SetReq(r, s) == req' = [req EXCEPT ![r] = s]
ApiFault == faults.api < env.bounds.api /\ faults' = [faults EXCEPT !.api = @ + 1]
StoreFault == faults.store < env.bounds.store /\ faults' = [faults EXCEPT !.store = @ + 1]
ApiDeath == faults.apiCrash < env.bounds.apiCrash /\ faults' = [faults EXCEPT !.apiCrash = @ + 1]

\* fault: a row that is being indexed stays so when the run fails
BadSetStatus(s) == row' = IF row = NoRow \/ (row.status = "indexing" /\ s = "failed")
                            THEN row ELSE [row EXCEPT !.status = s]

\* update_lifecycle: an UPDATE by id, which does nothing when the row is gone
SetStatus(s) == row' = IF row = NoRow THEN NoRow ELSE [row EXCEPT !.status = s]

-----------------------------------------------------------------------------
(* Adding and uploading *)

\* object_store.put of an upload, which comes before the try: when it raises, the file,
\* or a part of it, may be there and stays.
PutObject(r) ==
  /\ r \in Uploads /\ req[r] = "start"
  /\ \/ object' = TRUE /\ SetReq(r, "stored") /\ UNCHANGED faults
     \/ StoreFault /\ SetReq(r, "failed") /\ object' \in {object, TRUE}
  /\ UNCHANGED <<row, points, tasks, seen, delVars, runVars>>

\* An id is known to clients once the upload that generated it has its row.
Known == Uploads = {} \/ \E u \in Uploads : req[u] \notin {"start", "stored", "looked"}

\* repository.add reads the row first ...
LookUp(r) ==
  /\ \/ r \in Uploads /\ req[r] = "stored"
     \/ r \in Adds /\ req[r] = "start" /\ Known
  /\ seen' = [seen EXCEPT ![r] = row]
  /\ SetReq(r, "looked")
  /\ UNCHANGED <<rowVars, tasks, delVars, runVars, faults>>

\* A request raises: an upload goes to its except clause.
Abandon(r) == SetReq(r, IF r \in Uploads THEN "aborting" ELSE "failed")

\* fault: the upload handler does not clean up
BadAbort(r) ==
  /\ req[r] = "aborting"
  /\ SetReq(r, "failed")
  /\ UNCHANGED <<rowVars, tasks, seen, delVars, runVars, faults>>

\* the upload handler's except clause removes the file it has stored, if
\* object_store.delete does not raise
Abort(r) ==
  /\ req[r] = "aborting"
  /\ SetReq(r, "failed")
  /\ \/ object' = FALSE /\ UNCHANGED faults
     \/ StoreFault /\ object' \in {object, FALSE}
  /\ UNCHANGED <<row, points, tasks, seen, delVars, runVars>>

\* ... and then inserts or updates it in another transaction, keeping the status
\* and source_uri it has read
WriteRow(r) ==
  /\ req[r] = "looked"
  /\ \/ /\ seen[r] = NoRow /\ row = NoRow
        /\ row' = FirstRow(r)
        /\ SetReq(r, "added") /\ UNCHANGED faults
     \/ /\ seen[r] = NoRow /\ row # NoRow              \* IntegrityError
        /\ Abandon(r) /\ UNCHANGED <<row, faults>>
     \/ /\ seen[r] # NoRow
        /\ row' = IF row = NoRow THEN NoRow ELSE [seen[r] EXCEPT !.content = r]
        /\ SetReq(r, "added") /\ UNCHANGED faults
     \/ ApiFault /\ Abandon(r) /\ UNCHANGED row
  /\ UNCHANGED <<points, object, tasks, seen, delVars, runVars>>

\* The upload handler marks the row parsed before it enqueues, and goes on with
\* the document update_lifecycle reads back. That read may raise although the
\* update is committed. On a missing row the result is None, which the handler
\* trips over outside its try.
UploadParsed(r) ==
  /\ r \in Uploads /\ req[r] = "added"
  /\ LET parsed == [row EXCEPT !.status = "parsed", !.source = TRUE] IN
       \/ /\ row # NoRow /\ row' = parsed /\ seen' = [seen EXCEPT ![r] = parsed]
          /\ SetReq(r, "parsed") /\ UNCHANGED faults
       \/ row = NoRow /\ SetReq(r, "failed") /\ UNCHANGED <<row, seen, faults>>
       \/ ApiFault /\ Abandon(r) /\ UNCHANGED <<row, seen>>
       \/ row # NoRow /\ row' = parsed /\ ApiFault /\ Abandon(r) /\ UNCHANGED seen
  /\ UNCHANGED <<points, object, tasks, delVars, runVars>>

NewTask(r) == [req |-> r, attempts |-> 0]

\* Create the task and enqueue it. On an error the client gets an exception
\* whether Redis has the message or not; the document row is not touched.
EnqueueTask(r) ==
  /\ r \notin env.inline
  /\ \/ r \in Uploads /\ req[r] = "parsed"
     \/ r \in Adds /\ req[r] = "added"
  /\ \/ /\ tasks' = tasks \cup {NewTask(r)}
        /\ SetReq(r, IF r \in Uploads THEN "done" ELSE "queued") /\ UNCHANGED faults
     \/ /\ ApiFault /\ SetReq(r, "failed")
        /\ tasks' = tasks \cup {NewTask(r)} \/ UNCHANGED tasks
  /\ UNCHANGED <<rowVars, seen, delVars, runVars>>

\* The JSON add handler marks the row parsed only after it has enqueued the task.
AddParsed(r) ==
  /\ r \in Adds /\ req[r] = "queued"
  /\ \/ SetStatus("parsed") /\ SetReq(r, IF row = NoRow THEN "failed" ELSE "done") /\ UNCHANGED faults
     \/ ApiFault /\ SetReq(r, "failed") /\ UNCHANGED row
  /\ UNCHANGED <<points, object, tasks, seen, delVars, runVars>>

\* Without a queue the request runs the index itself, on the document it has.
IndexInline(r) ==
  /\ r \in env.inline
  /\ \/ r \in Uploads /\ req[r] = "parsed"
     \/ r \in Adds /\ req[r] = "added"
  /\ SetReq(r, "indexing")
  /\ ipc' = [ipc EXCEPT ![r] = "begin"]
  /\ snap' = [snap EXCEPT ![r] = IF r \in Uploads THEN seen[r].content ELSE r]
  /\ UNCHANGED <<rowVars, tasks, seen, delVars, job, put, faults>>

\* The API process dies between two awaits of the request.
ApiCrash(r) ==
  /\ req[r] \notin {"start", "done", "failed"}
  /\ ApiDeath /\ SetReq(r, "failed")
  /\ ipc' = [k \in Indexers |-> IF k = r THEN "idle" ELSE ipc[k]]
  /\ UNCHANGED <<rowVars, tasks, seen, delVars, job, snap, put>>

-----------------------------------------------------------------------------
(* Index runs *)

Step(k, s) == ipc' = [ipc EXCEPT ![k] = s]

Take(k) ==
  /\ k \in Workers /\ ipc[k] = "idle"
  /\ \E t \in tasks : tasks' = tasks \ {t} /\ job' = [job EXCEPT ![k] = t]
  /\ Step(k, "get")
  /\ UNCHANGED <<rowVars, reqVars, delVars, snap, put, faults>>

\* A run that raised: the worker retries the task, unless it was the last
\* attempt, and acknowledges it; a request answers with an error.
Raise(k) ==
  IF k \in env.inline
    THEN Step(k, "idle") /\ SetReq(k, "failed") /\ UNCHANGED tasks
    ELSE LET retry == [job[k] EXCEPT !.attempts = @ + 1] IN
           /\ tasks' = IF retry.attempts >= MaxAttempts THEN tasks ELSE tasks \cup {retry}
           /\ Step(k, "ack") /\ UNCHANGED req

\* worker.py reads the document and refuses to index one that is gone. When the read
\* itself raises, see ReadFault.
GetDocument(k) ==
  /\ ipc[k] = "get"
  /\ \/ row # NoRow /\ snap' = [snap EXCEPT ![k] = row.content] /\ Step(k, "begin")
        /\ UNCHANGED <<tasks, req>>
     \/ row = NoRow /\ Raise(k) /\ UNCHANGED snap
  /\ UNCHANGED <<rowVars, seen, delVars, job, put, faults>>

Begin(k) ==
  /\ ipc[k] = "begin"
  /\ SetStatus("indexing")
  /\ Step(k, "embed")
  /\ UNCHANGED <<points, object, tasks, reqVars, delVars, job, snap, put, faults>>

\* fault: the old points are deleted before the embeddings are there
BadEmbed(k) ==
  /\ ipc[k] = "embed"
  /\ points' = {}
  /\ Step(k, "clear")
  /\ UNCHANGED <<row, object, tasks, reqVars, delVars, job, snap, put, faults>>

\* all embeddings are computed before the old index is touched
Embed(k) ==
  /\ ipc[k] = "embed"
  /\ Step(k, "clear")
  /\ UNCHANGED <<rowVars, tasks, reqVars, delVars, job, snap, put, faults>>

\* fault: only the points the new content replaces are deleted
BadRemaining(k) == {p \in points : \A i \in 1..ChunkCount[snap[k]] : p.key # Key(snap[k], i)}

\* vector_store.delete removes every point of the document
Remaining(k) == {}

Clear(k) ==
  /\ ipc[k] = "clear"
  /\ points' = Remaining(k)
  /\ put' = [put EXCEPT ![k] = 0]
  /\ Step(k, "put")
  /\ UNCHANGED <<row, object, tasks, reqVars, delVars, job, snap, faults>>

\* vector_store.upsert replaces the point of the same id
Upsert(k) ==
  /\ ipc[k] = "put"
  /\ put[k] < ChunkCount[snap[k]]
  /\ LET p == [key |-> Key(snap[k], put[k] + 1), content |-> snap[k]] IN
       points' = {q \in points : q.key # p.key} \cup {p}
  /\ put' = [put EXCEPT ![k] = @ + 1]
  /\ Step(k, IF put[k] + 1 = ChunkCount[snap[k]] THEN "finish" ELSE "put")
  /\ UNCHANGED <<row, object, tasks, reqVars, delVars, job, snap, faults>>

Finish(k) ==
  /\ ipc[k] = "finish"
  /\ SetStatus("ready")
  /\ IF k \in env.inline THEN Step(k, "idle") /\ SetReq(k, "done") ELSE Step(k, "ack") /\ UNCHANGED req
  /\ UNCHANGED <<points, object, tasks, seen, delVars, job, snap, put, faults>>

Failed(k) ==
  /\ ipc[k] = "fail"
  /\ SetStatus("failed")
  /\ Raise(k)
  /\ UNCHANGED <<points, object, seen, delVars, job, snap, put, faults>>

\* Embedding or the vector store raises: the run records "failed" first.
RunFault(k) ==
  /\ ipc[k] \in {"embed", "clear", "put"}
  /\ faults.run < env.bounds.run /\ faults' = [faults EXCEPT !.run = @ + 1]
  /\ Step(k, "fail")
  /\ UNCHANGED <<rowVars, tasks, reqVars, delVars, job, snap, put>>

\* document_repository.get raises in the worker's try: the attempt has failed, and no
\* status says so.
ReadFault(k) ==
  /\ ipc[k] = "get"
  /\ faults.read < env.bounds.read /\ faults' = [faults EXCEPT !.read = @ + 1]
  /\ Raise(k)
  /\ UNCHANGED <<rowVars, seen, delVars, job, snap, put>>

\* The updates of the status are outside the try: when one raises, the row stays
\* as it is.
StatusFault(k) ==
  /\ ipc[k] \in {"begin", "finish", "fail"}
  /\ faults.status < env.bounds.status /\ faults' = [faults EXCEPT !.status = @ + 1]
  /\ Raise(k)
  /\ UNCHANGED <<rowVars, seen, delVars, job, snap, put>>

Ack(k) ==
  /\ ipc[k] = "ack"
  /\ Step(k, "idle")
  /\ UNCHANGED <<rowVars, tasks, reqVars, delVars, job, snap, put, faults>>

\* The worker dies, or stalls, before it has acknowledged: its task is delivered
\* again.
Redeliver(k) ==
  /\ k \in Workers /\ ipc[k] # "idle"
  /\ faults.crash < env.bounds.crash /\ faults' = [faults EXCEPT !.crash = @ + 1]
  /\ tasks' = tasks \cup {job[k]}
  /\ Step(k, "idle") \/ UNCHANGED ipc
  /\ UNCHANGED <<rowVars, reqVars, delVars, job, snap, put>>

-----------------------------------------------------------------------------
(* Deleting: the row, then the vectors, then the file *)

SetDel(d, s) == del' = [del EXCEPT ![d] = s]

DeleteRead(d) ==
  /\ d \in env.deletes /\ del[d] = "start" /\ row # NoRow
  /\ delSource' = [delSource EXCEPT ![d] = row.source]
  /\ SetDel(d, "row")
  /\ UNCHANGED <<rowVars, tasks, reqVars, runVars, faults>>

DeleteRow(d) ==
  /\ del[d] = "row"
  /\ row' = NoRow
  /\ SetDel(d, IF row = NoRow THEN "done" ELSE "vectors")
  /\ UNCHANGED <<points, object, tasks, reqVars, delSource, runVars, faults>>

DeleteVectors(d) ==
  /\ del[d] = "vectors"
  /\ points' = {}
  /\ SetDel(d, "object")
  /\ UNCHANGED <<row, object, tasks, reqVars, delSource, runVars, faults>>

DeleteObject(d) ==
  /\ del[d] = "object"
  /\ object' = (object /\ ~delSource[d])
  /\ SetDel(d, "done")
  /\ UNCHANGED <<row, points, tasks, reqVars, delSource, runVars, faults>>

\* An await raises or the process dies: what was not deleted yet stays. An object store
\* that raises may have deleted the file.
DeleteFault(d) ==
  /\ \/ del[d] \in {"row", "vectors"} /\ ApiFault /\ UNCHANGED object
     \/ del[d] \in {"row", "vectors", "object"} /\ ApiDeath /\ UNCHANGED object
     \/ del[d] = "object" /\ StoreFault /\ object' \in {object, object /\ ~delSource[d]}
  /\ SetDel(d, "done")
  /\ UNCHANGED <<row, points, tasks, reqVars, delSource, runVars>>

-----------------------------------------------------------------------------

RequestStep(r) ==
  \/ PutObject(r) \/ LookUp(r) \/ WriteRow(r) \/ UploadParsed(r) \/ Abort(r)
  \/ EnqueueTask(r) \/ AddParsed(r) \/ IndexInline(r)

IndexStep(k) ==
  \/ Take(k) \/ GetDocument(k) \/ Begin(k) \/ Embed(k) \/ Clear(k)
  \/ Upsert(k) \/ Finish(k) \/ Failed(k) \/ Ack(k)

IndexFault(k) == RunFault(k) \/ ReadFault(k) \/ StatusFault(k) \/ Redeliver(k)

DeleteStep(d) == DeleteRead(d) \/ DeleteRow(d) \/ DeleteVectors(d) \/ DeleteObject(d)

Next ==
  /\ \/ \E r \in Requests : RequestStep(r) \/ ApiCrash(r)
     \/ \E k \in Indexers : IndexStep(k) \/ IndexFault(k)
     \/ \E d \in Deletes : DeleteStep(d) \/ DeleteFault(d)
  /\ UNCHANGED env

Spec == Init /\ [][Next]_vars

\* Requests, once begun, run on; so do the workers.
Fairness ==
  /\ \A r \in Requests : WF_vars(req[r] # "start" /\ RequestStep(r) /\ UNCHANGED env)
  /\ \A k \in Indexers : WF_vars(IndexStep(k) /\ UNCHANGED env)
  /\ \A d \in Deletes : WF_vars(del[d] # "start" /\ DeleteStep(d) /\ UNCHANGED env)

FairSpec == Spec /\ Fairness

-----------------------------------------------------------------------------

\* The types of all variables.
TypeOK ==
  /\ row \in Row \cup {NoRow} /\ points \subseteq Point /\ object \in BOOLEAN
  /\ tasks \subseteq Task
  /\ req \in [Requests -> ReqPc] /\ seen \in [Requests -> Row \cup {NoRow}]
  /\ del \in [Deletes -> {"start", "row", "vectors", "object", "done"}]
  /\ delSource \in [Deletes -> BOOLEAN]
  /\ ipc \in [Indexers -> IndexPc]
  /\ job \in [Indexers -> Task \cup {NoRow}] /\ snap \in [Indexers -> Requests \cup {NoRow}]
  /\ put \in [Indexers -> Nat]
  /\ env \in Scenarios
  /\ faults \in Counts
  /\ \A f \in DOMAIN faults : faults[f] <= env.bounds[f]

\* Nobody is doing anything to the document and no task is waiting.
Quiet ==
  /\ tasks = {}
  /\ \A r \in Requests : req[r] \in {"start", "done", "failed"}
  /\ \A k \in Indexers : ipc[k] = "idle"
  /\ \A d \in Deletes : del[d] \in {"start", "done"}

\* nobody has asked to delete the document
NoDelete == \A d \in Deletes : del[d] = "start"

\* all requests for the document have been answered without an error
Answered == \A r \in Requests : req[r] # "failed"

\* When all is quiet, a "ready" document is searchable with its current content:
\* all of its chunks, and nothing of an older content. Needs that no two runs
\* overlap, which one worker and requests that leave the indexing to it ensure, that
\* no delete is under way, that no request fails, and that not every attempt of a task
\* can have failed before it recorded that it begins (RagService.index_document,
\* repository.add, worker.py).
Missed == faults.read + faults.status
OneWorker == \A v, w \in Workers : v = w
Serial == OneWorker /\ env.inline = {} /\ NoDelete /\ Answered /\ Missed < MaxAttempts

ReadyIsCurrent ==
  Serial /\ Quiet /\ row # NoRow /\ row.status = "ready" => points = PointsOf(row.content)

\* The worker could read the document: always, or, where no worker has died, in one of
\* the attempts of a task. A task all of whose attempts raise there is dead-lettered
\* without a word in the row.
Readable == faults.read = 0 \/ (faults.crash = 0 /\ faults.read < MaxAttempts)

\* When all is quiet, no request has failed, the document could be read and every
\* status could be written, the status says how indexing ended (README.md:142).
StatusSettled ==
  Quiet /\ Answered /\ Readable /\ faults.status = 0 /\ row # NoRow =>
    row.status \in {"ready", "failed"}

\* nothing but uploads has begun
OnlyUploads == (\A r \in Adds : req[r] = "start") /\ NoDelete

\* The same for documents that have only been uploaded: upload_document writes
\* "parsed" before it enqueues the task.
UploadSettled == OnlyUploads => StatusSettled

\* Whatever the database does to an upload, and before or after the commit, a file
\* without a row that refers to it is not left behind, as long as the object store does
\* not raise and the process does not die (admin.py: upload_document).
NoOrphanObject ==
  OnlyUploads /\ Quiet /\ faults.store = 0 /\ faults.apiCrash = 0 /\ object =>
    row # NoRow /\ row.source

\* A failed or dying run is always followed by another one, or leaves the status
\* "failed": as long as the document can be read and the status written and no request
\* fails, the document does not stay in "indexing" (worker.py, index_document). A
\* re-add whose enqueue raises may leave the "indexing" it has read before.
IndexingEnds ==
  row # NoRow /\ row.status = "indexing"
    ~> (row = NoRow \/ row.status # "indexing" \/ faults.status > 0 \/ ~Readable \/ ~Answered)

\* A run replaces the index only when it has all embeddings: while no run has
\* reached that point since, a re-indexed document keeps a searchable index
\* (RagService.index_document).
OnlyClearEmpties ==
  [][points # {} /\ points' = {} =>
       \/ \E k \in Indexers : ipc[k] = "clear" /\ ipc'[k] = "put"
       \/ \E d \in Deletes : del[d] = "vectors" /\ del'[d] = "object"]_vars

-----------------------------------------------------------------------------
(* Why the safety properties hold *)

Working == {"begin", "embed", "clear", "put", "finish", "fail"}

\* who has begun a run holds what it needs; requests run only where they index inline
RunInv ==
  \A k \in Indexers :
    /\ ipc[k] # "idle" => IF k \in Workers THEN job[k] \in Task
                          ELSE k \in env.inline /\ req[k] = "indexing" /\ ipc[k] \in Working
    /\ ipc[k] \in Working => snap[k] \in Requests
ParsedInv == \A r \in Uploads : req[r] = "parsed" => seen[r] \in Row

\* while there are only uploads, the row and the file are where the upload is
UploadInv ==
  OnlyUploads =>
    /\ row # NoRow => \E u \in Uploads : req[u] \notin {"start", "stored", "looked"}
    /\ \A u \in Uploads :
         /\ req[u] = "looked" => seen[u] = NoRow
         /\ req[u] \in {"added", "parsed", "indexing", "done"} => row # NoRow
    /\ object /\ faults.store = 0 /\ faults.apiCrash = 0 =>
         \/ row # NoRow /\ row.source
         \/ \E u \in Uploads : req[u] \in {"stored", "looked", "added", "aborting"}

\* a row that is not settled is being worked on, or will be, unless the upload fails;
\* where reads have raised, by a task that has attempts left
InHand == (\E u \in Uploads : req[u] \in {"parsed", "aborting"}) \/ \E k \in Indexers : ipc[k] \in Working
Untried(t) == t.attempts <= faults.read
SettleInv ==
  OnlyUploads /\ Answered /\ faults.status = 0 /\ row # NoRow /\ row.status \in {"parsed", "indexing"} =>
    /\ faults.read = 0 => InHand \/ tasks # {} \/ \E k \in Indexers : ipc[k] = "get"
    /\ faults.crash = 0 /\ faults.read < MaxAttempts =>
         \/ InHand \/ \E t \in tasks : Untried(t)
         \/ \E k \in Indexers : ipc[k] = "get" /\ Untried(job[k])

\* a run will start that reads the row, and be it the last attempt, or a request fails
Early(t) == t.attempts <= Missed
Awaited == (\E r \in Requests : req[r] \in {"added", "parsed", "aborting"}) \/ \E t \in tasks : Early(t)

\* a run on the row's content puts all of it; if the row has moved on, another run follows
PutInv ==
  Serial => \A k \in Workers :
    /\ ipc[k] \in {"put", "finish"} =>
         /\ put[k] \in 0..ChunkCount[snap[k]]
         /\ points = {[key |-> Key(snap[k], i), content |-> snap[k]] : i \in 1..put[k]}
    /\ ipc[k] = "finish" => put[k] = ChunkCount[snap[k]]
    /\ ipc[k] \in Working \ {"fail"} => row = NoRow \/ snap[k] = row.content \/ Awaited

\* a row says "ready" only if it is, if another run will start, or if it is about to say
\* something else
ReadyInv ==
  Serial /\ row # NoRow /\ row.status = "ready" =>
    \/ Awaited
    \/ \E r \in Adds : req[r] = "queued"
    \/ /\ \A k \in Workers : ipc[k] \in {"idle", "get", "begin", "ack"}
       /\ points = PointsOf(row.content) \/ \E k \in Workers : ipc[k] \in {"get", "begin"} /\ Early(job[k])

IInv == TypeOK /\ RunInv /\ ParsedInv /\ UploadInv /\ SettleInv /\ PutInv /\ ReadyInv

=============================================================================
