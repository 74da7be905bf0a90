# A formal model of the insurance agent platform

TLA+ modules, TLC runs and TLAPS proofs about the backend under `src/app`: a
FastAPI application with an admin API, accounts and rate limits, a Redis task queue
with index workers, a vector store that chats search, tenants with their knowledge
bases, chats that run a workflow of agents, and a runtime configuration that is
versioned in PostgreSQL and announced to all API processes over Redis Pub/Sub. Paths
below are relative to `src/app` unless they start with `src/`.

| module | what it is |
|---|---|
| `TaskDelivery` | what the queue promises: abstract at-least-once delivery |
| `TaskQueue` | the Redis queue, the worker loop, the `task_jobs` rows |
| `TaskQueueProofs` | theorems about `TaskQueue` |
| `DocumentIndex` | one document: row, file, vectors, requests, index runs |
| `DocumentIndexProofs` | theorems about `DocumentIndex` |
| `ConfigPublish` | versions, publication and reload of the configuration |
| `ConfigPublishProofs` | theorems about `ConfigPublish` |
| `TenantDirectory` | the copy each process keeps of a tenant and its knowledge bases |
| `TenantDirectoryProofs` | theorems about `TenantDirectory` |
| `ChatTurn` | one chat: workflow, tools, what it stores, updates of the runtime |
| `ChatTurnProofs` | theorems about `ChatTurn` |
| `UserAccess` | accounts, the check of every request, changes of accounts |
| `RateLimit`, `RateLimitConstants` | both rate limiters, and their constants |
| `RateLimitProofs` | theorems about `RateLimit` |
| `ChatGate` | composition: what a chat request passes before it is answered |
| `ChatGateProofs` | theorems about `UserAccess` and `ChatGate` |
| `Chunking` | the loop that cuts a content into pieces |
| `Retrieval` | extends `Chunking`: the collection, the processes that share it, a search |
| `RetrievalProofs` | theorems about `Chunking` and `Retrieval` |
| `MCTaskQueue`, `MCDocumentIndex`, `MCConfigPublish`, `MCTenantDirectory`, `MCChatTurn`, `MCChatGate`, `MCRetrieval` | instances for TLC |

Every module names in its header the files it models; `PROJECT.json` ("map")
gives the lines of each definition.

## 1. Inventory

### Task queue and worker
`infrastructure/tasks/redis.py`, `worker.py`, `task_jobs` in
`infrastructure/persistence/sqlalchemy.py`, the submitting handlers in
`api/routes/admin.py` and `knowledge_bases.py`.

* State: a Redis stream with one consumer group (entries, last-delivered id,
  pending list with idle times), a sorted set of delayed retries, a dead-letter
  stream; a row per task; the place of each worker in its loop.
* Operations: `enqueue`, `dequeue` (promote due retries, XAUTOCLAIM one idle
  entry, else XREADGROUP one new entry), `ack` (XACK, XDEL), `retry` (dead
  letter, or ZADD, or XADD, then ack); the worker's mark - run - settle - report.
* Interaction: the API writes the row, then enqueues; workers take entries and
  write the row back; index runs change the document (next component).
* Hard: every command is an await of its own. A worker may die between any two
  of them, be slower than the idle time (so that another worker takes its entry),
  or promote the same delayed member as another worker. A failed `enqueue` may
  have reached Redis.
* Correct when: no accepted task is lost; none is dead-lettered early; an entry
  is only dropped once something else carries its task or it is settled; the
  row never announces what has not happened; everything accepted is settled.

### Document life cycle and indexing
`application/rag/service.py`, the handlers in `admin.py` and
`knowledge_bases.py`, `documents` in `sqlalchemy.py`, `infrastructure/vector/*`,
`infrastructure/object_store/*`.

* State: the row (content, `lifecycle_status`, `source_uri`, `checksum`,
  `index_version`), the points in the vector store, the file in the object store.
* Operations: upload, JSON add (which replaces the document of the same id),
  delete; an index run (mark "indexing", embed everything, delete the old points,
  upsert the new ones, mark "ready", or "failed" on an exception).
* Hard: the row is written by requests and by index runs, without locks and in
  separate transactions; `repository.add` reads and writes in two; a run is
  retried, redelivered, or overtaken by a deletion or a second run; each call of the
  database, the object store or the vector store may raise, some after they took effect.
* Correct when: a quiet "ready" document is indexed with its current content;
  the status ends up as "ready" or "failed"; an upload whose database calls fail leaves
  no file; the index is never emptied by a run that cannot replace it.

### Runtime configuration
`bootstrap/container.py` (`AppContainer`), `infrastructure/config_bus.py`,
`config_versions` in `sqlalchemy.py`, the handlers in `admin.py`.

* State: the version rows with their status, the settings, clients and workflow
  each API process runs and the version it believes published, the undelivered
  Pub/Sub messages of each process.
* Operations: PATCH runtime (snapshot - create - apply - publish - announce), create a
  draft, publish an old version (roll-back), handle an event (read - apply), restart.
* Hard: apply and publish are separate awaits; publications race in the table
  under row locks and may deadlock; Pub/Sub forgets what nobody listens to; the
  handler reads before an await and applies after it.
* Correct when: at most one version is published; listeners end up on it; a
  publication contains every earlier update; every request ends.

### Tenant and knowledge base directory
`application/knowledge/service.py`, the `tenants` and `knowledge_bases` tables in
`sqlalchemy.py`, tenant events in `container.py`, the handlers in `admin.py`.

* State: two tables; a copy of both in every process; the published tenant version
  and the undelivered events.
* Operations: update a tenant (change the copy, write the row, create and publish a
  version, announce), create or update a knowledge base (change the copy, write the
  row), handle a tenant event (read the version, change the copy, write the row),
  start (read the tables, add the plug-in's defaults, write everything back).
* Hard: the copies are changed before the rows are written, whole rows are written
  from copies that may be old, every listener writes too, and a starting process
  writes back all it has read. Changes of knowledge bases are not announced at all.
* Correct when: no process serves a tenant with a default that is not the tenant's; an
  announced update arrives in every copy and stays; nothing changes its owner.

### Chat and agent workflow
`application/chat/service.py`, `application/workflow/engine.py`,
`application/agent/*`, `api/routes/chat.py`, `update_runtime` in `container.py`.

* State: of a chat its `WorkflowState` (evidence, tool calls, answer, traces); the
  plug-in, orchestrator and model client in force; the tables
  `conversation_messages`, `handoff_tickets` and `workflow_runs`.
* Operations: prepare, run the steps (ask the model, call its tools for at most three
  rounds, stream the last word; review), store the question, the answer and the run,
  stream; replace the workflow and the client, close the old client.
* Hard: every step and the whole request have timeouts, which cancel a coroutine but
  not the thread that is writing for it; a step may fail and be passed over; the
  runtime is replaced and its client closed under running chats; updates overlap.
* Correct when: an answer without evidence is a refusal; what is recorded about a run
  is what happened; nothing is streamed before it is stored; the client in force is
  open; every chat ends.

### Retrieval and chunking
`application/rag/service.py`, `infrastructure/vector/qdrant.py`, the startup in
`bootstrap/container.py`.

* State: the Qdrant collection and its points, which all API and worker processes
  share; `lifecycle_status` of the documents; the knowledge bases each process has in
  memory.
* Operations: `_chunks`; make sure of the collection (look, inspect the dimension,
  delete, look again, create); load the knowledge bases; reset the collection and index
  the documents of these knowledge bases again at startup; the index run of a task; a
  search (embed, vectors, then the documents for the words).
* Hard: every process that starts may delete the collection the others fill and
  search, and indexes again only what it knows; starts, rebuilds and tasks overlap,
  raise in the middle and begin again; a search reads the vectors and the documents one
  after the other.
* Correct when: no phrase is torn apart by the cutting; once all is quiet a document
  has all its pieces and is "ready"; a search of an index at rest compares with every
  phrase as a whole, and enough words of a document find it whatever happens.

### Users and access
`application/auth/service.py`, `api/dependencies.py`, the `users` and `user_tenants`
tables in `sqlalchemy.py`, the account handlers in `api/routes/admin.py`.

* State: the two tables, the tokens that were issued, the audit log.
* Operations: create the default administrator at startup, log in, check a request
  (the row of the account, then its tenants), create an account, change one.
* Hard: a token names a role the account may have lost; the account is read in two
  statements; a change is validated on a read in an earlier transaction and sets only
  some fields; names are looked up before they are inserted, by several processes.
* Correct when: nobody is let in with what the account had lost before the request
  began; only administrators have all tenants; a name has one account; starts end.

### Rate limiting
`infrastructure/rate_limit/redis.py`, `memory.py`, the check in `api/routes/chat.py`.

* State: a counter per key and window, in Redis or in each process.
* Operations: `allow` (INCR, EXPIRE for the first, compare), `reconfigure`.
* Hard: two commands, answers in any order, windows that end in between, a limit that
  changes in one process at a time, a command that is lost.
* Correct when: a window lets through no more than the limit; every window ends.

### Parts not modelled

| part | files | why |
|---|---|---|
| evaluation | `application/evaluation/service.py` | scores of a data set: arithmetic on model results; a case runs as a chat (`ChatTurn`) |
| document parsing | `application/documents/ingestion.py` | file formats through third-party parsers; failure is an input of `DocumentIndex` |
| model and embedding clients | `infrastructure/model_clients`, `embeddings` | HTTP calls, or a hash of the words (`embeddings/hash.py`); their failures are inputs of the modelled parts, and which vectors are similar is left open |
| object store | `infrastructure/object_store/*` | put and delete of a file, actions of `DocumentIndex` |
| HTTP layer, pages | `main.py`, `core/*`, `static/*` | routing, serialisation, presentation |

## 2. Plan

Done, in this order: the queue, because everything asynchronous rests on it; the
document, which uses it; the configuration; the directory of tenants, which is
published in the same way; the chat, which runs under it; accounts and limits, which
stand in front of it; retrieval, which it asks.

Worth doing next:

1. Drafts and publications of old tenant versions in `TenantDirectory`.
2. Several documents in `Retrieval`, with the fusion of scores against its definition.
3. Abstract specifications of publication (a register that listeners follow) and of a
   window of the limiter, with the proofs that `ConfigPublish` and `RateLimit` implement them.

Abstract specification: `TaskDelivery`, which `TaskQueue` refines. The other
components promise invariants rather than an order of events, and state them directly.

## 3. The modules and the code

One action is one await of the code: one Redis command, one database
transaction, one call of the vector or object store, or what runs between two
awaits of a coroutine. Names of actions and states follow the code. The
"Bad..." operators in the modules, each after a comment "fault:", are mutated
forms of the definition below them; they take no part in the specifications
and serve to show that each property can fail.

### TaskQueue
`stream`, `pending`, `idle`, `delayed`, `due`, `deadLetters` are the Redis keys,
with time abstracted to two facts: an entry has been idle long enough, a delayed
member's score has passed. `jobs` are the rows, `api` the submitting request,
`pc`, `msg`, `batch`, `outcome` the local variables of `run()` in `worker.py`.
`indexed` and `failedAt` are history. `Crash` is the death of a worker process
at any point: its locals are gone, Redis and the rows stay.

`BecomeIdle` distinguishes an entry nobody works on, whose idle time certainly
passes, from one a live worker holds (a stall, which `StallBudget` bounds).
`Delayed` is the set of workers whose `task_retry_delay_seconds` is not 0: the
setting belongs to the process.

Left out: COUNT limits above one, the payload of a task, and the inline queue
(which keeps no state).

### DocumentIndex
One document suffices: rows, points and files of different documents are
disjoint, and `index_document` reads and writes only its own. `row`, `points`,
`object` are the three stores; `req` and `seen` are the requests and the row
each of them has read; `ipc`, `job`, `snap`, `put` are an index run, executed by
a worker or, for the requests in `env.inline` (those of a process without the
Redis queue), by the request itself. A content is named by the
request that wrote it; `ChunkCount` says how many points it makes, because
contents of one chunk are stored under the document's own id and others under
`id:chunk-i`.

The queue appears as what `TaskQueue` establishes: a task is delivered until a
run succeeds or `MaxAttempts` runs have failed, in any order, and may be
delivered again after a death or a stall. Two waiting copies of the same task
with the same attempt number are one.

What raises is one of five kinds, each with a bound of its own in the scenario: a call
of the database in a request (`ApiFault`), `put` or `delete` of the object store
(`StoreFault`), a call of an index run (`RunFault`), the read of the document at the
start of a worker's attempt (`ReadFault`), and a write of the status (`StatusFault`).
`put` comes before the `try` of the upload handler, so when it raises, the file or a part
of it may stay; an exception after it leads to the handler's `except` clause (pc
"aborting"), whose `delete` (`Abort`) may raise as well.

The second read in `update_lifecycle` (commit, then read back) is folded into
the action, except that its failure after the commit is a disjunct of its own
where the handler reacts to it (`UploadParsed`). In the memory
repository these two are one step.

### ConfigPublish
A configuration is the set of updates it contains, so that "this update was
taken back" can be said. `runtime` is the version an instance runs, `pubver`
what it remembers as published. The publishing transaction is four statements
(`LockTarget`, `LockScope`, `Archive`, `Commit`) with row locks in `held`;
PostgreSQL's locks and its deadlock detector are external definitions. On
SQLite `FOR UPDATE` does nothing, and the transaction is one writer at a time;
the model is of the deployment with several instances, which needs PostgreSQL.
`inbox` counts undelivered events: the handler uses an event only as a reason to
read the table, so its content does not matter.

Left out: the values of settings (validation appears as `Reject`); tenant versions
and their events, which are part of `TenantDirectory`.

### TenantDirectory
`tenantRow`, `kbRows` are the tables, `tenant`, `kbs` the copies (`_tenants`,
`_knowledge_bases`) of each process, `published` the tenant version that listeners
read. One tenant suffices: the copies and rows of two tenants are disjoint, and of
another tenant only the knowledge bases it owns can matter to this one. A directory is
three sets (which ids exist, which are this tenant's, which are enabled). All other
fields of a tenant are one field, `plan`, named by the update that set it: an update
sets the default, the plan, or both (`exclude_unset`).

`UpdateTenant` changes the copy and `SaveTenant` writes the row, and so do
`CreateKB`, `UpdateKB` and `SaveKB`, because the code runs them in that order and the
write may raise in between. `WriteBack` is the row a listener writes after `Apply`.
`LoadKBs`, `LoadTenant`, `SeedTenant`, `SeedKB` and `Subscribe` are the startup of a
process, one transaction each. A version is created and published in one transaction
each; how two publications exclude each other is the subject of `ConfigPublish`.

`alone` is a history variable: no request has begun while another was in flight. It
lets one run check what holds for one administrator and what holds for many.

Left out: drafts and publications of old tenant versions (`admin.py:205-281`), the
plug-in's documents, which go through `DocumentIndex`, and reading operations.

### ChatTurn
`pc`, `at` and `state` are the coroutine of a chat: where it waits, its local
variables, its `WorkflowState`. `threads` are the calls of the database in
`asyncio.to_thread`; a call belongs to its chat and step, and when the chat has been
cancelled meanwhile it still takes effect, but nobody waits for it (`Awaited`).
`Prepare` also chooses between a chat and a case of an evaluation
(`persist_conversation`), which stores nothing and has no timeout but those of its
steps. Chats share nothing but the runtime, so the run has one, and the proofs any
number.

Of a text only its kind is kept: `"refusal"` is any text with the phrase the review
looks for ("没有检索到"), whoever wrote it, and `"rounds"` is the text for too many
rounds. `Replies` are the sequences of tool calls the model may ask for, `Workflow`
the steps of each configuration. A client is named by the update that built it; a
call on a closed client raises, and one that is in flight when it is closed raises or
has been answered before. The two replacements in `update_runtime` have no await
between them and are one action; closing the old client is the next.

Left out: prompts and the choice of the knowledge base (`Prepare` lets a chat in or
not), retries of the model client (a reply may take any time), the other business
tools, which compute or search and write nothing, and the death of the
process, after which each of the three tables has what its transactions have written.

### UserAccess
`users` and `scopes` are the two tables, `boot` the start of each process, `tokens`
what was issued. A request has `req` (where it is), `who` (its token), `ask` (a tenant
or a body) and `read` (the account it has read last); each statement of the database
is an action, so the row and the tenants of an account are read in two. A request may
also bear something that is trusted without a look at the tables (`X-Admin-Token`, the
local session). `could` and `mixed` are history: what the account has allowed since the
request began, and the accounts of which two PATCHes were under way at once. A
`Scenario` names the requests that are sent, the processes that start and the tables.

Left out: passwords, signatures and expiry of tokens; the memory repository, which
serves one process and has no unique names.

### RateLimit, ChatGate
A store is where calls are counted: one for all processes, or one per process. Time is
left out: a window that has an end may end at any moment (`Elapse`). `rank` is the
number a call was given, `won`, `top`, `window` and `broken` are history.

`ChatGate` puts the chats of `UserAccess` through `prepare` and then through an
instance of `RateLimit`, whose `key` is the tenant asked for. What a chat asks for is
settled when it is sent, and it is counted only after it was admitted and prepared
(`GateInv`); so the key of a call is settled when the call is made, which is all that
`RateLimit` demands (`KeyKept`).

### Chunking, Retrieval
`Chunking` is the loop of `_chunks`, one turn per step; of a character it keeps what
the loop tells apart (full stop, line end, white space, other). A piece is the set of
positions it has, so overlaps and strips are visible.

`Retrieval` runs the loop first and then everything that happens to the document. The
points of the collection are numbers of pieces. `env` is the scenario: which processes
start, whether `rag_rebuild_on_startup` is set, how many calls raise or processes die,
whether the knowledge base and the upload are there from the beginning (`based`) or come
while processes start and serve, and whether `get_collection` tells the dimension where
`_ensure_collection` looks for it (`sized`): both outcomes are modelled, because it
depends on the shape in which the server describes its vectors.

`base` is the row of the document's knowledge base, `knows` the processes that have it in
memory: those that found the row when they loaded (`LoadBases`), and the one that created
it (`CreateBase`, which changes the memory before the row). `list_all_documents` goes
through this memory, so `ListDocuments` gives the document only to a process in `knows`.
`errand` is what a process does: the collection at its start, a rebuild, or the task of an
upload. `wiped`, `blind` and `upset` are history: the collection was deleted after the
last run had cleared it; whoever deleted it last does not know the document; the index
was not at rest during the search.

A search is three awaits: the embedding of the query, the vectors, the list of documents.
`seen` are the pieces it has compared with. How similar they are is left open: what the
vectors have found counts alone ("close"), only together with words of the query ("fair"),
or not ("far"), for any index with points in it. A short phrase and a long piece that
contains it are not similar for the default embedding, and `rag/service.py:111` leaves out
such results on purpose. The words of the query and the document in common are none, too
few to find it alone, or enough (`Found`).

Left out: other documents, which may push this one out of the first results; the limit
of `TaskQueue` on retries (a task is retried until it succeeds); the memory vector
store, which lives and dies with its process; documents that are deleted or changed
meanwhile, which are the subject of `DocumentIndex`.

## 4. The runs

| run | instance | what it shows |
|---|---|---|
| `queue_crash` | 1 task, 2 workers, 2 attempts, delayed retries, 1 death, 1 stall | `IInv` (with the types), `NoLostTask`, `DeadOnlyAfterMaxFailures`, `JobRowTruthful`, `ExclusiveEntries`, `AckedOnlyWhenSafe` hold however duplicates arise |
| `queue_live` | 1 task, 2 workers (one delays its retries), 1 death | `EventuallySettled`, and `TaskQueue` refines `TaskDelivery!FairSpec` |
| `index_reindex` | upload and re-add by 1 worker, with an API error, 2 failing runs, a failing status, a death or stall; scenarios in which both attempts may fail to write the status, or to read the document, or the object store raises; and, in three of fewer faults, an inline re-add and a delete as well | `TypeOK`, `ReadyIsCurrent`, `UploadSettled`, `NoOrphanObject`, `IndexingEnds`, `OnlyClearEmpties` |
| `index_order` | one add, one worker, no failure | violation: see 6 |
| `config_race` | update and draft at A, roll-back at B, C listens, 1 error, 1 restart; 2 updates and a draft at A one after the other; and an update, a draft and a roll-back one after the other | `OnePublished`, `ListenersConverge`, `SerialConverged`, `NoChangeLost`, `PublishEnds` |
| `config_concurrent` | 2 updates at one instance | violation: see 6 |
| `tenant_changes` | 2 updates, 2 creates and a toggle at A, B listens, 1 error, 1 death | `DefaultOwned`, `TenantsConverge`, `UpdateStays`, `KBsAgree`, `OwnerKept` |
| `tenant_owner` | 2 creates of one id at two instances | violation: see 6 |
| `chat_turn` | 1 chat or case, 3 updates, 4 workflows, 3 kinds of replies, 1 error | `Grounded`, `RunsTruthful`, `DeliveredIsStored`, `TicketsMatch`, `ClientOpen`, `ChatsEnd` |
| `chat_traces` | the same | violation: see 6 |
| `chat_gate` | 5 scenarios: a PATCH of an administrator under her own request; 2 PATCHes at once; 2 processes that start on empty tables while 2 POSTs ask for one name; 3 chats before either limiter, limits 1 and 2 | `Admitted`, `ScopeValid`, `NamesUnique`, `WithinLimit`, `WindowEnds`, `BootEnds` |
| `retrieval` | every text of up to 6 characters of 4 kinds, and of 8 or 9 of 2 kinds; a text of 3 pieces with 2 processes, each combination of `sized` and `rebuild`, and 2 faults, when the document is there from the beginning; a text of 2 pieces with the same and 1 fault when its knowledge base is created meanwhile, with 1 process, a search and 2 faults, and with a search while another process does not know the document; a text of 1 piece with a search beside another process that rebuilds | `PhrasesKept`, `Searchable`, `Rebuilt`, `PhraseFound` |

### Why these bounds are enough to be interesting
Two workers give every overlap of a holder and a claimer; one death and one stall
already produce duplicates with equal and with different attempt numbers, and
two attempts reach the retry and the dead letter. Tasks share only the stream
and its ids. A document with a two-chunk and a one-chunk content has both kinds of
point ids, so that a replacing run must really delete. Two publications deadlock; a
third one (a roll-back) gives versions that go down as well as up. Of the knowledge
bases one is the plug-in's default, one another of the tenant's, one is created and
one belongs to another tenant; the updates overlap in the default, and one sets
more. The workflows of `chat_turn` end with the review or do not, pass over a
failing step or stop, and one names a step that does not exist; three rounds are the
code's own bound, and replies with one tool, with two, and with an unknown one reach
every exit of a round. Three updates let two overlap while the third is refused.
Two processes race for the collection and for the administrator; two faults end both
or one of them twice. A piece of five characters with an overlap of two has ends in
its second half, and nine characters make three pieces. Three calls are one more than
the higher limit. The bodies of a PATCH give and take the role, all tenants, both, and
the account itself, and name a tenant that does not exist.
Numbers of attempts, tasks, workers, requests, instances, chats, workflows, accounts,
calls, processes and faults, and the sizes of texts and pieces, are unbounded in the
theorems of section 5.

Deadlock checking is off for all but `TaskQueue`: a system in which every request
has been answered stops. Workers poll for ever, so the runs of
`TaskQueue` check it.

### Conditions under which properties are stated
* `ReadyIsCurrent` is about documents that one worker indexes, that nobody deletes and
  whose requests are all answered: two overlapping runs of a document can break it (see
  6). It needs fewer than `MaxAttempts` status updates and reads of the document that
  raise (`Missed`): otherwise a run on the old content may write "ready" after the new
  content is stored, and all attempts of the new task fail before they say "indexing".
* `StatusSettled`, in `index_order`, and `UploadSettled` speak about documents none of
  whose requests failed, all of whose statuses could be written, and which the worker
  could read (`Readable`): a task all of whose attempts raise in
  `document_repository.get` is dead-lettered without a word in the row (see 6). Fewer
  than `MaxAttempts` failing reads are allowed as long as no worker dies; after a death
  that left "indexing" behind one failing read can be the last attempt.
* `UploadSettled` and `NoOrphanObject` speak about the time before anything but the
  upload has begun, and `NoOrphanObject` about an object store that does not raise and
  a process that does not die in the upload: in either case the file may stay (see 6).
* `IndexingEnds` allows a document to stay at "indexing" when a status could not be
  written, the document could not be read, or a request failed (see 6).
* `ExclusiveEntries` speaks about the time before the first stall.
* `ListenersConverge` speaks about instances that have served no publication so far
  (`Listens`), whatever others do; `SerialConverged` (that is `Converged`) and
  `NoChangeLost` about one administrator who has published on one instance
  (`Undisturbed`), the latter before anything is rolled back; all about the time before
  the first error or restart, which may lose an event (`FaultFree`).
* `TenantsConverge`, `UpdateStays` and `KBsAgree` speak about one administrator who
  waits for each answer and uses one instance (`Settled`), without errors or deaths;
  the first two also need that no listener had to ignore the update (`AllKnow`).
  `DefaultOwned` and `OwnerKept` in `tenant_changes` have none of these conditions,
  but for the latter all creates are served by one instance.
* `Grounded` is about workflows that end with the review, as the default one does.
* The second half of `TicketsMatch` is about chats all of whose steps have succeeded.
* `ScopeValid` leaves out accounts of which two PATCHes have overlapped (see 6).
* `WithinLimit` takes the highest limit there has been since the start.
* `WindowEnds` leaves out keys whose EXPIRE was lost (see 6).
* `BootEnds` needs that an account `local-admin` has the configured name (see 6).
* `Searchable` and `Rebuilt` speak about the time when all processes that were to start
  serve and no task is left; `Searchable` about indexes that no start has deleted since,
  which `Rebuilt` excludes only where every start rebuilds, and whoever deletes last knows
  the document's knowledge base or has still to load it (not `blind`, see 6).
* The first half of `PhraseFound` speaks about searches that began while the index was at
  rest, before whose look at the vectors nothing was cleared, and that could look at
  them; the second about all searches in which no call raised.

### Fairness
* `TaskQueue`: weak fairness of each worker's loop (a coroutine runs on, calls
  have timeouts, and docker restarts the process after a death), of scores
  becoming due, and of unheld pending entries becoming idle. No fairness for the
  API, for deaths or for stalls, and none that makes a run succeed.
* `DocumentIndex`: weak fairness of requests once begun, and of workers.
* `ConfigPublish`: weak fairness of requests once begun (a waiting transaction
  gets its lock when the other ends; a deadlock is broken by the database) and
  of listeners.
* `ChatGate`: weak fairness of the start of each process, which is started again when
  it fails. None of requests, logins or time.
* `Chunking`, `Retrieval`, `TenantDirectory`: none; their properties are about safety.
* `ChatTurn`: weak fairness of what a chat does without waiting, of the two timeouts,
  and of the consumer of an evaluation, which iterates to the end. None of the model,
  the search or the database: `ChatsEnd` holds even if they never answer.

## 5. Proofs

TLAPS proves, for all values of the constants that satisfy the modules'
assumptions (a positive `MaxAttempts` and `MaxRounds`, budgets in `Nat`, disjoint
kinds of requests, at most one upload of a document, a mark for "no row" that is no
row, a plug-in whose default knowledge base of the tenant is the
tenant's, a first workflow of known steps, tables that satisfy what they are to keep,
an overlap of at most half a piece, finitely many calls):

* `TaskQueueProofs`: `Spec => []IInv`, and from it `TypeOK`, `NoLostTask`,
  `DeadOnlyAfterMaxFailures`, the action property `AckedOnlyWhenSafe`, `JobRowTruthful`,
  `ExclusiveEntries`, and that every step is one of `TaskDelivery` or none.
* `DocumentIndexProofs`: `Spec => []IInv`, and from it `TypeOK`, `ReadyIsCurrent`,
  `UploadSettled`, `NoOrphanObject` and the action property `OnlyClearEmpties`.
* `ConfigPublishProofs`: `Spec => []IInv`, and from it `OnePublished`; `Spec =>
  []ConvergeInv`, and from it `ListenersConverge`, `SerialConverged` and `NoChangeLost`.
* `TenantDirectoryProofs`: `Spec => []IInv`, and from it `DefaultOwned`; `Spec =>
  []SettleInv`, and from it `TenantsConverge`, `UpdateStays` and `KBsAgree`; and the action
  property `OwnerKept` under the hypothesis `OneCreator`, which says that one instance
  serves all creates. Without it `tenant_owner` shows `OwnerKept` to fail.
* `ChatTurnProofs`: `Spec => []IInv`, and from it `TypeOK`, `Grounded`,
  `RunsTruthful`, `DeliveredIsStored`, `TicketsMatch` and `ClientOpen`.
* `RateLimitProofs`: `LimiterSpec => []IInv`, and from it `WithinLimit` and `WindowEnds`,
  for a key of each call that is settled when the call is made.
* `ChatGateProofs`: `UserSpec => []IInv`, and from it `Admitted`, `ScopeValid` and
  `NamesUnique`; and of the composition `Spec => UserSpec`, `Spec => [](IInv /\ GateInv)`
  and that it implements `LimiterSpec` with the tenants asked for as keys, from which
  `WithinLimit` and `WindowEnds` of `ChatGate` follow.
* `RetrievalProofs`: `ChunkSpec => []ChunkInv`, and from it `PhrasesKept`, `PiecesFit` and
  that every turn but the last moves on; `Spec => []IInv`, and from it `Searchable`,
  `Rebuilt` and `PhraseFound`.

**Why `NoLostTask` needs strengthening.** "Something in the stream or in the
delayed set carries the task" is not inductive: that something may be the very
entry a worker is about to XACK, or the member it is about to ZREM. `SafeInv`
therefore asks for a carrier that no worker is retiring (`Safe`), for accepted
tasks and, one attempt higher, for everything a worker is retiring; this
rests on an order of attempts: a retiring worker has put a carrier with one
attempt more in place, and two workers that retire duplicates of each other
cannot each rely on the other's entry. `IdInv` (ids are fresh, pending ids are
delivered) and `HandInv` (what a worker holds is the entry with that id) make
"the same entry" meaningful. `ChainInv` records that whatever carries attempt
number *a* follows failed runs at all lower numbers, which gives
`DeadOnlyAfterMaxFailures`; and as the last attempt fails only after all others, giving
up a task is a step of `TaskDelivery`.

**Why `JobRowTruthful` and `ExclusiveEntries` need strengthening.** `RowInv`: nothing
refers to a task that has no row yet, a run has left "queued" behind, and what a worker
is about to report has happened. `HoldInv`: an entry in a hand has not been idle, as long
as nobody has stalled, so nobody claims it. Both rest on `IInv` and are inductive with it.

**Why `ReadyIsCurrent` needs strengthening.** `PutInv`: a run that is putting has put the
points of the first chunks of what it has read and nothing else is there; and either
that is still the row's content, or another run will read the row (`Awaited`): a request
that writes a content is on its way to its task, or a task is waiting that has not used
up its attempts. `ReadyInv`: while the row says "ready", either the points are those of
its content and no run has touched them since, or a run is due, or the add is about to
say "parsed". A task may only be given up before it has said "indexing" if each of its
attempts has failed to read the document or to say so, and `Early` counts those against
the failed reads and updates.

**Why `UploadSettled` and `NoOrphanObject` need strengthening.** `UploadInv`: while there
is nothing but the upload, the row is there exactly when the upload has got past writing
it, and the file is either referred to or still in the hands of the handler, its
`except` clause included. `SettleInv`: a row that says "parsed" or "indexing" is in the
hands of the upload or of a run (`InHand`), or a task is waiting, or being read for. Where
reads have raised but nobody has died, that task has no more attempts behind it than
reads have raised (`Untried`): an attempt that gets further leaves "ready" or "failed".
`RunInv` and `ParsedInv` say what a run and a request hold.

**Why `OnePublished` needs strengthening.** `LockInv`: a transaction that has
locked its target and then all rows excludes every other from that point on, so
what it archived stays all that is published until it commits; its
target remains in its own locks.

**Why instances converge.** That an instance is in step once all is quiet says nothing of
the steps before. `ListenInv`: an instance that only listens is idle and in step, or is
*owed* the published version: by a publication that is not announced yet, by an event, or
because its listener has just read it. A later publication may make what was read stale,
but is then announced itself. Quiet leaves only the first alternative. `ServeInv`: the
instance that serves one administrator has no event to handle (its own it ignores), and so
runs what is published or what it is publishing. `KeepInv`: a snapshot taken under way contains every
update that was answered, because the instance runs what is published. `TurnInv` (one
request at a time) is what the last two rest on, and what `config_concurrent` drops.

**Why `DefaultOwned` needs strengthening.** A process that starts may read a tenant
row whose default it does not know, since rows of tenants and of knowledge bases
are read in two transactions and knowledge bases are not announced. It then repairs the
default, which needs a knowledge base of the tenant to choose. `SeedInv`: the
plug-in's default stays the tenant's in the table and in every copy, because creating
a knowledge base needs an id the copy does not know, and a row that is written passes
on the owner the copy has.

**Why `OwnerKept` needs strengthening.** A row keeps its owner if whoever writes it agrees
with the table. `OwnerInv`: the instance that creates knows every row there is, and all
others know only rows there are; and wherever a copy and the table both know an id they
agree who owns it. So a new id is new to the table as well. `WriterInv`: whoever writes
a row has it in the copy.

**Why `TenantsConverge`, `UpdateStays` and `KBsAgree` need strengthening.** `AgreeInv`: the
copy of the knowledge bases is the table, or what the table will be after the write under
way. `HomeInv`: the copy of the tenant is what was published last, or what will be, and
has in each field what the last update of it has set. `ListenInv`: every other instance
that knows the default has what is published or is owed it. `RowInv`: listeners write the
row as well, and may write an older tenant over a newer one; but whoever holds the
older one has the newer announcement still before it, and writes again.

**Why the properties of a chat need strengthening.** `WorkflowInv`: a chat that is at
step *n* has *n - 1* traces, is retrieving only in a retrieval step, and past the
last step of a workflow that ends with the review its answer is trusted or a refusal;
nothing later changes the answer. `WriteInv`: at most one write of a chat is under
way, the chat waits for it or has been given up, and the conversation is as the
writes before it have left it (`Said`); so a thread that outlives its request still
finds what it needs and nothing follows it. `ClientInv`: an update that has begun
holds a client to close that nobody will get any more, and one that has not begun is
not yet anybody's client. `TicketInv`: a ticket that is being written counts like one
that is, there is at most one for each step, and only a chat that waits for its ticket
has one of its own step; those of earlier steps belong to failed steps. Chats change
only what is their own (`ChatOwn`, `ThreadOwn`), so each lemma is about one of them.

**Why the properties of accounts need strengthening.** `ReadInv`: what a PATCH has read
of its account is still so until it writes, unless another PATCH of it overlaps (then the
account is in `mixed`), and what it would make of the account has been validated.
`SeenInv`: the history `could` is not behind the tables for a request that is still being
checked, nor behind the row it has read, although the tenants are read later. All steps
that write change one account (`Written`), so both are shown for it alone.

**Why `WithinLimit` needs strengthening.** `RankInv`: within a window of a store no
number is given twice and none lies above its counter. The calls allowed in a window thus
map one to one into the numbers up to the highest limit, which bounds how many they are.

**Why the composition keeps what its parts promise.** A step of `ChatGate` is one of
`UserAccess` or leaves its variables alone, so what is proved of the accounts holds. For
the limiter a request of an account may still choose its tenant, which changes the key of a
call, but only before it is made: `GateInv` says that a call that is made was prepared,
and that what is prepared was admitted, after which a request keeps its tenant.

**Why `PhrasesKept` needs strengthening.** `Behind`: every phrase that begins before the
next piece is in a piece already. A new piece has all of its stretch but blanks at its
ends, a phrase does not end in a blank, and the next piece begins an overlap before the
end of this one; so a phrase that begins even earlier ends within it. `Inside`: the loop
never starts behind the content.

**Why `Searchable` and `Rebuilt` need strengthening.** `DebtInv`: at any time the index is
complete, or was deleted, or a run is owed (by a task, by an upload to come, by a process
that has not cleared yet, or by one that will rebuild and knows the document, `Informed`),
or a process is putting pieces and everything up to its count is there. The last is why
overlapping rebuilds do no harm: whoever clears last puts all pieces again. A run that
ends early is owed again (`DebtStays`); when it was part of a start, which then begins
anew, that needs `BaseInv`: the process knew the knowledge base from its row, and will
find it there again. `PhraseFound` follows with `SearchInv`: a search that nothing has
disturbed compares with all pieces, and `PhrasesKept` gives one that has its phrase.

Each proof has one step per action. TLC checks the `IInv` of `TaskQueue` in
`queue_crash`; those of the other modules contain the properties their runs check.

Each property of a passing run is thus proved, but for those about what must eventually
happen: `EventuallySettled` and the fair half of the refinement of `TaskDelivery`,
`IndexingEnds`, `PublishEnds`, `ChatsEnd` and `BootEnds` are only model-checked, because
liveness under fairness is out of the prover's reach.

## 6. Where the code and what is said about it differ

Shown by a run:

* `index_order`: `add_document` writes `parsed` after it has enqueued the task. A
  worker that has already finished has written `ready`; the late update overwrites
  it, and nothing corrects it (`src/README.md:142` gives the order parsed, indexing, ready).
* `config_concurrent`: `update_runtime` and `repository.publish` are separate awaits.
  Two requests can apply in one order and commit in the other; the instance ignores
  its own events and goes on running the version that is not published
  (`config_bus.py:35`: the table is the source of truth).
* `tenant_owner`: `create_knowledge_base` refuses an id that its own process knows; on
  another process, which has not heard of it, the same id is created again, and the
  row is overwritten with its owner (`knowledge/service.py:216`: already exists).
* `chat_traces`: the timeout of a request cancels its workflow with `CancelledError`,
  which is no `Exception`: neither the engine nor the chat service sees it, and the
  steps that ran are not recorded (`src/README.md:15`: every run keeps its traces).

Met while modelling, in behaviours of the same modules, and not part of a run:

* `redis.py:94`: a death between XACK and XDEL leaves an entry that nothing deletes.
* `worker.py:77`: a death between the ack and the row's update leaves "running".
* `knowledge_bases.py:83`: when `enqueue` raises, a new document keeps the "ready"
  it was inserted with, without any vector.
* `rag/service.py:188`: two overlapping runs of one document may leave vectors of the
  old content; a deletion during a run leaves vectors of a document that is gone.
* `rag/service.py:188`: the old vectors are deleted before the first new one exists,
  so a search may find none, and a failing upsert leaves none.
* `rag/service.py:157`: when every attempt of a task fails to write "indexing", a row that
  an older run has made "ready" meanwhile stays "ready" with the vectors of its old content.
* `rag/service.py:199`: the status updates are outside the `try`: when the last
  one raises the row stays at "indexing".
* `worker.py:49`: `document_repository.get` is inside the `try`: when it raises in every
  attempt, the task is dead-lettered and the row stays at "parsed", or at the "indexing"
  of a worker that has died.
* `admin.py:551`: `update_lifecycle` may raise after its commit; the handler then
  deletes the file the row refers to.
* `admin.py:528`: `object_store.put` is outside the `try`: when it raises after it has
  stored the file, or a part of it, nothing removes it.
* `admin.py:552`: `object_store.delete` in the `except` clause may raise; the file stays, and
  the client sees this exception instead of the first.
* `sqlalchemy.py:282`: `repository.add` writes back the `source_uri` it has read in an
  earlier transaction.
* `container.py:308`: a listener applies a version it has read before an await, even
  when its own instance has published a newer one meanwhile.
* `config_bus.py:63`: an event between reading the published version at startup and
  subscribing is lost.
* `container.py:237`: when the publishing transaction raises, the instance keeps
  running the draft.
* `knowledge/service.py:130`: a starting process writes back the rows it has read; an
  update written in between is undone.
* `knowledge/service.py:172`: a listener that does not know the new default ignores the
  whole update; changes of knowledge bases are never announced.
* `sqlalchemy.py:282`: a re-add whose `enqueue` raises may leave the "indexing" it has
  read before.
* `agent/agents.py:68`: the text for too many rounds is overwritten by the last word of
  the model, which is always asked for when a tool was called; it is only seen when
  that call fails in a step with `on_error` "continue".
* `agent/agents.py:108`: the review takes any text with its phrase for a refusal, also
  one in which the model says more.
* `agent/agents.py:105`: the review trusts a handoff that was asked for; when its ticket
  could not be written and the step was passed over, there may be none.
* `chat/service.py:120`, `:156`: the version recorded is the one in force when the run
  is recorded, not the one that ran.
* `agent/business_tools.py:74`: a case of an evaluation creates real tickets.
* `container.py:215`: closing the old client fails the chats that are using it.
* `rate_limit/redis.py:17`: INCR and EXPIRE are two commands; a key whose EXPIRE was lost
  never expires, and once it has reached the limit refuses for ever.
* `rate_limit/memory.py`: each process has its own window, so several let through as many
  times the limit.
* `admin.py:175`: of two overlapping PATCHes of an account one may take the role and the
  other give all tenants, each validated for what it left alone: a viewer keeps "*".
* `admin.py:162`: an administrator can disable, or take the role from, the last one, also
  himself.
* `domain/models.py:52`: an explicit null for the role or `enabled` is validated as
  "not set", but written.
* `auth/service.py:50`: the administrator has the fixed id `local-admin`; when
  `local_admin_username` is changed the name is not found, the insert collides with the
  id, and the process does not start.
* `auth/service.py:97`: the row and the tenants of an account are read in two statements;
  a request may see the role of one moment and the tenants of another.
* `qdrant.py:49`: where the size is not an attribute of what `get_collection` answers, the
  collection is deleted at every start, although the comment above (`:43`) speaks of a
  change of the dimension; with `rag_rebuild_on_startup` off, as `src/docker-compose.yml:13`
  has it, the index then stays empty while documents say "ready".
* `knowledge/service.py:274`: a rebuild lists the documents of the knowledge bases its
  process has in memory. A process that loaded them before another one created a knowledge
  base, and resets the collection after a document of it was indexed, takes its vectors
  away for good, while the document says "ready".
* `rag/service.py:188`, `:257`: searches during a rebuild find nothing, or raise when the
  collection is away.
