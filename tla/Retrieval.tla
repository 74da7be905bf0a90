------------------------------ MODULE Retrieval ------------------------------
(***************************************************************************)
(* One document, the Qdrant collection that has its pieces, the processes  *)
(* that share the collection, and a search. A process that starts makes    *)
(* sure of the collection (QdrantVectorStore._ensure_collection), loads    *)
(* the knowledge bases (KnowledgeBaseService), may rebuild the index of    *)
(* their documents (RagService.startup), and then serves: it indexes       *)
(* documents (RagService.index_document), searches (RagService.search) and *)
(* may create the knowledge base of the document. A process never learns   *)
(* of a knowledge base that another one creates after it has loaded.       *)
(*                                                                         *)
(* One action is one call of Qdrant, of the embedding client or of the     *)
(* database. _chunks is a function of the content, so its loop (Chunking)  *)
(* is run once, before everything else. Other documents, which may push    *)
(* this one out of the first top_k results, are left out, and what a score *)
(* is: a vector is near or not. The task of an upload is retried until it  *)
(* is done; when it runs out of attempts, see TaskQueue.                   *)
(***************************************************************************)
EXTENDS Chunking

CONSTANTS
  Processes,  \* API and worker processes
  Scenarios   \* the surroundings of a behaviour, see Scenario

\* text: the content; processes: those that are started; sized: Qdrant tells the
\* dimension of the collection where the code looks for it; rebuild:
\* settings.rag_rebuild_on_startup; based: the knowledge base and the upload of the
\* document are there from the beginning; faults: bound of the calls that raise and the
\* processes that die; searching: somebody searches
Scenario == [text : Texts, processes : SUBSET Processes, sized : BOOLEAN,
             rebuild : BOOLEAN, based : BOOLEAN, faults : Nat, searching : BOOLEAN]

ASSUME ScenariosAssumption == \A e \in Scenarios : e \in Scenario

VARIABLES
  env,     \* the scenario: constant in a behaviour
  exists,  \* the collection exists
  points,  \* its points: the numbers of the pieces that are in it
  base,    \* the row of the document's knowledge base is there
  knows,   \* the processes that have this knowledge base in memory
  status,  \* documents.status, or "none"
  task,    \* the document has an index task that nobody works on
  pc,      \* where each process is
  errand,  \* what it does there: "build" (until it has loaded) or "reset" the collection,
           \* or a "task"
  put,     \* how many pieces it has upserted
  faults,  \* faults so far
  search,  \* where the search is, and its result
  phrase,  \* the phrase it is about, and the words it shares with the document
  near,    \* the best score of the document's vectors: above the threshold ("close"), above
           \* it only with words in common ("fair"), or not ("far")
  seen,    \* the points the vector search has compared with
  wiped,   \* history: the collection was deleted after the last run had cleared the index
  blind,   \* history: who deleted it last does not know the document
  upset    \* history: the index was not at rest during the search

storeVars == <<exists, points>>
baseVars == <<base, knows>>
processVars == <<pc, errand, put>>
searchVars == <<search, phrase, near, seen, upset>>
wipeVars == <<wiped, blind>>
vars == <<chunkVars, env, storeVars, baseVars, status, task, processVars, faults, searchVars, wipeVars>>

\* found .. absent are in _ensure_collection, reset and emptied in reset
EnsurePc == {"check", "found", "drop", "recheck", "absent"}
RunPc == {"begin", "embed", "clear", "put", "finish", "fail"}
ProcessPc == {"off", "load", "reset", "emptied", "list", "serving"} \cup EnsurePc \cup RunPc

Init ==
  /\ env \in Scenarios /\ text = env.text /\ Uncut
  /\ exists = FALSE /\ points = {}
  /\ base = env.based /\ knows = {}
  /\ status = (IF env.based THEN "parsed" ELSE "none") /\ task = env.based
  /\ pc = [p \in Processes |-> "off"] /\ errand = [p \in Processes |-> "build"]
  /\ put = [p \in Processes |-> 0]
  /\ faults = 0
  /\ search = "idle" /\ phrase = <<0, 0, "none">> /\ near = "far" /\ seen = {}
  /\ wiped = FALSE /\ blind = FALSE /\ upset = FALSE

Goto(p, s) == pc' = [pc EXCEPT ![p] = s]
Fault == faults < env.faults /\ faults' = faults + 1

AllPoints == 1..Len(pieces)

\* nobody starts or indexes, and the index of the document is to be complete
AtRest ==
  /\ \A p \in env.processes : pc[p] = "serving"
  /\ ~task /\ status = "ready" /\ ~wiped

\* Points are removed: the search has not seen an index at rest.
Disturb == upset' = (upset \/ search = "vectors")

-----------------------------------------------------------------------------
(* The collection *)

Start(p) ==
  /\ cut /\ pc[p] = "off" /\ p \in env.processes
  /\ Goto(p, "check") /\ errand' = [errand EXCEPT ![p] = "build"] /\ knows' = knows \ {p}
  /\ UNCHANGED <<chunkVars, env, storeVars, base, status, task, put, faults, searchVars, wipeVars>>

Check(p) ==
  /\ pc[p] = "check"
  /\ Goto(p, IF exists THEN "found" ELSE "recheck")
  /\ UNCHANGED <<chunkVars, env, storeVars, baseVars, status, task, errand, put, faults,
                 searchVars, wipeVars>>

\* what follows on _ensure_collection
Ensured(p) == Goto(p, IF errand[p] = "reset" THEN "list" ELSE "load")

\* p has the knowledge base in memory, or is still going to load it.
Informed(p) == IF pc[p] = "off" \/ errand[p] = "build" THEN base ELSE p \in knows

\* get_collection raises when the collection has gone. The dimension has not changed:
\* the collection stays if its size is found, and is deleted if it is not.
Inspect(p) ==
  /\ pc[p] = "found"
  /\ IF exists /\ env.sized THEN Ensured(p) ELSE Goto(p, IF exists THEN "drop" ELSE "off")
  /\ UNCHANGED <<chunkVars, env, storeVars, baseVars, status, task, errand, put, faults,
                 searchVars, wipeVars>>

\* delete_collection
DropCollection(p) ==
  /\ \/ pc[p] = "drop" /\ Goto(p, "recheck")
     \/ pc[p] = "emptied" /\ Goto(p, "check")
  /\ exists' = FALSE /\ points' = {}
  /\ wiped' = TRUE /\ blind' = (status # "none" /\ ~Informed(p)) /\ Disturb
  /\ UNCHANGED <<chunkVars, env, baseVars, status, task, errand, put, faults, search, phrase,
                 near, seen>>

Recheck(p) ==
  /\ pc[p] = "recheck"
  /\ IF exists THEN Ensured(p) ELSE Goto(p, "absent")
  /\ UNCHANGED <<chunkVars, env, storeVars, baseVars, status, task, errand, put, faults,
                 searchVars, wipeVars>>

\* create_collection raises when another process has been faster.
CreateCollection(p) ==
  /\ pc[p] = "absent"
  /\ IF exists THEN Goto(p, "off") ELSE Ensured(p)
  /\ exists' = TRUE
  /\ UNCHANGED <<chunkVars, env, points, baseVars, status, task, errand, put, faults,
                 searchVars, wipeVars>>

\* KnowledgeBaseService loads the knowledge bases; startup may rebuild the index.
LoadBases(p) ==
  /\ pc[p] = "load"
  /\ knows' = IF base THEN knows \cup {p} ELSE knows
  /\ IF env.rebuild THEN Goto(p, "reset") /\ errand' = [errand EXCEPT ![p] = "reset"]
                    ELSE Goto(p, "serving") /\ UNCHANGED errand
  /\ UNCHANGED <<chunkVars, env, storeVars, base, status, task, put, faults, searchVars, wipeVars>>

\* reset: the collection once more
Reset(p) ==
  /\ pc[p] = "reset"
  /\ Goto(p, IF exists THEN "emptied" ELSE "check")
  /\ UNCHANGED <<chunkVars, env, storeVars, baseVars, status, task, errand, put, faults,
                 searchVars, wipeVars>>

\* list_all_documents goes through the knowledge bases in the memory of the process.
ListDocuments(p) ==
  /\ pc[p] = "list"
  /\ Goto(p, IF p \in knows /\ status # "none" THEN "begin" ELSE "serving")
  /\ UNCHANGED <<chunkVars, env, storeVars, baseVars, status, task, errand, put, faults,
                 searchVars, wipeVars>>

-----------------------------------------------------------------------------
(* Adding the document *)

\* create_knowledge_base: in memory, and then its row
CreateBase(p) ==
  /\ pc[p] = "serving" /\ p \notin knows
  /\ knows' = knows \cup {p}
  /\ \/ base' = TRUE /\ UNCHANGED faults
     \/ Fault /\ UNCHANGED base
  /\ UNCHANGED <<chunkVars, env, storeVars, status, task, processVars, searchVars, wipeVars>>

\* an upload, up to its task: see DocumentIndex
Upload(p) ==
  /\ pc[p] = "serving" /\ p \in knows /\ status = "none"
  /\ status' = "parsed" /\ task' = TRUE
  /\ UNCHANGED <<chunkVars, env, storeVars, baseVars, processVars, faults, searchVars, wipeVars>>

-----------------------------------------------------------------------------
(* Index runs, see DocumentIndex: during a start, or for the task of an upload *)

TakeTask(p) ==
  /\ pc[p] = "serving" /\ task
  /\ task' = FALSE
  /\ Goto(p, "begin") /\ errand' = [errand EXCEPT ![p] = "task"]
  /\ UNCHANGED <<chunkVars, env, storeVars, baseVars, status, put, faults, searchVars, wipeVars>>

BeginRun(p) ==
  /\ pc[p] = "begin"
  /\ status' = "indexing" /\ Goto(p, "embed")
  /\ UNCHANGED <<chunkVars, env, storeVars, baseVars, task, errand, put, faults, searchVars, wipeVars>>

Embed(p) ==
  /\ pc[p] = "embed"
  /\ Goto(p, "clear")
  /\ UNCHANGED <<chunkVars, env, storeVars, baseVars, status, task, errand, put, faults,
                 searchVars, wipeVars>>

\* Qdrant refuses to delete from, or upsert into, a collection that does not exist.
Clear(p) ==
  /\ pc[p] = "clear"
  /\ IF exists
       THEN points' = {} /\ wiped' = FALSE /\ Disturb /\ Goto(p, "put")
       ELSE Goto(p, "fail") /\ UNCHANGED <<points, wiped, upset>>
  /\ put' = [put EXCEPT ![p] = 0]
  /\ UNCHANGED <<chunkVars, env, exists, baseVars, status, task, errand, faults, search, phrase,
                 near, seen,
                 blind>>

\* fault: every piece gets the id of the document
BadPointOf(i) == 1

\* _point_id
PointOf(i) == i

\* fault: the last piece is forgotten
BadComplete(p) == put[p] + 1 >= Len(pieces)

\* all pieces are upserted
Complete(p) == put[p] = Len(pieces)

Upsert(p) ==
  /\ pc[p] = "put"
  /\ IF Complete(p) THEN Goto(p, "finish") /\ UNCHANGED <<points, put>>
     ELSE IF exists
       THEN /\ points' = points \cup {PointOf(put[p] + 1)} /\ put' = [put EXCEPT ![p] = @ + 1]
            /\ UNCHANGED pc
       ELSE Goto(p, "fail") /\ UNCHANGED <<points, put>>
  /\ UNCHANGED <<chunkVars, env, exists, baseVars, status, task, errand, faults, searchVars, wipeVars>>

Finish(p) ==
  /\ pc[p] = "finish"
  /\ status' = "ready" /\ Goto(p, "serving")
  /\ UNCHANGED <<chunkVars, env, storeVars, baseVars, task, errand, put, faults, searchVars, wipeVars>>

\* fault: a start goes on after a run that has raised
BadFailed(p) ==
  /\ pc[p] = "fail"
  /\ status' = "failed" /\ Goto(p, "serving")
  /\ task' = (task \/ errand[p] = "task")
  /\ UNCHANGED <<chunkVars, env, storeVars, baseVars, errand, put, faults, searchVars, wipeVars>>

\* A run that raises ends the start of its process; the task of an upload is retried.
Raise(p) ==
  IF errand[p] = "task" THEN Goto(p, "serving") /\ task' = TRUE
                        ELSE Goto(p, "off") /\ UNCHANGED task

Failed(p) ==
  /\ pc[p] = "fail"
  /\ status' = "failed" /\ Raise(p)
  /\ UNCHANGED <<chunkVars, env, storeVars, baseVars, errand, put, faults, searchVars, wipeVars>>

\* The embedding client or Qdrant raises in a run.
RunFault(p) ==
  /\ pc[p] \in {"embed", "clear", "put"}
  /\ Fault /\ Goto(p, "fail")
  /\ UNCHANGED <<chunkVars, env, storeVars, baseVars, status, task, errand, put, searchVars, wipeVars>>

\* The database raises when a run writes the status.
StatusFault(p) ==
  /\ pc[p] \in {"begin", "finish", "fail"}
  /\ Fault /\ Raise(p)
  /\ UNCHANGED <<chunkVars, env, storeVars, baseVars, status, errand, put, searchVars, wipeVars>>

\* A call raises during the start, or the process dies; its task is delivered again.
Die(p) ==
  /\ pc[p] # "off"
  /\ Fault /\ Goto(p, "off")
  /\ task' = (task \/ (errand[p] = "task" /\ pc[p] \in RunPc))
  /\ UNCHANGED <<chunkVars, env, storeVars, baseVars, status, errand, put, searchVars, wipeVars>>

-----------------------------------------------------------------------------
(* A search for a phrase of the document *)

\* The words of the query that the document has: none, too few to be found by them
\* alone, enough.
Evidence == {"none", "weak", "enough"}

\* The query is embedded, unless the embedding raises or the process does not know the
\* knowledge base.
BeginSearch ==
  /\ search = "idle" /\ env.searching /\ status # "none"
  /\ \E a, b \in 0..(Length - 1), words \in Evidence : Phrase(a, b) /\ phrase' = <<a, b, words>>
  /\ \/ /\ \E p \in knows : pc[p] = "serving"
        /\ search' = "vectors" /\ upset' = ~AtRest /\ UNCHANGED faults
     \/ /\ \E p \in Processes \ knows : pc[p] = "serving"
        /\ search' = "error" /\ UNCHANGED <<upset, faults>>
     \/ /\ \E p \in knows : pc[p] = "serving"
        /\ search' = "error" /\ Fault /\ UNCHANGED upset
  /\ UNCHANGED <<chunkVars, env, storeVars, baseVars, status, task, processVars, near, seen, wipeVars>>

\* vector_store.search compares with what is there, and raises when the collection is not.
SearchVectors ==
  /\ search = "vectors"
  /\ \/ /\ exists
        /\ near' \in IF points = {} THEN {"far"} ELSE {"far", "fair", "close"}
        /\ seen' = points /\ search' = "documents" /\ UNCHANGED faults
     \/ ~exists /\ search' = "error" /\ UNCHANGED <<near, seen, faults>>
     \/ Fault /\ search' = "error" /\ UNCHANGED <<near, seen>>
  /\ UNCHANGED <<chunkVars, env, storeVars, baseVars, status, task, processVars, phrase, upset,
                 wipeVars>>

\* What the vectors have found counts if it is close, or fair and has words of the query;
\* enough words find the document alone.
Found == near = "close" \/ (near = "fair" /\ phrase[3] # "none") \/ phrase[3] = "enough"

\* The list of documents gives the words.
SearchDocuments ==
  /\ search = "documents"
  /\ \/ search' = (IF Found THEN "hit" ELSE "miss") /\ UNCHANGED faults
     \/ Fault /\ search' = "error"
  /\ UNCHANGED <<chunkVars, env, storeVars, baseVars, status, task, processVars, phrase, near, seen,
                 upset, wipeVars>>

-----------------------------------------------------------------------------

ProcessStep(p) ==
  \/ Start(p) \/ Check(p) \/ Inspect(p) \/ DropCollection(p) \/ Recheck(p) \/ CreateCollection(p)
  \/ LoadBases(p) \/ Reset(p) \/ ListDocuments(p) \/ CreateBase(p) \/ Upload(p)
  \/ TakeTask(p) \/ BeginRun(p) \/ Embed(p) \/ Clear(p) \/ Upsert(p) \/ Finish(p) \/ Failed(p)

SearchStep == BeginSearch \/ SearchVectors \/ SearchDocuments

ChunkStep ==
  /\ ChunkNext
  /\ UNCHANGED <<env, storeVars, baseVars, status, task, processVars, faults, searchVars, wipeVars>>

Next ==
  \/ ChunkStep
  \/ \E p \in Processes : ProcessStep(p) \/ RunFault(p) \/ StatusFault(p) \/ Die(p)
  \/ SearchStep

Spec == Init /\ [][Next]_vars

-----------------------------------------------------------------------------

\* The types of all variables but those of Chunking.
TypeOK ==
  /\ env \in Scenarios
  /\ exists \in BOOLEAN /\ points \subseteq Nat
  /\ base \in BOOLEAN /\ knows \subseteq Processes
  /\ status \in {"none", "parsed", "indexing", "ready", "failed"} /\ task \in BOOLEAN
  /\ pc \in [Processes -> ProcessPc] /\ errand \in [Processes -> {"build", "reset", "task"}]
  /\ put \in [Processes -> Nat] /\ faults \in Nat
  /\ search \in {"idle", "vectors", "documents", "hit", "miss", "error"}
  /\ near \in {"far", "fair", "close"} /\ seen \subseteq Nat
  /\ wiped \in BOOLEAN /\ blind \in BOOLEAN /\ upset \in BOOLEAN

\* there is a document, somebody serves, nobody starts, and no task is left
Settled ==
  /\ ~task /\ status # "none" /\ env.processes # {}
  /\ \A p \in env.processes : pc[p] = "serving"

\* However starts, rebuilds, index runs, failures and deaths have overlapped: once
\* they are over, the document has all its pieces in the index, unless the collection
\* was deleted after the last run had cleared it (RagService.index_document,
\* QdrantVectorStore.upsert).
Searchable == Settled /\ ~wiped => points = AllPoints

\* Then the document is "ready", and where every start rebuilds the index no deletion
\* of the collection is the last word, also not one by a process that started at the
\* same time, unless that process had loaded its knowledge bases before the document's
\* was created: it does not index again what it does not know (RagService.startup,
\* list_all_documents).
Rebuilt == Settled => status = "ready" /\ (env.rebuild /\ ~blind => ~wiped)

\* A search that begins while the index is at rest, and finds nothing removed before it
\* asks for the vectors, compares with a piece that has the whole phrase; whatever
\* happens to the index meanwhile, a query that has enough words of the document does not
\* miss it (RagService.search).
PhraseFound ==
  /\ search \in {"documents", "hit", "miss"} /\ ~upset =>
       \E i \in seen : phrase[1]..phrase[2] \subseteq pieces[i]
  /\ search = "miss" => phrase[3] # "enough"

\* Why Searchable and Rebuilt hold: a run is owed for the document, by its task, by its
\* upload to come, or by a process that is going to clear the index.
Owed ==
  \/ task \/ status = "none"
  \/ \E p \in env.processes :
       \/ pc[p] \in {"begin", "embed", "clear", "fail"}
       \/ env.rebuild /\ pc[p] \notin RunPc \cup {"serving"} /\ Informed(p)

DebtInv ==
  /\ \/ wiped \/ points = AllPoints \/ Owed
     \/ \E p \in Processes : pc[p] = "put" /\ 1..put[p] \subseteq points
  /\ wiped /\ env.rebuild /\ ~blind => Owed
  /\ \/ status = "ready" \/ Owed
     \/ \E p \in Processes : pc[p] \in {"put", "finish"}

\* A process that starts knows the knowledge base when it has loaded its row, and runs
\* only for a document that it knows.
BaseInv ==
  \A p \in Processes :
    /\ p \in knows /\ pc[p] \notin {"off", "serving"} =>
         errand[p] # "build" /\ (errand[p] = "reset" => base)
    /\ errand[p] = "reset" /\ pc[p] \in RunPc => p \in knows

\* what processes are about
ErrandInv ==
  /\ task => status # "none"
  /\ \A p \in Processes :
       /\ pc[p] # "off" => cut /\ p \in env.processes
       /\ errand[p] = "reset" => env.rebuild
       /\ errand[p] = "task" => pc[p] \in RunPc \cup {"off", "serving"}
       /\ pc[p] \in {"reset", "emptied", "list"} => errand[p] = "reset"
       /\ pc[p] \in RunPc => errand[p] # "build" /\ status # "none"

StoreInv ==
  /\ points \subseteq AllPoints /\ (points # {} => exists)
  /\ \A p \in Processes : pc[p] = "put" => put[p] <= Len(pieces)
  /\ ~cut => (task \/ status = "none") /\ points = {} /\ search = "idle"

\* Why PhraseFound holds: what a search has not been disturbed in is complete.
SearchInv ==
  /\ search # "idle" => Phrase(phrase[1], phrase[2])
  /\ search = "vectors" /\ ~upset => points = AllPoints
  /\ search \in {"documents", "hit", "miss"} /\ ~upset => seen = AllPoints

IInv ==
  /\ ChunkInv /\ TypeOK /\ ErrandInv /\ StoreInv /\ BaseInv /\ DebtInv /\ SearchInv /\ PhraseFound
=============================================================================
