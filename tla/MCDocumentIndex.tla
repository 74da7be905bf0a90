--------------------------- MODULE MCDocumentIndex ---------------------------
(* Instances of DocumentIndex for TLC. *)
EXTENDS DocumentIndex

CONSTANTS u, a, d  \* an upload, an add and a delete request

\* Uploads are cut into two chunks, added contents fit into one: the two are
\* stored under different point ids.
MCChunkCount == [r \in Requests |-> IF r \in Uploads THEN 2 ELSE 1]

Faultless == [f \in {"api", "apiCrash", "store", "run", "read", "status", "crash"} |-> 0]
Live(inline, deletes, bounds) == [inline |-> inline, deletes |-> deletes, bounds |-> bounds]

\* indexing by the worker, with every fault but the death of a request, an object store
\* that raises and a document that cannot be read
Queued == Live({}, {}, [Faultless EXCEPT !.api = 1, !.run = 2, !.status = 1, !.crash = 1])

\* an add that indexes inline, and a delete, each with some faults
Mixed ==
  {Live({a}, {d}, b) : b \in {[Faultless EXCEPT !.api = 1, !.apiCrash = 1],
                             [Faultless EXCEPT !.run = 1, !.status = 1],
                             [Faultless EXCEPT !.run = 1, !.crash = 1]}}

\* every attempt of a task may fail to write the status
Unrecorded == Live({}, {}, [Faultless EXCEPT !.run = 1, !.status = 2])

\* every attempt of a task may fail to read the document, also one that a dead worker
\* has left behind
Unread == {Live({}, {}, [Faultless EXCEPT !.read = 2, !.run = 1]),
           Live({}, {}, [Faultless EXCEPT !.read = 1, !.crash = 1])}

\* the object store raises when it stores, when the upload cleans up, when a delete
\* request removes the file
Unstored == Live({}, {d}, [Faultless EXCEPT !.api = 1, !.store = 1])

MCScenarios == {Queued, Unrecorded, Unstored} \cup Mixed \cup Unread

Calm == {Live({}, {}, Faultless)}
=============================================================================
