------------------------- MODULE DocumentIndexProofs -------------------------
(***************************************************************************)
(* About one document, for any number of requests and workers (one, where  *)
(* the property needs it), contents of any number of chunks, and any       *)
(* number of faults.                                                       *)
(***************************************************************************)
EXTENDS DocumentIndex, TLAPS

-----------------------------------------------------------------------------
(* Types *)

RequestMoves(r) == RequestStep(r) \/ ApiCrash(r)
IndexMoves(k) == IndexStep(k) \/ IndexFault(k)
DeleteMoves(d) == DeleteStep(d) \/ DeleteFault(d)

FaultKinds == {"api", "apiCrash", "store", "run", "read", "status", "crash"}

\* Another fault of a kind.
Another(f) == faults[f] < env.bounds[f] /\ faults' = [faults EXCEPT ![f] = @ + 1]

\* Faults are counted up to their bounds.
Counting ==
  /\ env' = env /\ faults' \in Counts
  /\ \A f \in DOMAIN faults' : faults'[f] <= env'.bounds[f]
  /\ \A f \in FaultKinds : faults[f] \in Nat /\ faults'[f] \in Nat /\ faults[f] <= faults'[f]

\* A fault stays within its bound.
LEMMA Counted ==
  ASSUME TypeOK, NEW f \in FaultKinds, Another(f), env' = env
  PROVE  Counting /\ faults'[f] = faults[f] + 1 /\ \A g \in FaultKinds \ {f} : faults'[g] = faults[g]
<1>1. /\ faults \in Counts /\ DOMAIN faults = FaultKinds
      /\ \A g \in DOMAIN faults : faults[g] <= env.bounds[g]
  BY DEF TypeOK, Counts, FaultKinds
<1>2. env \in Scenario
  BY BoundsAssumption DEF TypeOK
<1>3. \A g \in FaultKinds : faults[g] \in Nat /\ env.bounds[g] \in Nat
  BY <1>1, <1>2 DEF Counts, Scenario, FaultKinds
<1>4. DOMAIN faults' = DOMAIN faults /\ faults' \in Counts
  BY <1>1, <1>3 DEF Counts, Another, FaultKinds
<1>5. \A g \in FaultKinds : faults'[g] = IF g = f THEN faults[f] + 1 ELSE faults[g]
  BY <1>1 DEF Another
<1>6. \A g \in FaultKinds : faults'[g] <= env.bounds[g]
  BY <1>1, <1>3, <1>5 DEF Another
<1> QED
  BY <1>1, <1>3, <1>4, <1>5, <1>6 DEF Counting

\* What each fault counts as.
LEMMA FaultsOf ==
  /\ ApiFault <=> Another("api")
  /\ ApiDeath <=> Another("apiCrash")
  /\ StoreFault <=> Another("store")
  /\ \A k \in Indexers : /\ RunFault(k) => Another("run")
                         /\ ReadFault(k) => Another("read")
                         /\ StatusFault(k) => Another("status")
                         /\ Redeliver(k) => Another("crash")
BY DEF ApiFault, ApiDeath, StoreFault, RunFault, ReadFault, StatusFault, Redeliver, Another

\* No step takes a fault back.
LEMMA FaultsNext ==
  ASSUME TypeOK, [Next]_vars
  PROVE  Counting
<1>1. env' = env
  BY DEF Next, vars
<1>2. faults' = faults \/ \E f \in FaultKinds : Another(f)
  <2>1. ASSUME NEW r \in Requests, RequestMoves(r)
        PROVE  faults' = faults \/ ApiFault \/ ApiDeath \/ StoreFault
    BY <2>1 DEF RequestMoves, RequestStep, PutObject, LookUp, WriteRow, UploadParsed, Abort, EnqueueTask,
                AddParsed, IndexInline, ApiCrash
  <2>2. ASSUME NEW k \in Indexers, IndexMoves(k)
        PROVE  faults' = faults \/ RunFault(k) \/ ReadFault(k) \/ StatusFault(k) \/ Redeliver(k)
    BY <2>2 DEF IndexMoves, IndexStep, IndexFault, Take, GetDocument, Begin, Embed, Clear, Upsert, Finish,
                Failed, Ack
  <2>3. ASSUME NEW d \in Deletes, DeleteMoves(d)
        PROVE  faults' = faults \/ ApiFault \/ ApiDeath \/ StoreFault
    BY <2>3 DEF DeleteMoves, DeleteStep, DeleteRead, DeleteRow, DeleteVectors, DeleteObject, DeleteFault
  <2>4. \/ faults' = faults \/ ApiFault \/ ApiDeath \/ StoreFault
        \/ \E k \in Indexers : RunFault(k) \/ ReadFault(k) \/ StatusFault(k) \/ Redeliver(k)
    BY <2>1, <2>2, <2>3 DEF Next, vars, RequestMoves, IndexMoves, DeleteMoves
  <2> QED
    BY <2>4, FaultsOf DEF FaultKinds
<1>3. CASE faults' = faults
  <2>1. faults \in Counts /\ \A g \in DOMAIN faults : faults[g] <= env.bounds[g]
    BY DEF TypeOK
  <2>2. \A f \in FaultKinds : faults[f] \in Nat
    BY <2>1 DEF Counts, FaultKinds
  <2> QED
    BY <1>1, <1>3, <2>1, <2>2 DEF Counting
<1> QED
  BY <1>1, <1>2, <1>3, Counted

\* Attempts that were not recorded.
LEMMA MissedNext ==
  ASSUME TypeOK, [Next]_vars
  PROVE  /\ Missed \in Nat /\ Missed' \in Nat /\ Missed <= Missed'
         /\ \A k \in Indexers : ReadFault(k) \/ StatusFault(k) => Missed' = Missed + 1
<1>1. Counting
  BY FaultsNext
<1>2. Missed \in Nat /\ Missed' \in Nat /\ Missed <= Missed'
  BY <1>1 DEF Counting, FaultKinds, Missed
<1>3. ASSUME NEW k \in Indexers, ReadFault(k) PROVE Missed' = Missed + 1
  <2>1. faults'["read"] = faults["read"] + 1 /\ faults'["status"] = faults["status"]
    BY <1>1, <1>3, FaultsOf, Counted DEF Counting, FaultKinds
  <2> QED
    BY <1>1, <2>1 DEF Missed, Counting, FaultKinds
<1>4. ASSUME NEW k \in Indexers, StatusFault(k) PROVE Missed' = Missed + 1
  <2>1. faults'["status"] = faults["status"] + 1 /\ faults'["read"] = faults["read"]
    BY <1>1, <1>4, FaultsOf, Counted DEF Counting, FaultKinds
  <2> QED
    BY <1>1, <2>1 DEF Missed, Counting, FaultKinds
<1> QED
  BY <1>2, <1>3, <1>4

\* The row, the vectors and the requests.
RestTyped ==
  /\ row' \in Row \cup {NoRow} /\ points' \subseteq Point /\ object' \in BOOLEAN
  /\ tasks' \subseteq Task
  /\ req' \in [Requests -> ReqPc] /\ seen' \in [Requests -> Row \cup {NoRow}]
  /\ del' \in [Deletes -> {"start", "row", "vectors", "object", "done"}]
  /\ delSource' \in [Deletes -> BOOLEAN]
  /\ ipc' \in [Indexers -> IndexPc]
  /\ job' \in [Indexers -> Task \cup {NoRow}] /\ snap' \in [Indexers -> Requests \cup {NoRow}]
  /\ put' \in [Indexers -> Nat]

LEMMA RowFields ==
  ASSUME NEW x \in Row
  PROVE  /\ \A s \in Status : [x EXCEPT !.status = s] \in Row
         /\ \A r \in Requests : [x EXCEPT !.content = r] \in Row
         /\ [x EXCEPT !.status = "parsed", !.source = TRUE] \in Row
BY DEF Row, Status

LEMMA StatusTyped ==
  ASSUME TypeOK, NEW s \in Status, SetStatus(s)
  PROVE  /\ row' \in Row \cup {NoRow}
         /\ row = NoRow <=> row' = NoRow
         /\ row # NoRow => row'.content = row.content /\ row'.source = row.source /\ row'.status = s
<1>1. CASE row = NoRow
  BY <1>1 DEF SetStatus
<1>2. CASE row # NoRow
  <2>1. row \in Row /\ row' = [row EXCEPT !.status = s]
    BY <1>2 DEF SetStatus, TypeOK
  <2>2. row' \in Row
    BY <2>1, RowFields
  <2> QED
    BY <1>2, <2>1, <2>2, NoRowAssumption DEF Row
<1> QED
  BY <1>1, <1>2

LEMMA RequestTyped ==
  ASSUME TypeOK, ParsedInv, NEW r \in Requests, RequestMoves(r)
  PROVE  RestTyped
<1> USE DEF TypeOK, RestTyped
<1>1. CASE PutObject(r) \/ LookUp(r)
  <2>1. CASE PutObject(r)
    BY <2>1 DEF PutObject, SetReq, delVars, runVars, ReqPc
  <2>2. CASE LookUp(r)
    BY <2>2 DEF LookUp, SetReq, delVars, runVars, rowVars, ReqPc
  <2> QED
    BY <1>1, <2>1, <2>2
<1>2. CASE WriteRow(r)
  <2>1. FirstRow(r) \in Row /\ (seen[r] # NoRow => [seen[r] EXCEPT !.content = r] \in Row)
    <3>1. FirstRow(r) \in Row
      BY DEF FirstRow, Row, Status
    <3>2. seen[r] # NoRow => seen[r] \in Row
      OBVIOUS
    <3> QED
      BY <3>1, <3>2, RowFields
  <2>2. row' \in {row, NoRow, FirstRow(r)} \/ (seen[r] # NoRow /\ row' = [seen[r] EXCEPT !.content = r])
    BY <1>2 DEF WriteRow
  <2>3. row' \in Row \cup {NoRow}
    BY <2>1, <2>2
  <2> QED
    BY <1>2, <2>3 DEF WriteRow, Abandon, SetReq, delVars, runVars, ReqPc
<1>3. CASE UploadParsed(r)
  <2>1. PICK parsed : parsed = [row EXCEPT !.status = "parsed", !.source = TRUE]
    OBVIOUS
  <2>2. row # NoRow => parsed \in Row
    BY <2>1, RowFields
  <2>3. /\ row' = row \/ (row # NoRow /\ row' = parsed)
        /\ (seen' = seen \/ (row # NoRow /\ seen' = [seen EXCEPT ![r] = parsed]))
        /\ \E s \in {"parsed", "failed", "aborting"} : SetReq(r, s)
        /\ UNCHANGED <<points, object, tasks, delVars, runVars>>
    BY <1>3, <2>1 DEF UploadParsed, Abandon
  <2>4. row' \in Row \cup {NoRow} /\ seen' \in [Requests -> Row \cup {NoRow}]
    BY <2>2, <2>3
  <2>5. req' \in [Requests -> ReqPc]
    BY <2>3 DEF SetReq, ReqPc
  <2> QED
    BY <2>3, <2>4, <2>5 DEF delVars, runVars
<1>4. CASE EnqueueTask(r)
  <2>1. NewTask(r) \in Task
    BY BoundsAssumption DEF NewTask, Task
  <2> QED
    BY <1>4, <2>1 DEF EnqueueTask, SetReq, rowVars, delVars, runVars, ReqPc
<1>5. CASE AddParsed(r)
  <2>1. row' \in Row \cup {NoRow}
    BY <1>5, StatusTyped DEF AddParsed, Status
  <2> QED
    BY <1>5, <2>1 DEF AddParsed, SetReq, delVars, runVars, ReqPc
<1>6. CASE IndexInline(r)
  <2>1. r \in Uploads => seen[r].content \in Requests
    BY <1>6, UploadsAssumption DEF IndexInline, ParsedInv, Row, Requests
  <2>2. (IF r \in Uploads THEN seen[r].content ELSE r) \in Requests
    BY <2>1
  <2>3. snap' \in [Indexers -> Requests \cup {NoRow}]
    BY <1>6, <2>2 DEF IndexInline
  <2> QED
    BY <1>6, <2>3 DEF IndexInline, SetReq, rowVars, delVars, ReqPc, IndexPc
<1>7. CASE ApiCrash(r)
  BY <1>7 DEF ApiCrash, SetReq, rowVars, delVars, ReqPc, IndexPc
<1>8. CASE Abort(r)
  BY <1>8 DEF Abort, SetReq, delVars, runVars, ReqPc
<1> QED
  BY <1>1, <1>2, <1>3, <1>4, <1>5, <1>6, <1>7, <1>8 DEF RequestMoves, RequestStep

\* A run that raises leaves its task to another attempt.
LEMMA RaiseTyped ==
  ASSUME TypeOK, RunInv, NEW k \in Indexers, ipc[k] # "idle", Raise(k)
  PROVE  /\ ipc' = [ipc EXCEPT ![k] = IF k \in env.inline THEN "idle" ELSE "ack"]
         /\ req' = IF k \in env.inline THEN [req EXCEPT ![k] = "failed"] ELSE req
         /\ tasks' \subseteq Task /\ tasks \subseteq tasks'
         /\ k \in Workers => k \notin env.inline /\ job[k] \in Task
         /\ k \in Workers /\ job[k].attempts + 1 < MaxAttempts =>
              [job[k] EXCEPT !.attempts = job[k].attempts + 1] \in tasks'
         /\ req' \in [Requests -> ReqPc] /\ ipc' \in [Indexers -> IndexPc]
<1>1. /\ env.inline \subseteq Requests
      /\ k \in Workers => k \notin env.inline
  BY BoundsAssumption, UploadsAssumption DEF TypeOK, Scenario
<1>2. k \in Requests \cup Workers
  BY DEF Indexers
<1>3. CASE k \in env.inline
  BY <1>1, <1>3 DEF Raise, Step, SetReq, TypeOK, ReqPc, IndexPc
<1>4. CASE k \notin env.inline
  <2>1. k \in Workers /\ job[k] \in Task
    BY <1>2, <1>4 DEF RunInv
  <2>2. job[k].attempts \in 0..(MaxAttempts - 1) /\ MaxAttempts \in Nat
    BY <2>1, BoundsAssumption DEF Task
  <2>3. PICK retry : retry = [job[k] EXCEPT !.attempts = job[k].attempts + 1]
    OBVIOUS
  <2>4. retry.attempts = job[k].attempts + 1
    BY <2>1, <2>3 DEF Task
  <2>5. retry.attempts < MaxAttempts => retry \in Task
    BY <2>1, <2>2, <2>3, <2>4 DEF Task
  <2>6. /\ tasks' = IF retry.attempts >= MaxAttempts THEN tasks ELSE tasks \cup {retry}
        /\ ipc' = [ipc EXCEPT ![k] = "ack"] /\ req' = req
    BY <1>4, <2>3 DEF Raise, Step
  <2>7. /\ tasks' \subseteq Task /\ tasks \subseteq tasks'
        /\ retry.attempts < MaxAttempts => retry \in tasks'
    BY <2>2, <2>4, <2>5, <2>6 DEF TypeOK
  <2>8. req' \in [Requests -> ReqPc] /\ ipc' \in [Indexers -> IndexPc]
    BY <2>6 DEF TypeOK, IndexPc
  <2> QED
    BY <1>1, <1>4, <2>1, <2>3, <2>4, <2>6, <2>7, <2>8
<1> QED
  BY <1>3, <1>4

LEMMA IndexTyped ==
  ASSUME TypeOK, RunInv, NEW k \in Indexers, IndexMoves(k)
  PROVE  RestTyped
<1> USE DEF TypeOK, RestTyped
<1>1. CASE Take(k)
  BY <1>1 DEF Take, Step, rowVars, reqVars, delVars, IndexPc
<1>2. CASE GetDocument(k)
  <2>1. CASE row # NoRow /\ snap' = [snap EXCEPT ![k] = row.content] /\ Step(k, "begin")
             /\ UNCHANGED <<tasks, req>>
    <3>1. row.content \in Requests
      BY <2>1 DEF Row
    <3> QED
      BY <1>2, <2>1, <3>1 DEF GetDocument, Step, rowVars, delVars, IndexPc
  <2>2. CASE Raise(k) /\ UNCHANGED snap
    BY <1>2, <2>2, RaiseTyped DEF GetDocument, rowVars, delVars
  <2> QED
    BY <1>2, <2>1, <2>2 DEF GetDocument
<1>3. CASE Begin(k)
  <2>1. row' \in Row \cup {NoRow}
    BY <1>3, StatusTyped DEF Begin, Status
  <2> QED
    BY <1>3, <2>1 DEF Begin, Step, reqVars, delVars, IndexPc
<1>4. CASE Embed(k) \/ Ack(k)
  BY <1>4 DEF Embed, Ack, Step, rowVars, reqVars, delVars, IndexPc
<1>5. CASE Clear(k)
  BY <1>5 DEF Clear, Remaining, Step, reqVars, delVars, IndexPc
<1>6. CASE Upsert(k)
  <2>1. snap[k] \in Requests /\ put[k] \in Nat
    BY <1>6 DEF Upsert, RunInv, Working
  <2>2. Key(snap[k], put[k] + 1) \in Nat
    BY <2>1 DEF Key
  <2>3. [key |-> Key(snap[k], put[k] + 1), content |-> snap[k]] \in Point
    BY <2>1, <2>2 DEF Point
  <2>4. points' \subseteq Point
    BY <1>6, <2>3 DEF Upsert
  <2> QED
    BY <1>6, <2>1, <2>4 DEF Upsert, Step, reqVars, delVars, IndexPc
<1>7. CASE Finish(k)
  <2>1. row' \in Row \cup {NoRow}
    BY <1>7, StatusTyped DEF Finish, Status
  <2>2. env.inline \subseteq Requests
    BY BoundsAssumption DEF Scenario
  <2> QED
    BY <1>7, <2>1, <2>2 DEF Finish, Step, SetReq, delVars, IndexPc, ReqPc
<1>8. CASE Failed(k)
  <2>1. row' \in Row \cup {NoRow}
    BY <1>8, StatusTyped DEF Failed, Status
  <2> QED
    BY <1>8, <2>1, RaiseTyped DEF Failed, delVars
<1>9. CASE RunFault(k)
  BY <1>9 DEF RunFault, Step, rowVars, reqVars, delVars, IndexPc
<1>10. CASE ReadFault(k) \/ StatusFault(k)
  BY <1>10, RaiseTyped DEF ReadFault, StatusFault, rowVars, delVars
<1>11. CASE Redeliver(k)
  <2>1. job[k] \in Task
    BY <1>11 DEF Redeliver, RunInv
  <2> QED
    BY <1>11, <2>1 DEF Redeliver, Step, rowVars, reqVars, delVars, IndexPc
<1> QED
  BY <1>1, <1>2, <1>3, <1>4, <1>5, <1>6, <1>7, <1>8, <1>9, <1>10, <1>11
     DEF IndexMoves, IndexStep, IndexFault

LEMMA DeleteTyped ==
  ASSUME TypeOK, NEW d \in Deletes, DeleteMoves(d)
  PROVE  RestTyped
<1>1. row # NoRow => row.source \in BOOLEAN
  BY DEF TypeOK, Row
<1> QED
  BY <1>1 DEF DeleteMoves, DeleteStep, DeleteRead, DeleteRow, DeleteVectors, DeleteObject, DeleteFault,
              SetDel, rowVars, reqVars, runVars, TypeOK, RestTyped

LEMMA TypeNext ==
  ASSUME TypeOK, RunInv, ParsedInv, [Next]_vars
  PROVE  TypeOK'
<1>1. CASE UNCHANGED vars
  BY <1>1 DEF vars, rowVars, reqVars, delVars, runVars, TypeOK
<1>2. CASE Next
  <2>1. RestTyped
    BY <1>2, RequestTyped, IndexTyped, DeleteTyped DEF Next, RequestMoves, IndexMoves, DeleteMoves
  <2>2. Counting
    BY FaultsNext
  <2> QED
    BY <2>1, <2>2 DEF TypeOK, RestTyped, Counting
<1> QED
  BY <1>1, <1>2

-----------------------------------------------------------------------------
(* Runs and who executes them *)

LEMMA Kinds ==
  TypeOK => env.inline \subseteq Requests /\ \A k \in Workers : k \notin Requests /\ k \notin env.inline
BY BoundsAssumption, UploadsAssumption DEF TypeOK, Scenario

\* A request touches nobody else's run and no other request.
LEMMA RequestRuns ==
  ASSUME TypeOK, NEW r \in Requests, RequestMoves(r)
  PROVE  /\ \A k \in Indexers : k # r =>
              ipc'[k] = ipc[k] /\ job'[k] = job[k] /\ snap'[k] = snap[k] /\ put'[k] = put[k]
         /\ \A s \in Requests : s # r => req'[s] = req[s] /\ seen'[s] = seen[s]
BY DEF RequestMoves, RequestStep, PutObject, LookUp, WriteRow, Abort, Abandon, UploadParsed,
       EnqueueTask, AddParsed,
       IndexInline, ApiCrash, SetReq, delVars, runVars, reqVars, TypeOK

\* An upload that goes on to its task has read its row.
LEMMA ParsedRow ==
  ASSUME TypeOK, NEW r \in Uploads, RequestMoves(r), req'[r] = "parsed"
  PROVE  seen'[r] \in Row
<1>1. r \in Requests /\ r \notin Adds
  BY UploadsAssumption DEF Requests
<1>2. UploadParsed(r)
  BY <1>1 DEF RequestMoves, RequestStep, PutObject, LookUp, WriteRow, Abort, Abandon, EnqueueTask, AddParsed,
              IndexInline, ApiCrash, SetReq, TypeOK
<1>3. PICK parsed : parsed = [row EXCEPT !.status = "parsed", !.source = TRUE]
  OBVIOUS
<1>4. row # NoRow => parsed \in Row
  BY <1>3, RowFields DEF TypeOK
<1>5. row # NoRow /\ seen' = [seen EXCEPT ![r] = parsed]
  BY <1>1, <1>2, <1>3 DEF UploadParsed, Abandon, SetReq, TypeOK
<1> QED
  BY <1>1, <1>4, <1>5 DEF TypeOK

\* An indexer touches nobody else's run, and no request but its own.
LEMMA IndexRuns ==
  ASSUME TypeOK, RunInv, NEW k \in Indexers, IndexMoves(k)
  PROVE  /\ \A v \in Indexers : v # k =>
              ipc'[v] = ipc[v] /\ job'[v] = job[v] /\ snap'[v] = snap[v] /\ put'[v] = put[v]
         /\ seen' = seen
         /\ \/ req' = req
            \/ /\ k \in env.inline /\ ipc'[k] = "idle"
               /\ \E s \in {"done", "failed"} : req' = [req EXCEPT ![k] = s]
<1> USE DEF TypeOK
<1>1. CASE Take(k) \/ Begin(k) \/ Embed(k) \/ Clear(k) \/ Upsert(k) \/ Ack(k) \/ RunFault(k) \/ Redeliver(k)
  BY <1>1 DEF Take, Begin, Embed, Clear, Upsert, Ack, RunFault, Redeliver, Step, reqVars, runVars
<1>2. CASE Finish(k)
  BY <1>2 DEF Finish, Step, SetReq
<1>3. CASE Failed(k) \/ ReadFault(k) \/ StatusFault(k) \/ (GetDocument(k) /\ Raise(k) /\ UNCHANGED snap)
  <2>1. ipc[k] # "idle" /\ Raise(k) /\ UNCHANGED <<seen, job, snap, put>>
    BY <1>3 DEF Failed, ReadFault, StatusFault, GetDocument
  <2>2. /\ ipc' = [ipc EXCEPT ![k] = IF k \in env.inline THEN "idle" ELSE "ack"]
        /\ req' = IF k \in env.inline THEN [req EXCEPT ![k] = "failed"] ELSE req
    BY <2>1, RaiseTyped
  <2>3. (\A v \in Indexers : v # k => ipc'[v] = ipc[v]) /\ (k \in env.inline => ipc'[k] = "idle")
    BY <2>2
  <2> QED
    BY <2>1, <2>2, <2>3
<1>4. CASE GetDocument(k) /\ Step(k, "begin") /\ UNCHANGED <<tasks, req>>
           /\ snap' = [snap EXCEPT ![k] = row.content]
  BY <1>4 DEF GetDocument, Step
<1> QED
  BY <1>1, <1>2, <1>3, <1>4 DEF IndexMoves, IndexStep, IndexFault, GetDocument

LEMMA RunNext ==
  ASSUME TypeOK, RunInv, ParsedInv, [Next]_vars
  PROVE  RunInv' /\ ParsedInv'
<1>1. env' = env /\ TypeOK'
  BY FaultsNext, TypeNext DEF Counting
<1>2. ASSUME NEW r \in Requests, RequestMoves(r) PROVE RunInv' /\ ParsedInv'
  <2>1. r \notin Workers /\ r \in Indexers
    BY Kinds DEF Indexers
  <2>2. /\ ipc'[r] # "idle" => r \in env.inline /\ req'[r] = "indexing" /\ ipc'[r] \in Working
        /\ ipc'[r] \in Working => snap'[r] \in Requests
    <3>1. CASE ipc[r] # "idle"
      <4>1. req[r] = "indexing" /\ r \in env.inline /\ ipc[r] \in Working
        BY <2>1, <3>1 DEF RunInv
      <4>2. ApiCrash(r)
        BY <1>2, <4>1, UploadsAssumption DEF RequestMoves, RequestStep, PutObject, LookUp, WriteRow,
               UploadParsed, Abort, EnqueueTask,
                       AddParsed, IndexInline
      <4>3. ipc'[r] = "idle"
        BY <2>1, <4>2 DEF ApiCrash
      <4> QED
        BY <4>3 DEF Working
    <3>2. CASE ipc[r] = "idle"
      <4>1. CASE IndexInline(r)
        <5>1. ipc'[r] = "begin" /\ req'[r] = "indexing" /\ r \in env.inline
          BY <2>1, <4>1 DEF IndexInline, SetReq, TypeOK
        <5>2. r \in Uploads => seen[r].content \in Requests
          BY <4>1, UploadsAssumption DEF IndexInline, ParsedInv, Row, Requests
        <5>3. snap'[r] \in Requests
          BY <2>1, <4>1, <5>2 DEF IndexInline, TypeOK
        <5> QED
          BY <5>1, <5>3 DEF Working
      <4>2. CASE ~IndexInline(r)
        <5>1. ipc'[r] = "idle"
          BY <1>2, <2>1, <3>2, <4>2 DEF RequestMoves, RequestStep, PutObject, LookUp, WriteRow,
                 UploadParsed, Abort,
                         EnqueueTask, AddParsed, ApiCrash, runVars, TypeOK
        <5> QED
          BY <5>1 DEF Working
      <4> QED
        BY <4>1, <4>2
    <3> QED
      BY <3>1, <3>2
  <2>3. RunInv'
    <3>1. \A k \in Indexers : k # r => ipc'[k] = ipc[k] /\ job'[k] = job[k] /\ snap'[k] = snap[k]
      BY <1>2, RequestRuns
    <3>2. \A s \in Requests : s # r => req'[s] = req[s]
      BY <1>2, RequestRuns
    <3> QED
      BY <1>1, <2>1, <2>2, <3>1, <3>2 DEF RunInv, Indexers
  <2>4. ParsedInv'
    <3>1. r \in Uploads /\ req'[r] = "parsed" => seen'[r] \in Row
      BY <1>2, <1>1, ParsedRow
    <3> QED
      BY <1>2, <3>1, RequestRuns DEF ParsedInv, Requests
  <2> QED
    BY <2>3, <2>4
<1>3. ASSUME NEW k \in Indexers, IndexMoves(k) PROVE RunInv' /\ ParsedInv'
  <2>1. /\ \A v \in Indexers : v # k => ipc'[v] = ipc[v] /\ job'[v] = job[v] /\ snap'[v] = snap[v]
        /\ seen' = seen
        /\ \/ req' = req
           \/ k \in env.inline /\ ipc'[k] = "idle" /\ \E s \in {"done", "failed"} : req' = [req EXCEPT ![k] = s]
    BY <1>3, IndexRuns
  <2>2. k \notin Workers => k \in Requests
    BY DEF Indexers
  <2>3. /\ ipc'[k] # "idle" => IF k \in Workers THEN job'[k] \in Task
                              ELSE k \in env.inline /\ req[k] = "indexing" /\ ipc'[k] \in Working
        /\ ipc'[k] \in Working => snap'[k] \in Requests
    <3>1. CASE Take(k)
      BY <3>1, Kinds DEF Take, Step, TypeOK, Working
    <3>2. CASE GetDocument(k)
      <4>1. k \in Workers /\ job[k] \in Task
        BY <3>2 DEF GetDocument, RunInv, Working
      <4>2. CASE row # NoRow /\ snap' = [snap EXCEPT ![k] = row.content] /\ Step(k, "begin")
        BY <3>2, <4>1, <4>2 DEF GetDocument, Step, TypeOK, Row
      <4>3. CASE Raise(k)
        <5>1. ipc' = [ipc EXCEPT ![k] = IF k \in env.inline THEN "idle" ELSE "ack"]
          BY <3>2, <4>3, RaiseTyped DEF GetDocument
        <5> QED
          BY <3>2, <4>1, <5>1 DEF GetDocument, Working, TypeOK
      <4> QED
        BY <3>2, <4>2, <4>3 DEF GetDocument
    <3>3. CASE Begin(k) \/ Embed(k) \/ Clear(k) \/ Upsert(k) \/ RunFault(k)
      <4>1. ipc[k] \in Working /\ ipc'[k] \in Working /\ job' = job /\ snap' = snap
        BY <3>3 DEF Begin, Embed, Clear, Upsert, RunFault, Step, Working, TypeOK
      <4>2. ipc[k] # "idle"
        BY <4>1 DEF Working
      <4> QED
        BY <4>1, <4>2 DEF RunInv
    <3>6. CASE ReadFault(k)
      <4>1. k \in Workers /\ job[k] \in Task
        BY <3>6 DEF ReadFault, RunInv, Working
      <4>2. ipc' = [ipc EXCEPT ![k] = IF k \in env.inline THEN "idle" ELSE "ack"]
        BY <3>6, RaiseTyped DEF ReadFault
      <4> QED
        BY <3>6, <4>1, <4>2 DEF ReadFault, Working, TypeOK
    <3>4. CASE Finish(k) \/ Failed(k) \/ StatusFault(k)
      <4>1. ipc[k] \in Working /\ ipc[k] # "idle" /\ job' = job
        BY <3>4 DEF Finish, Failed, StatusFault, Working
      <4>2. ipc' = [ipc EXCEPT ![k] = IF k \in env.inline THEN "idle" ELSE "ack"]
        BY <3>4, <4>1, RaiseTyped DEF Finish, Failed, StatusFault, Step
      <4> QED
        BY <4>1, <4>2 DEF RunInv, TypeOK, Working
    <3>5. CASE Ack(k) \/ Redeliver(k)
      <4>1. /\ ipc'[k] = "idle" \/ (ipc' = ipc /\ ipc[k] # "idle")
            /\ job' = job /\ snap' = snap
        BY <3>5 DEF Ack, Redeliver, Step, TypeOK
      <4> QED
        BY <4>1 DEF RunInv, Working
    <3> QED
      BY <1>3, <3>1, <3>2, <3>3, <3>4, <3>5, <3>6 DEF IndexMoves, IndexStep, IndexFault
  <2>4. \A v \in Requests : v # k => req'[v] = req[v]
    BY <2>1 DEF TypeOK
  <2>5. \A v \in Requests : req'[v] = "parsed" => req[v] = "parsed"
    <3>1. CASE req' = req
      BY <3>1
    <3>2. ASSUME NEW s \in {"done", "failed"}, req' = [req EXCEPT ![k] = s]
          PROVE  \A v \in Requests : req'[v] = "parsed" => req[v] = "parsed"
      BY <3>2 DEF TypeOK
    <3> QED
      BY <2>1, <3>1, <3>2
  <2>6. RunInv'
    <3>1. \A v \in Indexers : v # k /\ v \notin Workers => req'[v] = req[v]
      BY <2>4 DEF Indexers
    <3>2. ipc'[k] # "idle" => req' = req
      BY <2>1
    <3> QED
      BY <1>1, <2>1, <2>3, <3>1, <3>2 DEF RunInv
  <2>7. ParsedInv'
    BY <2>1, <2>5 DEF ParsedInv, Requests
  <2> QED
    BY <2>6, <2>7
<1>4. CASE UNCHANGED vars \/ \E d \in Deletes : DeleteMoves(d)
  <2>1. UNCHANGED <<reqVars, runVars>>
    BY <1>4 DEF DeleteMoves, DeleteStep, DeleteRead, DeleteRow, DeleteVectors, DeleteObject, DeleteFault, vars
  <2> QED
    BY <1>1, <2>1 DEF reqVars, runVars, RunInv, ParsedInv
<1> QED
  BY <1>2, <1>3, <1>4 DEF Next, RequestMoves, IndexMoves, DeleteMoves

-----------------------------------------------------------------------------
(* A document that is only uploaded *)

LEMMA InitInv ==
  Init => IInv
<1> SUFFICES ASSUME Init PROVE IInv
  OBVIOUS
<1>1. TypeOK
  <2>1. env \in Scenario
    BY BoundsAssumption DEF Init
  <2>2. \A f \in DOMAIN faults : faults[f] <= env.bounds[f]
    BY <2>1 DEF Init, Scenario, Counts
  <2> QED
    BY <2>2 DEF Init, TypeOK, ReqPc, IndexPc, Counts
<1>2. RunInv /\ ParsedInv /\ PutInv /\ ReadyInv /\ SettleInv
  BY DEF Init, RunInv, ParsedInv, PutInv, ReadyInv, SettleInv, Working, Indexers, Requests
<1>3. UploadInv
  BY DEF Init, UploadInv, Requests
<1> QED
  BY <1>1, <1>2, <1>3 DEF IInv

\* A request moves forward: it does not begin twice, and an error is its end.
LEMMA RequestForward ==
  ASSUME TypeOK, NEW r \in Requests, RequestMoves(r)
  PROVE  req[r] # "failed" /\ req'[r] # "start" /\ del' = del
BY DEF RequestMoves, RequestStep, PutObject, LookUp, WriteRow, Abort, Abandon, UploadParsed,
       EnqueueTask, AddParsed,
       IndexInline, ApiCrash, SetReq, delVars, TypeOK

\* What a run may do to the row, the file and the requests.
LEMMA IndexForward ==
  ASSUME TypeOK, RunInv, NEW k \in Indexers, IndexMoves(k)
  PROVE  /\ object' = object /\ del' = del /\ seen' = seen
         /\ row = NoRow <=> row' = NoRow
         /\ row # NoRow => row'.content = row.content /\ row'.source = row.source
         /\ \/ req' = req
            \/ /\ k \in env.inline /\ req[k] = "indexing"
               /\ \E s \in {"done", "failed"} : req' = [req EXCEPT ![k] = s]
<1>1. object' = object /\ del' = del
  BY DEF IndexMoves, IndexStep, IndexFault, Take, GetDocument, Begin, Embed, Clear, Upsert, Finish,
         Failed, Ack,
         RunFault, ReadFault, StatusFault, Redeliver, rowVars, delVars
<1>2. row' = row \/ \E s \in Status : SetStatus(s)
  BY DEF IndexMoves, IndexStep, IndexFault, Take, GetDocument, Begin, Embed, Clear, Upsert, Finish,
         Failed, Ack,
         RunFault, ReadFault, StatusFault, Redeliver, rowVars, Status
<1>3. /\ row = NoRow <=> row' = NoRow
      /\ row # NoRow => row'.content = row.content /\ row'.source = row.source
  BY <1>2, StatusTyped
<1>4. /\ seen' = seen
      /\ \/ req' = req
         \/ k \in env.inline /\ \E s \in {"done", "failed"} : req' = [req EXCEPT ![k] = s]
  BY IndexRuns
<1>5. k \in env.inline => req[k] = "indexing"
  <2>1. k \in env.inline => k \notin Workers
    BY Kinds
  <2>2. ipc[k] # "idle" \/ k \in Workers
    BY DEF IndexMoves, IndexStep, IndexFault, Take, GetDocument, Begin, Embed, Clear, Upsert, Finish,
           Failed, Ack,
           RunFault, ReadFault, StatusFault, Redeliver
  <2> QED
    BY <2>1, <2>2 DEF RunInv
<1> QED
  BY <1>1, <1>3, <1>4, <1>5

LEMMA DeleteForward ==
  ASSUME TypeOK, NEW d \in Deletes, DeleteMoves(d)
  PROVE  del'[d] # "start" /\ UNCHANGED <<reqVars, runVars, tasks>>
         /\ \A e \in Deletes : e # d => del'[e] = del[e]
BY DEF DeleteMoves, DeleteStep, DeleteRead, DeleteRow, DeleteVectors, DeleteObject, DeleteFault, SetDel, TypeOK

\* What has begun has begun, and what has failed has failed.
LEMMA Forward ==
  ASSUME TypeOK, RunInv, [Next]_vars
  PROVE  /\ \A r \in Requests : (req'[r] = "start" => req[r] = "start")
                               /\ (req[r] = "failed" => req'[r] = "failed")
         /\ \A d \in Deletes : del'[d] = "start" => del[d] = "start"
<1>1. ASSUME NEW r \in Requests, RequestMoves(r)
      PROVE  /\ \A s \in Requests : (req'[s] = "start" => req[s] = "start")
                                   /\ (req[s] = "failed" => req'[s] = "failed")
             /\ del' = del
  BY <1>1, RequestForward, RequestRuns
<1>2. ASSUME NEW k \in Indexers, IndexMoves(k)
      PROVE  /\ \A s \in Requests : (req'[s] = "start" => req[s] = "start")
                                   /\ (req[s] = "failed" => req'[s] = "failed")
             /\ del' = del
  <2>1. del' = del /\ (req' = req \/ (req[k] = "indexing" /\ \E s \in {"done", "failed"} : req' = [req EXCEPT ![k] = s]))
    BY <1>2, IndexForward
  <2>2. ASSUME NEW s \in {"done", "failed"}, req[k] = "indexing", req' = [req EXCEPT ![k] = s], NEW r \in Requests
        PROVE  (req'[r] = "start" => req[r] = "start") /\ (req[r] = "failed" => req'[r] = "failed")
    BY <2>2 DEF TypeOK
  <2> QED
    BY <2>1, <2>2
<1>3. ASSUME NEW d \in Deletes, DeleteMoves(d)
      PROVE  req' = req /\ \A e \in Deletes : del'[e] = "start" => del[e] = "start"
  BY <1>3, DeleteForward DEF reqVars
<1>4. CASE UNCHANGED vars
  BY <1>4 DEF vars, reqVars, delVars
<1> QED
  BY <1>1, <1>2, <1>3, <1>4 DEF Next, RequestMoves, IndexMoves, DeleteMoves

\* As long as there are only uploads, there have only been uploads.
LEMMA UploadSteps ==
  ASSUME TypeOK, RunInv, [Next]_vars, OnlyUploads'
  PROVE  /\ OnlyUploads
         /\ \/ UNCHANGED vars
            \/ \E u \in Uploads : RequestMoves(u) /\ \A v \in Uploads : v = u
            \/ \E k \in Indexers : IndexMoves(k)
<1>1. OnlyUploads
  BY Forward DEF OnlyUploads, NoDelete, Requests
<1>2. ASSUME NEW r \in Requests, RequestMoves(r)
      PROVE  r \in Uploads /\ \A v \in Uploads : v = r
  BY <1>2, RequestForward, UploadsAssumption DEF OnlyUploads, Requests
<1>3. ASSUME NEW d \in Deletes, DeleteMoves(d) PROVE FALSE
  BY <1>3, DeleteForward DEF OnlyUploads, NoDelete
<1> QED
  BY <1>1, <1>2, <1>3 DEF Next, RequestMoves, IndexMoves, DeleteMoves

\* What the one upload does to the row and the file.
LEMMA UploadMoves ==
  ASSUME TypeOK, UploadInv, OnlyUploads, NEW u \in Uploads, \A v \in Uploads : v = u, RequestMoves(u)
  PROVE  \/ /\ req[u] \in {"start", "stored"} /\ row = NoRow /\ row' = NoRow /\ UNCHANGED <<tasks, ipc>>
            /\ \/ req'[u] = "stored"
               \/ req'[u] = "looked" /\ seen'[u] = NoRow
               \/ req[u] = "start" /\ req'[u] = "failed" /\ faults'.store # 0
         \/ req[u] = "looked" /\ req'[u] = "added" /\ row' = FirstRow(u)
         \/ req[u] = "looked" /\ req'[u] = "aborting" /\ row' = NoRow
         \/ /\ req[u] = "added" /\ row' # NoRow /\ row'.source /\ row'.status = "parsed"
            /\ req'[u] = "parsed"
         \/ req[u] = "added" /\ req'[u] = "aborting"
         \/ req[u] = "aborting" /\ req'[u] = "failed" /\ row' = row /\ (object' => faults'.store # 0)
         \/ req[u] = "parsed" /\ row' = row /\ object' = object
            /\ \/ req'[u] = "done" /\ tasks' # {}
               \/ req'[u] = "failed"
               \/ req'[u] = "indexing" /\ ipc'[u] = "begin"
         \/ req'[u] = "failed" /\ row' = row /\ faults'.apiCrash # 0
<1>1. /\ u \in Requests /\ u \in Indexers /\ u \notin Adds
      /\ req[u] \in {"start", "stored", "looked"} => row = NoRow
      /\ req[u] = "looked" => seen[u] = NoRow
      /\ req[u] = "added" => row # NoRow
  BY UploadsAssumption DEF UploadInv, Requests, Indexers
<1>s. StoreFault => faults'.store # 0
  <2>1. faults.store \in Nat /\ DOMAIN faults = FaultKinds
    BY DEF TypeOK, Counts, FaultKinds
  <2> QED
    BY <2>1 DEF StoreFault, FaultKinds
<1>2. CASE PutObject(u)
  BY <1>1, <1>2, <1>s DEF PutObject, SetReq, TypeOK, rowVars, runVars
<1>9. CASE Abort(u)
  BY <1>1, <1>9, <1>s DEF Abort, SetReq, TypeOK
<1>3. CASE LookUp(u)
  BY <1>1, <1>3 DEF LookUp, SetReq, TypeOK, rowVars, runVars
<1>4. CASE WriteRow(u)
  BY <1>1, <1>4 DEF WriteRow, Abandon, SetReq, TypeOK
<1>5. CASE UploadParsed(u)
  <2>1. PICK parsed : parsed = [row EXCEPT !.status = "parsed", !.source = TRUE]
    OBVIOUS
  <2>2. row \in Row
    BY <1>1, <1>5 DEF UploadParsed, TypeOK
  <2>3. parsed \in Row
    BY <2>1, <2>2, RowFields
  <2>4. parsed # NoRow /\ parsed.source /\ parsed.status = "parsed"
    BY <2>1, <2>2, <2>3, NoRowAssumption DEF Row
  <2>5. \/ row' = parsed /\ SetReq(u, "parsed")
        \/ Abandon(u)
    BY <1>1, <1>5, <2>1 DEF UploadParsed
  <2> QED
    BY <1>1, <1>5, <2>4, <2>5 DEF UploadParsed, Abandon, SetReq, TypeOK
<1>6. CASE EnqueueTask(u)
  BY <1>1, <1>6 DEF EnqueueTask, SetReq, TypeOK, rowVars
<1>7. CASE IndexInline(u)
  BY <1>1, <1>7 DEF IndexInline, SetReq, TypeOK, rowVars
<1>8. CASE ApiCrash(u)
  <2>1. faults.apiCrash \in Nat /\ faults'.apiCrash = faults.apiCrash + 1
    BY <1>8 DEF ApiCrash, ApiDeath, TypeOK, Counts
  <2> QED
    BY <1>1, <1>8, <2>1 DEF ApiCrash, SetReq, TypeOK, rowVars
<1> QED
  BY <1>1, <1>2, <1>3, <1>4, <1>5, <1>6, <1>7, <1>8, <1>9 DEF RequestMoves, RequestStep, AddParsed

\* what the file of an upload can rely on
Sound == faults.store = 0 /\ faults.apiCrash = 0

LEMMA UploadNext ==
  ASSUME TypeOK, RunInv, UploadInv, [Next]_vars
  PROVE  UploadInv'
<1> SUFFICES ASSUME OnlyUploads'
             PROVE  /\ row' # NoRow => \E u \in Uploads : req'[u] \notin {"start", "stored", "looked"}
                    /\ \A u \in Uploads :
                         /\ req'[u] = "looked" => seen'[u] = NoRow
                         /\ req'[u] \in {"added", "parsed", "indexing", "done"} => row' # NoRow
                    /\ object' /\ Sound' =>
                         \/ row' # NoRow /\ row'.source
                         \/ \E u \in Uploads : req'[u] \in {"stored", "looked", "added", "aborting"}
  BY DEF UploadInv, Sound
<1>1. OnlyUploads
  BY UploadSteps
<1>2. Sound' => Sound
  BY FaultsNext DEF Counting, FaultKinds, Sound
<1>3. ASSUME NEW u \in Uploads, RequestMoves(u), \A v \in Uploads : v = u
      PROVE  /\ row' # NoRow => req'[u] \notin {"start", "stored", "looked"}
             /\ req'[u] = "looked" => seen'[u] = NoRow
             /\ req'[u] \in {"added", "parsed", "indexing", "done"} => row' # NoRow
             /\ object' /\ Sound' =>
                  \/ row' # NoRow /\ row'.source
                  \/ req'[u] \in {"stored", "looked", "added", "aborting"}
  <2>1. FirstRow(u) # NoRow
    <3>1. FirstRow(u) \in Row
      BY DEF FirstRow, Row, Status, Requests
    <3> QED
      BY <3>1, NoRowAssumption
  <2>2. req[u] = "parsed" => row # NoRow /\ (object /\ Sound => row.source)
    BY <1>1, <1>3 DEF UploadInv, Sound
  <2>3. req[u] = "start" \/ req[u] = "failed" =>
          (object /\ Sound => row # NoRow /\ row.source)
    BY <1>1, <1>3 DEF UploadInv, Sound
  <2>4. req[u] # "start" /\ row # NoRow => req[u] \notin {"start", "stored", "looked"}
    BY <1>1, <1>3 DEF UploadInv, Sound
  <2> QED
    BY <1>1, <1>2, <1>3, <2>1, <2>2, <2>3, <2>4, UploadMoves DEF Sound
<1>4. ASSUME NEW k \in Indexers, IndexMoves(k)
      PROVE  /\ object' = object /\ seen' = seen
             /\ row = NoRow <=> row' = NoRow
             /\ row # NoRow => row'.source = row.source
             /\ \A u \in Uploads : \/ req'[u] = req[u]
                                   \/ req[u] = "indexing" /\ req'[u] \in {"done", "failed"}
  <2>1. ASSUME NEW s \in {"done", "failed"}, req[k] = "indexing", req' = [req EXCEPT ![k] = s],
               NEW u \in Uploads
        PROVE  req'[u] = req[u] \/ (req[u] = "indexing" /\ req'[u] \in {"done", "failed"})
    BY <2>1 DEF TypeOK, Requests
  <2> QED
    BY <1>4, <2>1, IndexForward
<1>5. CASE UNCHANGED vars
  BY <1>1, <1>5 DEF vars, rowVars, reqVars, UploadInv, Sound
<1>6. CASE \E u \in Uploads : RequestMoves(u) /\ \A v \in Uploads : v = u
  BY <1>3, <1>6
<1>7. CASE \E k \in Indexers : IndexMoves(k)
  BY <1>1, <1>2, <1>4, <1>7 DEF UploadInv, Sound
<1> QED
  BY <1>5, <1>6, <1>7, UploadSteps

\* Reads that raised leave attempts.
SomeRead == faults.crash = 0 /\ faults.read < MaxAttempts
ToCome ==
  /\ faults.read = 0 => InHand \/ tasks # {} \/ \E k \in Indexers : ipc[k] = "get"
  /\ SomeRead => \/ InHand \/ \E t \in tasks : Untried(t)
                 \/ \E k \in Indexers : ipc[k] = "get" /\ Untried(job[k])

LEMMA SettleNext ==
  ASSUME TypeOK, RunInv, UploadInv, SettleInv, [Next]_vars
  PROVE  SettleInv'
<1> SUFFICES ASSUME OnlyUploads', Answered', faults'.status = 0, row' # NoRow,
                    row'.status \in {"parsed", "indexing"}
             PROVE  ToCome'
  BY DEF SettleInv, ToCome, SomeRead, InHand, Untried
<1>1. OnlyUploads /\ Answered
  BY UploadSteps, Forward DEF Answered
<1>2. /\ \A f \in {"status", "read", "crash"} : faults[f] \in Nat /\ faults'[f] \in Nat /\ faults[f] <= faults'[f]
      /\ faults.status = 0 /\ (faults'.read = 0 => faults.read = 0) /\ (SomeRead' => SomeRead)
  BY FaultsNext, BoundsAssumption DEF Counting, FaultKinds, SomeRead
<1>3. /\ \A k \in Indexers : ~StatusFault(k)
      /\ \A k \in Indexers : ReadFault(k) => faults'.read = faults.read + 1
      /\ \A k \in Indexers : Redeliver(k) => ~SomeRead'
  <2>1. \A k \in Indexers : /\ StatusFault(k) => faults'.status = faults.status + 1
                            /\ ReadFault(k) => faults'.read = faults.read + 1
                            /\ Redeliver(k) => faults'.crash = faults.crash + 1
    BY FaultsOf, Counted, FaultsNext DEF Counting, FaultKinds
  <2> QED
    BY <1>2, <2>1 DEF SomeRead
<1>4. \A t \in Task : Untried(t) => Untried(t)'
  <2>1. \A t \in Task : t.attempts \in Nat
    BY DEF Task
  <2> QED
    BY <1>2, <2>1 DEF Untried
<1>5. row # NoRow /\ row.status \in {"parsed", "indexing"} => ToCome
  BY <1>1, <1>2 DEF SettleInv, ToCome, SomeRead
<1>6. ASSUME NEW u \in Uploads, RequestMoves(u), \A v \in Uploads : v = u
      PROVE  ToCome'
  <2>1. req'[u] # "failed" /\ FirstRow(u).status = "ready" /\ u \in Indexers /\ u \in Requests /\ u \notin Adds
    BY <1>6, UploadsAssumption DEF Answered, Requests, FirstRow, Indexers
  <2>2. \/ req'[u] \in {"parsed", "aborting"} \/ NewTask(u) \in tasks'
        \/ ipc'[u] = "begin"
    <3>1. \/ req'[u] \in {"parsed", "aborting"} \/ ipc'[u] = "begin"
          \/ req[u] = "parsed" /\ req'[u] = "done"
      BY <1>6, <1>1, <2>1, UploadMoves
    <3>2. req[u] = "parsed" /\ req'[u] = "done" => EnqueueTask(u)
      BY <1>6, <2>1 DEF RequestMoves, RequestStep, PutObject, LookUp, WriteRow, UploadParsed, Abort, AddParsed,
                        IndexInline, ApiCrash, SetReq, TypeOK
    <3>3. EnqueueTask(u) => NewTask(u) \in tasks'
      BY <2>1 DEF EnqueueTask, SetReq, TypeOK
    <3> QED
      BY <3>1, <3>2, <3>3
  <2>3. NewTask(u).attempts = 0
    BY DEF NewTask
  <2>4. Untried(NewTask(u))'
    BY <1>2, <2>3 DEF Untried, NewTask
  <2> QED
    BY <2>1, <2>2, <2>4 DEF ToCome, InHand, Working
<1>7. ASSUME NEW k \in Indexers, IndexMoves(k)
      PROVE  ToCome'
  <2>1. /\ \/ Take(k) \/ (GetDocument(k) /\ row # NoRow) \/ Begin(k) \/ Embed(k) \/ Clear(k)
           \/ Upsert(k) \/ Ack(k) \/ RunFault(k) \/ ReadFault(k) \/ Redeliver(k)
    <3>1. ~StatusFault(k)
      BY <1>3
    <3>2. ~Finish(k)
      BY StatusTyped DEF Finish, Status, TypeOK, SetStatus
    <3>3. ~Failed(k)
      BY StatusTyped DEF Failed, Status
    <3>4. GetDocument(k) => row # NoRow
      BY DEF GetDocument, rowVars
    <3> QED
      BY <1>7, <3>1, <3>2, <3>3, <3>4 DEF IndexMoves, IndexStep, IndexFault
  <2>2. CASE (GetDocument(k) /\ row # NoRow) \/ Begin(k) \/ Embed(k) \/ Clear(k) \/ Upsert(k) \/ RunFault(k)
    <3>1. ipc'[k] \in Working
      BY <2>2 DEF GetDocument, Begin, Embed, Clear, Upsert, RunFault, Step, TypeOK, Working
    <3> QED
      BY <3>1 DEF ToCome, InHand
  <2>3. CASE Take(k) \/ Ack(k) \/ ReadFault(k) \/ Redeliver(k)
    <3>1. ToCome /\ row' = row
      BY <1>5, <2>3 DEF Take, Ack, ReadFault, Redeliver, rowVars
    <3>2. \A v \in Indexers : v # k => ipc'[v] = ipc[v] /\ job'[v] = job[v]
      BY <1>7, IndexRuns
    <3>3. ipc[k] \notin Working \/ (Redeliver(k) /\ tasks' # {})
      BY <2>3 DEF Take, Ack, ReadFault, Redeliver, Working
    <3>4. InHand => InHand' \/ (Redeliver(k) /\ tasks' # {})
      <4>1. req' = req \/ ReadFault(k)
        BY <2>3 DEF Take, Ack, Redeliver, reqVars
      <4>2. ReadFault(k) => req' = req
        BY RaiseTyped, <1>7 DEF ReadFault, RunInv, Working
      <4> QED
        BY <3>2, <3>3, <4>1, <4>2 DEF InHand
    <3>5. CASE Take(k)
      <4>1. PICK t \in tasks : tasks' = tasks \ {t} /\ job' = [job EXCEPT ![k] = t]
        BY <3>5 DEF Take
      <4>2. ipc'[k] = "get" /\ job'[k] = t /\ ipc[k] = "idle"
        BY <3>5, <4>1 DEF Take, Step, TypeOK
      <4>3. SomeRead' => \/ InHand' \/ \E x \in tasks' : Untried(x)'
                         \/ \E v \in Indexers : ipc'[v] = "get" /\ Untried(job[v])'
        <5>1. ASSUME NEW v \in Indexers, ipc[v] = "get", Untried(job[v])
              PROVE  ipc'[v] = "get" /\ Untried(job[v])'
          BY <1>4, <3>2, <4>2, <5>1, Kinds DEF RunInv, Untried, Indexers, Working
        <5>2. ASSUME NEW x \in tasks, Untried(x)
              PROVE  (x \in tasks' /\ Untried(x)') \/ Untried(job[k])'
          BY <1>4, <4>1, <4>2, <5>2 DEF TypeOK, Untried
        <5> QED
          BY <1>2, <3>1, <3>4, <3>5, <4>2, <5>1, <5>2 DEF ToCome, Redeliver, Take
      <4> QED
        BY <4>2, <4>3 DEF ToCome
    <3>6. CASE Ack(k)
      <4>1. /\ ipc[k] = "ack" /\ ipc'[k] = "idle" /\ UNCHANGED <<tasks, job, faults>>
        BY <3>6 DEF Ack, Step, TypeOK
      <4> QED
        BY <1>2, <1>3, <3>1, <3>2, <3>4, <4>1 DEF ToCome, Untried, SomeRead
    <3>7. CASE ReadFault(k)
      <4>1. k \in Workers /\ job[k] \in Task /\ k \notin env.inline /\ ipc[k] = "get" /\ UNCHANGED job
        BY <3>7, Kinds DEF ReadFault, RunInv, Working, Indexers
      <4>2. /\ tasks \subseteq tasks' /\ job[k].attempts \in Nat
            /\ job[k].attempts + 1 < MaxAttempts => [job[k] EXCEPT !.attempts = job[k].attempts + 1] \in tasks'
        BY <3>7, <4>1, RaiseTyped DEF ReadFault, Task
      <4>3. SomeRead' => job[k].attempts \in Nat /\ faults'.read = faults.read + 1 /\ faults'.read < MaxAttempts
        BY <1>3, <3>7, <4>2 DEF SomeRead
      <4>4. SomeRead' /\ Untried(job[k]) => \E t \in tasks' : Untried(t)'
        <5>1. SUFFICES ASSUME SomeRead', Untried(job[k]) PROVE \E t \in tasks' : Untried(t)'
          OBVIOUS
        <5>2. PICK retry : retry = [job[k] EXCEPT !.attempts = job[k].attempts + 1]
          OBVIOUS
        <5>3. retry.attempts = job[k].attempts + 1
          BY <4>1, <5>2 DEF Task
        <5>4. job[k].attempts <= faults.read /\ MaxAttempts \in Nat
          BY <5>1, BoundsAssumption DEF Untried
        <5>5. retry \in tasks' /\ retry.attempts <= faults'.read
          BY <1>2, <4>2, <4>3, <5>1, <5>2, <5>3, <5>4
        <5> QED
          BY <5>5 DEF Untried
      <4>5. SomeRead' => \/ InHand' \/ \E t \in tasks' : Untried(t)'
                         \/ \E v \in Indexers : ipc'[v] = "get" /\ Untried(job[v])'
        <5>1. ASSUME NEW v \in Indexers, v # k, ipc[v] = "get", Untried(job[v])
              PROVE  ipc'[v] = "get" /\ Untried(job[v])'
          BY <1>4, <3>2, <5>1, Kinds DEF RunInv, Untried, Indexers, Working
        <5>2. ASSUME NEW x \in tasks, Untried(x)
              PROVE  x \in tasks' /\ Untried(x)'
          BY <1>4, <4>2, <5>2 DEF TypeOK, Untried
        <5>3. ~Redeliver(k) \/ ~SomeRead'
          BY <1>3
        <5> QED
          BY <1>2, <3>1, <3>4, <4>4, <5>1, <5>2, <5>3 DEF ToCome
      <4>6. faults'.read # 0
        BY <1>2, <1>3, <3>7
      <4> QED
        BY <4>5, <4>6 DEF ToCome
    <3>8. CASE Redeliver(k)
      <4>1. tasks' # {} /\ ~SomeRead'
        BY <1>3, <3>8 DEF Redeliver
      <4> QED
        BY <4>1 DEF ToCome
    <3> QED
      BY <2>3, <3>5, <3>6, <3>7, <3>8
  <2> QED
    BY <2>1, <2>2, <2>3
<1>8. CASE UNCHANGED vars
  <2>1. ToCome
    BY <1>5, <1>8 DEF vars, rowVars
  <2> QED
    BY <1>8, <2>1 DEF vars, reqVars, runVars, ToCome, SomeRead, InHand, Untried
<1> QED
  BY <1>6, <1>7, <1>8, UploadSteps

-----------------------------------------------------------------------------
(* One worker at a time *)

Queued == \E r \in Adds : req[r] = "queued"

\* Where runs do not overlap, every step is a request's or the worker's.
LEMMA SerialStep ==
  ASSUME TypeOK, RunInv, [Next]_vars, Serial'
  PROVE  /\ Serial /\ env' = env /\ Missed' < MaxAttempts
         /\ Missed \in Nat /\ Missed' \in Nat /\ Missed <= Missed'
         /\ \/ UNCHANGED vars
            \/ \E r \in Requests : RequestStep(r) /\ ~IndexInline(r)
            \/ \E k \in Workers : IndexMoves(k) /\ \A v \in Workers : v = k
<1>1. Missed \in Nat /\ Missed' \in Nat /\ Missed <= Missed' /\ env' = env
  BY MissedNext, FaultsNext DEF Counting
<1>2. OneWorker /\ env.inline = {} /\ Missed' < MaxAttempts /\ MaxAttempts \in Nat
  BY <1>1, BoundsAssumption DEF Serial, OneWorker
<1>3. NoDelete /\ Answered
  BY Forward DEF Serial, NoDelete, Answered
<1>4. Serial
  BY <1>1, <1>2, <1>3 DEF Serial
<1>5. ASSUME NEW r \in Requests, RequestMoves(r)
      PROVE  RequestStep(r) /\ ~IndexInline(r)
  <2>1. ~ApiCrash(r)
    BY DEF ApiCrash, SetReq, TypeOK, Serial, Answered
  <2> QED
    BY <1>2, <1>5, <2>1 DEF RequestMoves, IndexInline
<1>6. ASSUME NEW k \in Indexers, IndexMoves(k)
      PROVE  k \in Workers /\ \A v \in Workers : v = k
  <2>1. k \in Workers \/ ipc[k] # "idle"
    BY <1>6 DEF IndexMoves, IndexStep, IndexFault, Take, GetDocument, Begin, Embed, Clear, Upsert,
                Finish, Failed, Ack,
                RunFault, ReadFault, StatusFault, Redeliver
  <2> QED
    BY <1>2, <2>1 DEF RunInv, OneWorker
<1>7. ASSUME NEW d \in Deletes, DeleteMoves(d) PROVE FALSE
  BY <1>7, DeleteForward DEF Serial, NoDelete
<1> QED
  BY <1>1, <1>2, <1>4, <1>5, <1>6, <1>7 DEF Next, RequestMoves, IndexMoves, DeleteMoves

\* A request that writes a content makes sure of a run after it.
LEMMA RequestAwaits ==
  ASSUME TypeOK, NEW r \in Requests, RequestStep(r), ~IndexInline(r), Answered', Missed' \in Nat,
         Missed \in Nat, Missed <= Missed'
  PROVE  /\ UNCHANGED <<points, runVars>>
         /\ \/ Awaited'
            \/ /\ Awaited => Awaited'
               /\ \/ row' = row /\ (Queued => Queued')
                  \/ row # NoRow /\ row'.content = row.content /\ row'.status = "parsed"
<1>1. req'[r] # "failed"
  BY DEF Answered
<1>2. \A s \in Requests : s # r => req'[s] = req[s]
  BY RequestRuns DEF RequestMoves
<1>3. (tasks \subseteq tasks' /\ req[r] \notin {"added", "parsed", "aborting"}) => (Awaited => Awaited')
  <2>1. \A t \in tasks : Early(t) => t.attempts <= Missed'
    BY DEF Early, TypeOK, Task
  <2> QED
    BY <1>2, <2>1 DEF Awaited, Early
<1>9. CASE Abort(r)
  BY <1>1, <1>9 DEF Abort, SetReq, TypeOK
<1>4. CASE PutObject(r) \/ LookUp(r)
  <2>1. /\ req[r] \in {"start", "stored"} /\ row' = row /\ tasks' = tasks
        /\ UNCHANGED <<points, runVars>>
    BY <1>4 DEF PutObject, LookUp, rowVars
  <2>2. Queued => Queued'
    BY <1>2, <2>1 DEF Queued, Requests
  <2> QED
    BY <1>3, <2>1, <2>2
<1>5. CASE WriteRow(r)
  BY <1>1, <1>5 DEF WriteRow, Abandon, SetReq, TypeOK, Awaited
<1>6. CASE UploadParsed(r)
  BY <1>1, <1>6 DEF UploadParsed, Abandon, SetReq, TypeOK, Awaited
<1>7. CASE EnqueueTask(r)
  <2>1. NewTask(r) \in tasks' /\ UNCHANGED <<points, runVars>>
    BY <1>1, <1>7 DEF EnqueueTask, SetReq, TypeOK, rowVars
  <2>2. NewTask(r).attempts <= Missed'
    BY DEF NewTask
  <2> QED
    BY <2>1, <2>2 DEF Awaited, Early
<1>8. CASE AddParsed(r)
  <2>1. /\ row # NoRow /\ SetStatus("parsed") /\ tasks' = tasks /\ req[r] = "queued"
        /\ UNCHANGED <<points, runVars>>
    BY <1>1, <1>8 DEF AddParsed, SetReq, TypeOK
  <2>2. row'.content = row.content /\ row'.status = "parsed"
    BY <2>1, StatusTyped DEF Status
  <2> QED
    BY <1>3, <2>1, <2>2
<1> QED
  BY <1>4, <1>5, <1>6, <1>7, <1>8, <1>9 DEF RequestStep

\* PutInv, said of one worker.
RunPuts(k) ==
  /\ ipc[k] \in {"put", "finish"} =>
       /\ put[k] \in 0..ChunkCount[snap[k]]
       /\ points = {[key |-> Key(snap[k], i), content |-> snap[k]] : i \in 1..put[k]}
  /\ ipc[k] = "finish" => put[k] = ChunkCount[snap[k]]
  /\ ipc[k] \in Working \ {"fail"} => row = NoRow \/ snap[k] = row.content \/ Awaited

\* The next chunk adds its point and replaces none.
LEMMA NextPoint ==
  ASSUME NEW c \in Requests, NEW n \in Nat, n < ChunkCount[c],
         NEW P, P = {[key |-> Key(c, i), content |-> c] : i \in 1..n},
         NEW p, p = [key |-> Key(c, n + 1), content |-> c]
  PROVE  {q \in P : q.key # p.key} \cup {p} = {[key |-> Key(c, i), content |-> c] : i \in 1..(n + 1)}
<1>1. ChunkCount[c] \in Nat
  BY ChunkAssumption
<1>2. \A i \in 1..n : Key(c, i) # Key(c, n + 1)
  BY <1>1 DEF Key
<1>3. {q \in P : q.key # p.key} = P
  BY <1>2
<1>4. 1..(n + 1) = (1..n) \cup {n + 1}
  OBVIOUS
<1> QED
  BY <1>3, <1>4

\* One step of a run keeps what it has put.
LEMMA PutStep ==
  ASSUME TypeOK, RunInv, NEW k \in Workers, IndexMoves(k), RunPuts(k), Awaited => Awaited'
  PROVE  RunPuts(k)'
<1>1. k \in Indexers /\ k \notin env.inline
  BY Kinds DEF Indexers
<1>2. CASE ipc'[k] \notin Working \ {"fail"}
  BY <1>2 DEF RunPuts, Working
<1>3. CASE GetDocument(k) /\ row # NoRow
  BY <1>1, <1>2, <1>3 DEF GetDocument, Step, TypeOK, RunPuts, Working, rowVars
<1>4. CASE Begin(k)
  <2>1. (row = NoRow <=> row' = NoRow) /\ (row # NoRow => row'.content = row.content)
    BY <1>4, StatusTyped DEF Begin, Status
  <2>2. ipc[k] = "begin" /\ ipc'[k] = "embed" /\ snap' = snap
    BY <1>1, <1>4 DEF Begin, Step, TypeOK
  <2>3. ipc[k] \in Working \ {"fail"}
    BY <2>2 DEF Working
  <2> QED
    BY <2>1, <2>2, <2>3 DEF RunPuts
<1>5. CASE Embed(k)
  BY <1>1, <1>5 DEF Embed, Step, TypeOK, RunPuts, Working, rowVars
<1>6. CASE Clear(k)
  <2>1. /\ ipc[k] = "clear" /\ ipc'[k] = "put" /\ snap' = snap /\ row' = row /\ points' = {}
        /\ put'[k] = 0
    BY <1>1, <1>6 DEF Clear, Remaining, Step, TypeOK
  <2>2. snap[k] \in Requests /\ ipc[k] \in Working \ {"fail"}
    BY <1>1, <2>1 DEF RunInv, Working
  <2>3. ChunkCount[snap[k]] \in Nat /\ 1..0 = {}
    BY <2>2, ChunkAssumption
  <2>4. points' = {[key |-> Key(snap[k], i), content |-> snap[k]] : i \in 1..0}
    BY <2>1, <2>3
  <2> QED
    BY <2>1, <2>2, <2>3, <2>4 DEF RunPuts
<1>7. CASE Upsert(k)
  <2>1. PICK p : p = [key |-> Key(snap[k], put[k] + 1), content |-> snap[k]]
    OBVIOUS
  <2>2. /\ ipc[k] = "put" /\ put[k] < ChunkCount[snap[k]] /\ snap' = snap /\ row' = row
        /\ put'[k] = put[k] + 1
        /\ ipc'[k] = IF put[k] + 1 = ChunkCount[snap[k]] THEN "finish" ELSE "put"
        /\ points' = {q \in points : q.key # p.key} \cup {p}
    BY <1>1, <1>7, <2>1 DEF Upsert, Step, TypeOK
  <2>3. snap[k] \in Requests /\ put[k] \in Nat /\ ipc[k] \in Working \ {"fail"}
    BY <1>1, <2>2 DEF RunInv, Working, TypeOK
  <2>4. ChunkCount[snap[k]] \in Nat
    BY <2>3, ChunkAssumption
  <2>5. points' = {[key |-> Key(snap[k], i), content |-> snap[k]] : i \in 1..(put[k] + 1)}
    BY <2>1, <2>2, <2>3, NextPoint DEF RunPuts
  <2> QED
    BY <2>2, <2>3, <2>4, <2>5 DEF RunPuts
<1>8. ipc'[k] \in Working \ {"fail"} =>
        \/ (GetDocument(k) /\ row # NoRow) \/ Begin(k) \/ Embed(k) \/ Clear(k) \/ Upsert(k)
        \/ (Redeliver(k) /\ ipc' = ipc)
  <2>1. CASE Take(k) \/ Finish(k) \/ Ack(k) \/ RunFault(k)
    BY <1>1, <2>1 DEF Take, Finish, Ack, RunFault, Step, TypeOK, Working
  <2>2. CASE Failed(k) \/ ReadFault(k) \/ StatusFault(k) \/ (GetDocument(k) /\ row = NoRow)
    <3>1. Raise(k)
      BY <2>2 DEF Failed, ReadFault, StatusFault, GetDocument
    <3> QED
      BY <1>1, <3>1 DEF Raise, Step, TypeOK, Working
  <2>3. CASE Redeliver(k)
    BY <1>1, <2>3 DEF Redeliver, Step, TypeOK, Working
  <2> QED
    BY <2>1, <2>2, <2>3 DEF IndexMoves, IndexStep, IndexFault
<1>9. CASE Redeliver(k) /\ ipc' = ipc
  BY <1>9 DEF Redeliver, RunPuts, rowVars
<1> QED
  BY <1>2, <1>3, <1>4, <1>5, <1>6, <1>7, <1>8, <1>9

\* A run that is due stays due, until a worker takes its task.
LEMMA StillAwaited ==
  ASSUME TypeOK, RunInv, NEW k \in Workers, IndexMoves(k),
         Missed \in Nat, Missed' \in Nat, Missed <= Missed'
  PROVE  /\ req' = req
         /\ ~Take(k) => tasks \subseteq tasks' /\ (Awaited => Awaited')
<1>1. k \in Indexers /\ k \notin env.inline
  BY Kinds DEF Indexers
<1>2. req' = req
  BY <1>1, IndexRuns
<1>3. \A t \in tasks : Early(t) => t.attempts <= Missed'
  BY DEF Early, TypeOK, Task
<1>4. ASSUME ~Take(k) PROVE tasks \subseteq tasks'
  <2>1. CASE Begin(k) \/ Embed(k) \/ Clear(k) \/ Upsert(k) \/ Finish(k) \/ Ack(k) \/ RunFault(k)
             \/ Redeliver(k) \/ (GetDocument(k) /\ row # NoRow)
    BY <2>1 DEF Begin, Embed, Clear, Upsert, Finish, Ack, RunFault, Redeliver, GetDocument
  <2>2. CASE Failed(k) \/ ReadFault(k) \/ StatusFault(k) \/ (GetDocument(k) /\ row = NoRow)
    <3>1. Raise(k) /\ ipc[k] # "idle"
      BY <2>2 DEF Failed, ReadFault, StatusFault, GetDocument
    <3> QED
      BY <1>1, <3>1, RaiseTyped
  <2> QED
    BY <1>4, <2>1, <2>2 DEF IndexMoves, IndexStep, IndexFault
<1> QED
  BY <1>2, <1>3, <1>4 DEF Awaited, Early

LEMMA PutNext ==
  ASSUME TypeOK, RunInv, PutInv, [Next]_vars
  PROVE  PutInv'
<1> SUFFICES ASSUME Serial' PROVE \A k \in Workers : RunPuts(k)'
  BY DEF PutInv, RunPuts
<1>1. \A k \in Workers : RunPuts(k)
  BY SerialStep DEF PutInv, RunPuts
<1>2. Missed \in Nat /\ Missed' \in Nat /\ Missed <= Missed'
  BY SerialStep
<1>3. ASSUME NEW r \in Requests, RequestStep(r), ~IndexInline(r), NEW k \in Workers
      PROVE  RunPuts(k)'
  <2>1. Answered'
    BY DEF Serial
  <2>2. /\ UNCHANGED <<points, runVars>>
        /\ \/ Awaited'
           \/ /\ Awaited => Awaited'
              /\ \/ row' = row /\ (Queued => Queued')
                 \/ row # NoRow /\ row'.content = row.content /\ row'.status = "parsed"
    BY <1>2, <1>3, <2>1, RequestAwaits
  <2> QED
    BY <1>1, <2>2 DEF RunPuts, runVars
<1>4. ASSUME NEW k \in Workers, IndexMoves(k) PROVE RunPuts(k)'
  <2>1. CASE Take(k)
    BY <2>1, Kinds DEF Take, Step, RunPuts, TypeOK, Working
  <2>2. CASE ~Take(k)
    BY <1>1, <1>2, <1>4, <2>2, StillAwaited, PutStep
  <2> QED
    BY <2>1, <2>2
<1>5. CASE UNCHANGED vars
  <2>1. Awaited' <=> Awaited
    BY <1>5 DEF vars, reqVars, Awaited, Early, Missed
  <2> QED
    BY <1>1, <1>5, <2>1 DEF vars, rowVars, runVars, RunPuts
<1> QED
  BY <1>3, <1>4, <1>5, SerialStep

\* What ReadyInv says of a row that is "ready".
Settled ==
  /\ \A k \in Workers : ipc[k] \in {"idle", "get", "begin", "ack"}
  /\ points = PointsOf(row.content) \/ \E k \in Workers : ipc[k] \in {"get", "begin"} /\ Early(job[k])

\* One step of a run: the row is ready because it was, or because the run has put
\* everything.
LEMMA ReadyStep ==
  ASSUME TypeOK, RunInv, ParsedInv, NEW k \in Workers, \A v \in Workers : v = k, IndexMoves(k), RunPuts(k),
         Missed \in Nat, Missed' \in Nat, Missed <= Missed',
         Missed' < MaxAttempts, ReadFault(k) \/ StatusFault(k) => Missed' = Missed + 1,
         row' # NoRow, row'.status = "ready", ~Awaited', ~Queued',
         row # NoRow /\ row.status = "ready" => Awaited \/ Queued \/ Settled
  PROVE  Settled'
<1>1. k \in Indexers /\ k \notin env.inline
  BY Kinds DEF Indexers
<1>2. req' = req /\ (~Take(k) => tasks \subseteq tasks' /\ ~Awaited) /\ ~Queued
  BY StillAwaited DEF Queued
<1>3. CASE Take(k)
  <2>1. PICK t \in tasks : tasks' = tasks \ {t} /\ job' = [job EXCEPT ![k] = t]
    BY <1>3 DEF Take
  <2>2. ipc[k] = "idle" /\ ipc'[k] = "get" /\ job'[k] = t /\ UNCHANGED <<row, points, faults>>
    BY <1>1, <1>3, <2>1 DEF Take, Step, TypeOK, rowVars
  <2>3. Awaited => Early(t)
    BY <1>2, <2>1, <2>2 DEF Awaited, Early, Missed
  <2>4. Settled => points = PointsOf(row.content)
    BY <2>2 DEF Settled
  <2>5. \A v \in Workers : ipc'[v] = "get"
    BY <2>2
  <2>6. Early(t) \/ points = PointsOf(row.content)
    BY <1>2, <2>2, <2>3, <2>4
  <2>7. (points = PointsOf(row.content))' \/ Early(job[k])'
    BY <2>2, <2>6 DEF Early, Missed, PointsOf, Key
  <2> QED
    BY <2>2, <2>5, <2>7 DEF Settled
<1>4. CASE GetDocument(k) /\ row # NoRow
  <2>1. ipc[k] = "get" /\ ipc'[k] = "begin" /\ UNCHANGED <<row, points, faults, job>>
    BY <1>1, <1>4 DEF GetDocument, Step, TypeOK, rowVars, RaiseTyped
  <2> QED
    BY <1>2, <1>4, <2>1 DEF Settled, Early, Missed, GetDocument, Take
<1>5. CASE GetDocument(k) /\ row = NoRow
  BY <1>5 DEF GetDocument, rowVars
<1>6. CASE Begin(k) \/ Failed(k)
  BY <1>6, StatusTyped DEF Begin, Failed, Status
<1>7. CASE Embed(k) \/ Clear(k) \/ Upsert(k) \/ RunFault(k)
  <2>1. ipc[k] \in {"embed", "clear", "put"} /\ row' = row
    BY <1>7 DEF Embed, Clear, Upsert, RunFault, rowVars
  <2> QED
    BY <1>2, <1>7, <2>1 DEF Settled, Take
<1>8. CASE Finish(k)
  <2>1. ipc[k] = "finish" /\ ipc'[k] = "ack" /\ points' = points
    BY <1>1, <1>8 DEF Finish, Step, TypeOK
  <2>2. row # NoRow /\ row'.content = row.content
    BY <1>8, StatusTyped DEF Finish, Status
  <2>3. points = PointsOf(snap[k]) /\ snap[k] = row.content
    BY <1>2, <2>1, <2>2 DEF RunPuts, PointsOf, Working, Take
  <2>4. \A v \in Workers : ipc'[v] = "ack"
    BY <2>1
  <2>5. points' = PointsOf(row'.content)
    BY <2>1, <2>2, <2>3
  <2> QED
    BY <2>4, <2>5 DEF Settled, PointsOf, Key
<1>9. CASE ReadFault(k) \/ StatusFault(k)
  <2>1. /\ Raise(k) /\ ipc[k] # "idle" /\ ipc[k] \in {"get", "begin", "finish", "fail"}
        /\ UNCHANGED <<row, points, job>> /\ Missed' = Missed + 1
    BY <1>9 DEF ReadFault, StatusFault, TypeOK, rowVars
  <2>2. ipc'[k] = "ack"
    BY <1>1, <2>1, RaiseTyped DEF TypeOK
  <2>3. Settled
    BY <1>2, <1>9, <2>1 DEF ReadFault, StatusFault, Take
  <2>4. ~Early(job[k])
    <3>1. SUFFICES ASSUME Early(job[k]) PROVE FALSE
      OBVIOUS
    <3>2. job[k] \in Task
      BY <1>1, <2>1 DEF RunInv
    <3>3. job[k].attempts \in Nat /\ job[k].attempts + 1 <= Missed' /\ MaxAttempts \in Nat
      BY <2>1, <3>1, <3>2, BoundsAssumption DEF Early, Task
    <3>4. PICK retry : retry = [job[k] EXCEPT !.attempts = job[k].attempts + 1]
      OBVIOUS
    <3>5. retry \in tasks'
      BY <1>1, <2>1, <3>3, <3>4, RaiseTyped
    <3>6. retry.attempts <= Missed'
      BY <3>2, <3>3, <3>4 DEF Task
    <3> QED
      BY <3>5, <3>6 DEF Awaited, Early
  <2>5. points = PointsOf(row.content)
    BY <2>3, <2>4 DEF Settled
  <2> QED
    BY <2>1, <2>2, <2>5 DEF Settled, PointsOf, Key
<1>10. CASE Ack(k)
  <2>1. ipc[k] = "ack" /\ ipc'[k] = "idle" /\ UNCHANGED <<row, points>>
    BY <1>1, <1>10 DEF Ack, Step, TypeOK, rowVars
  <2> QED
    BY <1>2, <1>10, <2>1 DEF Settled, Take, PointsOf, Key
<1>11. CASE Redeliver(k)
  <2>1. /\ job[k] \in tasks' /\ UNCHANGED <<row, points>> /\ (ipc'[k] = "idle" \/ ipc'[k] = ipc[k])
        /\ ipc[k] # "idle" /\ Missed' = Missed
    BY <1>1, <1>11 DEF Redeliver, Step, TypeOK, Counts, rowVars, Missed
  <2>2. ~Early(job[k])
    BY <2>1 DEF Awaited, Early
  <2>3. Settled
    BY <1>2, <2>1, <1>11 DEF Redeliver, Take
  <2> QED
    BY <2>1, <2>2, <2>3 DEF Settled, PointsOf, Key
<1> QED
  BY <1>3, <1>4, <1>5, <1>6, <1>7, <1>8, <1>9, <1>10, <1>11 DEF IndexMoves, IndexStep, IndexFault

LEMMA ReadyNext ==
  ASSUME TypeOK, RunInv, ParsedInv, PutInv, ReadyInv, [Next]_vars
  PROVE  ReadyInv'
<1> SUFFICES ASSUME Serial', row' # NoRow, row'.status = "ready", ~Awaited', ~Queued'
             PROVE  Settled'
  BY DEF ReadyInv, Settled, Queued
<1>1. /\ Serial /\ Missed \in Nat /\ Missed' \in Nat
      /\ Missed <= Missed' /\ Missed' < MaxAttempts
  BY SerialStep
<1>2. row # NoRow /\ row.status = "ready" => Awaited \/ Queued \/ Settled
  BY <1>1 DEF ReadyInv, Settled, Queued
<1>3. ASSUME NEW r \in Requests, RequestStep(r), ~IndexInline(r) PROVE Settled'
  <2>1. Answered'
    BY DEF Serial
  <2>2. UNCHANGED <<points, runVars>> /\ ~Awaited /\ row' = row /\ ~Queued
    BY <1>1, <1>3, <2>1, RequestAwaits
  <2>3. faults' = faults \/ ApiFault \/ ApiDeath \/ StoreFault
    BY <1>3 DEF RequestStep, PutObject, LookUp, WriteRow, UploadParsed, Abort, EnqueueTask, AddParsed,
                IndexInline
  <2>4. Missed' = Missed
    BY <2>3 DEF ApiFault, ApiDeath, StoreFault, TypeOK, Counts, Missed
  <2> QED
    BY <1>2, <2>2, <2>4 DEF Settled, runVars, PointsOf, Key, Early, Missed
<1>4. ASSUME NEW k \in Workers, IndexMoves(k), \A v \in Workers : v = k PROVE Settled'
  <2>1. RunPuts(k)
    BY <1>1 DEF PutInv, RunPuts
  <2> QED
    BY <1>1, <1>2, <1>4, <2>1, ReadyStep, MissedNext DEF Indexers
<1>5. CASE UNCHANGED vars
  <2>1. ~Awaited /\ ~Queued
    BY <1>5 DEF vars, reqVars, Awaited, Early, Missed, Queued
  <2> QED
    BY <1>2, <1>5, <2>1 DEF vars, rowVars, runVars, Settled, PointsOf, Key, Early, Missed
<1> QED
  BY <1>3, <1>4, <1>5, SerialStep

-----------------------------------------------------------------------------
(* What follows *)

LEMMA IInvNext ==
  IInv /\ [Next]_vars => IInv'
BY TypeNext, RunNext, UploadNext, SettleNext, PutNext, ReadyNext DEF IInv

\* The inductive invariant of a document's life.
THEOREM Invariance ==
  Spec => []IInv
BY InitInv, IInvNext, PTL DEF Spec

\* The document's row, vectors, file, requests and runs stay what they are (TypeOK).
THEOREM TypeCorrect ==
  Spec => []TypeOK
<1>1. IInv => TypeOK
  BY DEF IInv
<1> QED
  BY <1>1, Invariance, PTL

\* With one worker, no delete, requests that are answered and fewer attempts lost to the
\* database than a task has, a document that is "ready" when all is quiet is indexed with its current
\* content and nothing else, however its adds, its runs, their retries and their
\* redeliveries follow each other (index_document, repository.add).
THEOREM ReadyIsCurrentHolds ==
  Spec => []ReadyIsCurrent
<1>1. IInv => ReadyIsCurrent
  BY UploadsAssumption DEF IInv, ReadyInv, ReadyIsCurrent, Quiet, Awaited, Requests, Indexers
<1> QED
  BY <1>1, Invariance, PTL

\* An upload whose document the worker could read in some attempt does not end in
\* "parsed" or "indexing": when all is quiet, the row says how indexing ended
\* (upload_document, worker.py, index_document).
THEOREM UploadSettledHolds ==
  Spec => []UploadSettled
<1>1. IInv => UploadSettled
  <2>1. SUFFICES ASSUME IInv, OnlyUploads, Quiet, Answered, Readable, faults.status = 0, row # NoRow
                 PROVE  row.status \in {"ready", "failed"}
    BY DEF UploadSettled, StatusSettled
  <2>2. row.status \in Status
    BY <2>1 DEF IInv, TypeOK, Row
  <2>3. row.status \notin {"parsed", "indexing"}
    BY <2>1 DEF IInv, SettleInv, InHand, Readable, Quiet, Working, Requests
  <2> QED
    BY <2>2, <2>3 DEF Status
<1> QED
  BY <1>1, Invariance, PTL

\* The file of an upload that failed does not stay behind without a row: where the
\* database raised, before or after it committed, and the object store did not, the
\* except clause removes it (upload_document).
THEOREM NoOrphanObjectHolds ==
  Spec => []NoOrphanObject
<1>1. IInv => NoOrphanObject
  BY DEF IInv, UploadInv, NoOrphanObject, Quiet, Requests
<1> QED
  BY <1>1, Invariance, PTL

\* Only a run that has all its embeddings, or a delete, empties the index
\* (index_document).
THEOREM OnlyClearEmptiesHolds ==
  Spec => OnlyClearEmpties
<1>1. TypeOK /\ [Next]_vars =>
        [points # {} /\ points' = {} =>
           \/ \E k \in Indexers : ipc[k] = "clear" /\ ipc'[k] = "put"
           \/ \E d \in Deletes : del[d] = "vectors" /\ del'[d] = "object"]_vars
  <2> SUFFICES ASSUME TypeOK, [Next]_vars, points # {}, points' = {}
               PROVE  \/ \E k \in Indexers : ipc[k] = "clear" /\ ipc'[k] = "put"
                      \/ \E d \in Deletes : del[d] = "vectors" /\ del'[d] = "object"
    OBVIOUS
  <2>1. ASSUME NEW r \in Requests, RequestMoves(r) PROVE points' = points
    BY <2>1 DEF RequestMoves, RequestStep, PutObject, LookUp, WriteRow, UploadParsed, Abort,
                EnqueueTask, AddParsed,
                IndexInline, ApiCrash, rowVars
  <2>2. ASSUME NEW k \in Indexers, IndexMoves(k) PROVE points' = points \/ points' # {} \/ Clear(k)
    BY <2>2 DEF IndexMoves, IndexStep, IndexFault, Take, GetDocument, Begin, Embed, Upsert, Finish,
                Failed, Ack,
                RunFault, ReadFault, StatusFault, Redeliver, rowVars
  <2>3. ASSUME NEW d \in Deletes, DeleteMoves(d) PROVE points' = points \/ DeleteVectors(d)
    BY <2>3 DEF DeleteMoves, DeleteStep, DeleteRead, DeleteRow, DeleteObject, DeleteFault, rowVars
  <2>4. points' # points
    OBVIOUS
  <2>5. (\E k \in Indexers : Clear(k)) \/ \E d \in Deletes : DeleteVectors(d)
    BY <2>1, <2>2, <2>3, <2>4 DEF Next, vars, rowVars, RequestMoves, IndexMoves, DeleteMoves
  <2> QED
    BY <2>5 DEF Clear, DeleteVectors, Step, SetDel, TypeOK
<1> QED
  BY <1>1, TypeCorrect, PTL DEF Spec, OnlyClearEmpties

=============================================================================
